SPECIFICATION Spec
CONSTANTS
  Backups = 2
  MaxSize = 3
  TailLength = {2}
  MaxClears = 1
  nil = nil
  Outputs <- SmallOutputs
  MaxChunk = 3
  ReadBuffer = 2
  CaptureMax = 4
INVARIANT NoGap
INVARIANT ReadLogExact
INVARIANT CaptureExact
PROPERTY TailAdvances
CHECK_DEADLOCK FALSE
