SPECIFICATION FairSpec
CONSTANTS
  Callers = {k1, k2}
  Goroutines = {g1}
  Stoppers = {s1}
  Cmds = {c1}
  nil = nil
  Configs <- DefaultConfigs
PROPERTY StopTrueReturns
PROPERTY StartTrueReturnsUnlessStopped
PROPERTY ExitNoticed
CHECK_DEADLOCK FALSE
