SPECIFICATION FairSpec
CONSTANTS
  Programs = {p1}
  EventListeners = {}
  AutoStart = {p1}
  Clients = {k1}
  MaxSups = 2
  main = main
  nil = nil
INVARIANT OldProgramWasRevived
PROPERTY ProcsAreLifecycles
PROPERTY StopAllReturns
CHECK_DEADLOCK FALSE
