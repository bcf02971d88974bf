SPECIFICATION Spec
CONSTANTS
  Callers = {k1, k2}
  Goroutines = {g1, g2}
  Stoppers = {s1}
  Cmds = {c1, c2}
  nil = nil
  Configs <- AllConfigs
SYMMETRY Symmetry
INVARIANT NoOrphan
INVARIANT StateImpliesCmd
CHECK_DEADLOCK FALSE
PROPERTY PromotesOwnLaunch
PROPERTY ImplementsLifecycle
PROPERTY NoLaunchAfterStop
