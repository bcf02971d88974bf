SPECIFICATION Spec
CONSTANTS
  a = a
  b = b
  c = c
  g = g
  main = main
  nil = nil
  Sections = {a, b, c}
  Groups = {g}
  Clients = {c1, c2}
  MaxReloads = 3
  MaxNum = 2
  Configs <- SmallConfigs
INVARIANT StartOrder
 
PROPERTY ReportExact
PROPERTY ReloadReturns
CHECK_DEADLOCK FALSE
