SPECIFICATION GatewaySpec
CONSTANTS
  NameOrder <- SmallNames
  Extensions <- SmallExtensions
  HostPorts = {"h1", "h2"}
  Batches <- SmallBatches
  Requests = {r1, r2}
  MaxRegisters = 3
  Topics = {t1}
  Conns = {c1, c2}
  NoTopic = NoTopic
  Databases = {d1}
  MaxStarts = 2
  Dirs = {compose1, compose2, app}
  TempDirs = {compose1, compose2}
  Yamls <- SmallYamls
  ComposeRequests = {q1, q2}
  Absent = Absent
  Nothing = Nothing
INVARIANT StoreMatches
 
INVARIANT TruncateServed
CHECK_DEADLOCK FALSE
