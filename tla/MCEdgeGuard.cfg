SPECIFICATION Spec
CONSTANTS
  Versions = {1, 2}
  Targets <- SmallTargets
  Setters = {s1}
  MaxSets = 2
  MaxBoots = 2
  Hosts = {h1, h2}
  Types = {"x86", "rk3399"}
  Arch = "arm64"
  MaxBootstraps = 2
  None = None
  EventBuffer = 2
  MaxCards = 3
  MaxStarts = 3
  Services = {"NetworkManager", "systemd-resolved"}
  MaxSetups = 2
  Tasks = {t1, t2}
INVARIANT RestsUpdated
INVARIANT UpdatingIsReal
INVARIANT KeyOfHost
INVARIANT MountFollowsCard
INVARIANT DnsHolds
PROPERTY ServeEnds
CHECK_DEADLOCK FALSE
