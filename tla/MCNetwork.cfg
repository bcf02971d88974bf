SPECIFICATION NetworkSpec
CONSTANTS
  eth0 = eth0
  usb0 = usb0
  wlan0 = wlan0
  IFaces = {eth0, usb0, wlan0}
  s1 = s1
  s2 = s2
  Servers = {s1, s2}
  Addrs <- TwoAddrs
  Priority <- TwoIFaces
  Backup = wlan0
  nil = nil
  Conns = {c1, c2}
  Cap = 3
  AllowErrorCount = 1
  MaxRequires = 2
  NoConn = NoConn
INVARIANT OneConnection
PROPERTY LeavesForOwnFault
PROPERTY BrokenIsLeft
PROPERTY RoutesBeforeCurrent
PROPERTY IFaceSettles
CHECK_DEADLOCK FALSE
