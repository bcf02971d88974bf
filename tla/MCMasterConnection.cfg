SPECIFICATION FairSpec
CONSTANTS
  Masters = {m1, m2}
  Modes = {"openvpn", "wireguard"}
  nil = nil
INVARIANT OneMaster
PROPERTY OpenvpnMasterReached
PROPERTY CancelEndsSearch
CHECK_DEADLOCK FALSE
