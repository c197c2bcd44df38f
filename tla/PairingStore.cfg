SPECIFICATION FairSpec
CONSTANTS
  Host = {h1, h2}
  WindowId = {w1, w2}
  NoWindow = NoWindow
  Opener = {o1, o2}
  Closer = {x1}
  HostConn = {hc1}
  PairConn = {}
  WindowTTL = 1
  PairingAttachesPerWindow = 1
  MaxClock = 3
INVARIANTS TypeOK WindowIndexed
PROPERTIES NoEarlyExpiry WindowEventuallyGone
CHECK_DEADLOCK FALSE
