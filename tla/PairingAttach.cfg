SPECIFICATION Spec
CONSTANTS
  Host = {h1}
  WindowId = {w1, w2}
  NoWindow = NoWindow
  Opener = {o1, o2}
  Closer = {x1}
  HostConn = {}
  PairConn = {p1, p2}
  WindowTTL = 1
  PairingAttachesPerWindow = 1
  MaxClock = 3
INVARIANTS PairSocketAccounting RoutedWhileWindowStood FloodGuard
SYMMETRY Symmetry
CHECK_DEADLOCK FALSE
