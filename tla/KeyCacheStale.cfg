SPECIFICATION FairSpec
CONSTANTS
  Request = {r1, r2}
  Kid = {k1, k2}
  NoKid = NoKid
  CacheTTL = 2
  RefreshInterval = 2
  MaxClock = 3
INVARIANT FailsClosed
CHECK_DEADLOCK FALSE
