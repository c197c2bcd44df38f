SPECIFICATION AuthSpec
CONSTANTS
  Account = {a1, a2}
  Host = {h1}
  HostConn = {c1, c2, c3}
  Create = {q1, q2}
  NoAccount = NoAccount
  IdleReap = 2
  LastDay = 4
  Request = {r1, r2}
  Kid = {k1, k2}
  NoKid = NoKid
  CacheTTL = 2
  RefreshInterval = 2
  MaxClock = 3
INVARIANTS PairingsOfBoundAccount AttachedShareAccount SingleFlight FreshOrMisled
PROPERTIES UnknownKidThrottled RequestAnswered
CHECK_DEADLOCK FALSE
