SPECIFICATION FairSpec
CONSTANTS
  Attempt = {a1, a2}
  NoAttempt = NoAttempt
  MaxWindow = 2
  MacStrikes = 1
  AttachLimit = 2
  QueueCap = 3
INVARIANTS PairedAgrees OneDevicePerToken ConsentNamesDevice WrongMacsBounded
PROPERTIES PairReturns
CHECK_DEADLOCK FALSE
