SPECIFICATION Spec
SYMMETRY Symmetry
CONSTANTS
  TTL = 1
  MaxFrames = 3
  MaxBytes = 3
  Writer = {w1, w2}
  Reader = {r1}
  BodyLen = {0, 3, 4}
  PageLimit = 2
  MaxClock = 2
  MaxSeq = 4
INVARIANTS CapsAndAccounting DrainComplete NoExpiredPage
PROPERTY NonDestructiveReads
CHECK_DEADLOCK FALSE
