SPECIFICATION FairSpec
CONSTANTS
  Approval = {a1, a2}
  MaxSession = 2
  MaxRequest = 2
INVARIANTS GrantedByConsent
PROPERTIES FirstDecisionWins EveryApprovalDecided
CHECK_DEADLOCK FALSE
