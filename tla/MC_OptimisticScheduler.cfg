CONSTANTS
  a1 = a1
  a2 = a2
  Accounts <- MCAccounts
  MaxCount = 3
  GapThreshold = 1
  MaxSize = 1
  Limit = 1
  Enabled = TRUE
SPECIFICATION Spec
INVARIANT TypeOK
PROPERTY CandidateEventuallyScheduled
PROPERTY StopReturns
CHECK_DEADLOCK FALSE
