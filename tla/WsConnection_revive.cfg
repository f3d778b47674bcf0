SPECIFICATION FairSpec
CONSTANTS
  MaxAttempts = 2
  MaxLosses = 3
  MaxFailures = 5
PROPERTY DeadStreamRevived
CHECK_DEADLOCK FALSE
