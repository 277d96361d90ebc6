SPECIFICATION MCSpec
CONSTANTS
  MaxAccounts = 2
  MaxRetries = 1
  MaxLaunches = 1
  MaxChanges = 1
INVARIANTS UpdateGoesOn NotAbandoned
PROPERTIES KeptUnlessSkipped UpdateEnds
CHECK_DEADLOCK FALSE
