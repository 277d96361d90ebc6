SPECIFICATION FairSpec
CONSTANTS
  MaxRetry = 2
  MaxDeaths = 2
PROPERTY ShutdownCompletes
CHECK_DEADLOCK FALSE
