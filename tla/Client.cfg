SPECIFICATION FairSpec
CONSTANTS
  a = a
  b = b
  Request = {a, b}
  Plans <- MCPlans
  MaxLosses = 2
  MaxDepth = 3
INVARIANTS DataKept AnswersFindRequests WaitersAreTold InterfaceKept
PROPERTY Ends
CHECK_DEADLOCK FALSE
