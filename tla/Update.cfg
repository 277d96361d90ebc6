SPECIFICATION MCSpec
CONSTANTS
  c1 = c1
  c2 = c2
  k1 = k1
  k2 = k2
  k3 = k3
  None = None
  Contact = {c1, c2}
  Details = 2
  Value = {0, 1}
  Caller = {k1, k2, k3}
  Lists <- MCLists
  MaxTries = 1
  MaxForeign = 1
INVARIANTS CommandInv CallsAnswered UpToDate
PROPERTY CallsEnd
CHECK_DEADLOCK FALSE
