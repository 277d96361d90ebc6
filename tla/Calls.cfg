SPECIFICATION Spec
CONSTANTS
  p1 = p1
  p2 = p2
  s0 = s0
  s1 = s1
  s2 = s2
  Contacts = {p1, p2}
  Sources = {s0, s1, s2}
  Fresh = {s2}
  System = s0
  MaxCalls = 2
  MaxReloads = 1
  Requests <- MCRequests
INVARIANTS OneAnswer RemovalsReal SourceAnswersTrue
PROPERTY CallsEnd
CHECK_DEADLOCK FALSE
