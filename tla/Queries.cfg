SPECIFICATION MCSpec
CONSTANTS
  c1 = c1
  c2 = c2
  n1 = n1
  Contact = {c1, c2}
  Number = {n1}
  Blank = Blank
  Key = {0, 1}
  Phones <- MCPhones
  Queried <- MCQueried
  MaxCounts = {0, 1, 2}
  MaxMeddling = 1
  Others = TRUE
INVARIANT QueriesTrue
