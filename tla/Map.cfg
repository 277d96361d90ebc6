SPECIFICATION Spec
CONSTANTS
  c1 = c1
  c2 = c2
  c3 = c3
  n1 = n1
  Contact = {c1, c2, c3}
  Key = {0, 1, 2}
  Number = {n1}
  Blank = Blank
  Phones <- MCPhones
INVARIANT MapAgrees
PROPERTY KeepsOrder
