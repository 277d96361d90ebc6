SPECIFICATION MCSpec
CONSTANTS
  MaxLen = 4
  Inputs <- MCInputs
  Results <- MCResults
  PageSizes <- MCPageSizes
INVARIANTS EachInPlace ResultTells PagesAreWhole
PROPERTY SaveImplementsRequest
CHECK_DEADLOCK FALSE
