SPECIFICATION EdsSpec
CONSTANTS
  a1 = a1
  a2 = a2
  s1 = s1
  s2 = s2
  NoAccount = NoAccount
  Accounts = {a1, a2}
  Sources = {s1, s2}
INVARIANT OrphansGo
PROPERTIES OthersStay RemovedStaysOff
