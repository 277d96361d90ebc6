SPECIFICATION FairSpec
CONSTANTS
  c1 = c1
  c2 = c2
  sLocal = sLocal
  sRemote = sRemote
  Contact = {c1, c2}
  Source = {sLocal, sRemote}
  SourceOf <- MCSourceOf
INVARIANTS MirrorInv NewsInv NoLostUpdate SafeModeHides
PROPERTIES ImplementsFeed CatchesUp
