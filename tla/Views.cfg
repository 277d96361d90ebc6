SPECIFICATION FairSpec
CONSTANTS
  v1 = v1
  v2 = v2
  None = None
  View = {v1, v2}
  Threads = 2
  MaxDepth = 3
  MaxReloads = 2
INVARIANTS WaitersAreWoken ReadsLiveMap
PROPERTY Unwinds
CHECK_DEADLOCK FALSE
