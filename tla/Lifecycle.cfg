SPECIFICATION FairSpec
CONSTANTS
  MaxRetry = 3
  MaxDeaths = 3
INVARIANT SoundUnlessOverlapped
PROPERTIES ReloadRecovers ClientLearns ShutdownOfRunning
CHECK_DEADLOCK FALSE
