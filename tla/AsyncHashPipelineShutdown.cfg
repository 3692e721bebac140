CONSTANTS
  maxPending = 1
  MaxCandidates = 1
SPECIFICATION FairSpec
CHECK_DEADLOCK FALSE
PROPERTY
  ShutdownDrains
