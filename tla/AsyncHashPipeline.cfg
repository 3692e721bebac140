CONSTANTS
  maxPending = 2
  MaxCandidates = 3
SPECIFICATION FairSpec
CHECK_DEADLOCK FALSE
INVARIANTS
  TypeOK
  Protocol
  FifoFilter
  NoLostWakeups
PROPERTIES
  FilterSpec
  EveryCandidateChecked
  HeardShutdownEnds
