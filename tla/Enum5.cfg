CONSTANTS
  kS = 5
  WordBits = 8
  DirtyRoom = 1000
  ltp1 <- LtpRows
  ltp2 <- LtpColumns
  Digest <- RowDigest
  Blocks <- BlocksAll
SPECIFICATION Spec
CHECK_DEADLOCK FALSE
INVARIANTS
  TypeOK
  PropagationSound
  StatsExact
  BacktrackingSound
  FoundUnlessLeaked
  CandidatesRight
  LexOrder
PROPERTIES
  Terminates
