CONSTANTS
  kS = 5
  kLcgA = 5
  kLcgC = 3
  kLcgM = 4096
  DefaultSeeds <- Seeds5
  RowDigest <- NoRowDigest
  Sources <- Files5
  Environments <- Environments5
  Known <- Known5
  Lost <- Lost5
  Mistaken <- Mistaken5
  DILimit = 3
  MaxAttempts = 3
  RunnerS = 7
  BlockSizes <- Sizes5
  RandomFiles <- Random5
  UselessFile <- Useless5
  Cycles = 2
  NoFile = NoFile
  Foreign = Foreign
  Unset = Unset
  Unparseable = Unparseable
SPECIFICATION RunnersSpec
INVARIANT RestoredExact
CHECK_DEADLOCK FALSE
