CONSTANTS
  kS = 7
  Unit = 1
  CrcBits <- Bits
  Crc <- ToyCrc
  YltpLine <- ToyYltp
  MaxIter = 200
  MaxFree = 10
  MaxRounds = 100
  MaxDfsNodes = 6
  NumRestarts = 3
  MaxDecisions = 20
  GEInterval = 3
  Shuffle <- ToyShuffle
  Problems <- Hybrid7
  Files = {}
  Overlaps = {0, 1, 5}
  BlockCount = 3
  OverlapConfig <- HybridCascade
SPECIFICATION Spec
PROPERTY EliminationRight
