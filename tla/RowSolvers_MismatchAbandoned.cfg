CONSTANTS
  kS = 7
  WordBits = 8
  DirtyRoom = 1000
  ltp1 <- LtpRows
  ltp2 <- LtpColumns
  Digest <- LinearDigest
  Blocks <- Blocks7
  SidecarFiles <- Sidecars7
  kBlockSize = 4
  kThreshold = 3
  kEnumerated = 1
  kRowCompletionThreshold = 3
  kReseed = 8
  Beliefs <- UniformBeliefs
  kCheckpointInterval = 1
  kStallThreshold = 2
  kRecoveryThreshold = 1
  kMaxK = 2
  Probed = {}
  DeepCells = {}
  kMaxDepth = 2
  kMaxFreeBits = 4
  kEquations = 2
  kRowsTried = 2
  kTooMany = 8
  kGoodEnough = 1
  kCascadeThreshold = 3
SPECIFICATION Spec
INVARIANTS
  MismatchAbandoned
