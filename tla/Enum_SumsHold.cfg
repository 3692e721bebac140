CONSTANTS
  kS = 7
  WordBits = 9
  DirtyRoom = 6
  ltp1 <- LtpRows
  ltp2 <- LtpColumns
  Digest <- RowDigest
  Blocks <- Blocks7
SPECIFICATION Spec
CHECK_DEADLOCK FALSE
INVARIANT SumsHold
