CONSTANTS
  kS = 5
  WordBits = 8
  DirtyRoom = 1000
  ltp1 <- LtpRows
  ltp2 <- LtpColumns
  Digest <- RowDigest
  Blocks <- Blocks5
SPECIFICATION Spec
CHECK_DEADLOCK FALSE
INVARIANT
  OriginalEnumerated
