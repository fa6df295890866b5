SPECIFICATION Spec
CONSTANTS
  p1 = p1
  p2 = p2
  Procs <- MCProcs
  Cids <- MCCids
  CidBytes <- MCCidBytes
  Digest <- MCDigest
  Data <- MCData
  Sections <- MCSections
  File <- MCCAR
  Start <- MCStart
  LenBytes <- MCLenBytes
  DataOffset = 0
  Radix = 4
  MaxPrefix = 2
  MaxRead = 6
  Limit = 4
  KeysBuffer = 1
  MaxCalls = 3
CHECK_DEADLOCK FALSE
INVARIANTS
  ReturnsItsBlock
