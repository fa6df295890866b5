SPECIFICATION Spec
CONSTANTS
  p1 = p1
  p2 = p2
  Procs <- MCProcs
  Cids <- MCCids
  CidBytes <- MCCidBytes
  Digest <- MCDigest
  Data <- MCData
  Sections <- MCSections
  File <- MCFileV2
  Start <- MCStartV2
  LenBytes <- MCLenBytes
  DataOffset <- MCDataOffset
  Radix = 4
  MaxPrefix = 2
  MaxRead = 6
  Limit = 4
  KeysBuffer = 1
  MaxCalls = 3
CHECK_DEADLOCK FALSE
INVARIANTS
  ReloadsUnlessDisturbed
