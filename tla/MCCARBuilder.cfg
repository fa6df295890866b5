SPECIFICATION Spec
CONSTANTS
  LeafLen = 100
  NodeLen = 4
  LinkLen = 40
  CidLen = 36
  HeaderLen = 59
  MaxBuilds = 2
  Later <- MCLater
  Unlimited = Unlimited
  NoSummary = NoSummary
  Trees <- MCTrees
  Stores <- MCStores
CHECK_DEADLOCK FALSE
INVARIANTS
  TypeOK
  SizesMatchBlocks
  RootIsMerkleRoot
  ListsTheDAG
  EntriesRebuildBlocks
  CompleteCAR
  NoBlockLost
PROPERTIES
  CallsReturn
