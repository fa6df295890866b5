SPECIFICATION RTSpec
CONSTANTS
  LeafLen = 16360
  NodeLen = 4
  LinkLen = 40
  CidLen = 36
  HeaderLen = 59
  MaxBuilds = 1
  Later = {}
  Unlimited = Unlimited
  NoSummary = NoSummary
  NoTree = NoTree
  BatchLimit = 1
  Trees <- MCTrees
  Stores <- MCStores
  NameOrder <- MCNameOrder
  Summaries <- SmallSummaries
CHECK_DEADLOCK FALSE
INVARIANTS
  RTTypeOK
  ReadsIfEntriesPresent
  BlocksSurvive
  LostOnlyToTwins
  StructureSurvives
  LoadsAllOrWholeBatches
  EqualBlocksIsPermutation
PROPERTIES
  ReadsEnd
