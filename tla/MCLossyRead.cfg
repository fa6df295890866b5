SPECIFICATION RTSpec
CONSTANTS
  LeafLen = 100
  NodeLen = 4
  LinkLen = 40
  CidLen = 36
  HeaderLen = 59
  MaxBuilds = 1
  Later = {}
  Unlimited = Unlimited
  NoSummary = NoSummary
  NoTree = NoTree
  BatchLimit = 1
  Trees <- CopiesOnly
  Stores <- DefaultStore
  NameOrder <- MCNameOrder
  Summaries <- SmallSummaries
CHECK_DEADLOCK FALSE
INVARIANT
  RoundTripKeepsFiles
