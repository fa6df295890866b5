SPECIFICATION Spec
CONSTANTS
  LeafLen = 100
  NodeLen = 4
  LinkLen = 40
  CidLen = 36
  HeaderLen = 59
  MaxBuilds = 1
  Later = {}
  Unlimited = Unlimited
  NoSummary = NoSummary
  Trees <- EmptyOnly
  Stores <- DefaultStore
CHECK_DEADLOCK FALSE
INVARIANTS
  NoDanglingLink
