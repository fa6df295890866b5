SPECIFICATION Spec
CONSTANTS
  c1 = c1
  c2 = c2
  c3 = c3
  c4 = c4
  c5 = c5
  NoNode = NoNode
  CIDs <- MCCIDs
  BlockLen <- MCBlockLen
  Limit = 5
  MaxUses = 7
CHECK_DEADLOCK FALSE
INVARIANTS
  TypeOK
  ListMatchesMap
  SizeIsBytesStored
  LimitOrOneBlock
PROPERTIES
  EvictsLeastRecentlyUsed
  PutFinishes
  RefinesLRUCache
