SPECIFICATION Spec
CONSTANTS
  Cids <- MCCids
  Links <- MCLinks
  Digest <- MCDigest
  Height <- MCHeight
  MaxLevels = 2
  NoParent = NoParent
  MaxPuts = 6
CHECK_DEADLOCK FALSE
INVARIANTS
  TypeOK
  KeepsTheHighestLevels
  LevelsAgreeWithCohorts
  CountsAreNotTooLow
  LevelsAreHeights
