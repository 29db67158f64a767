SPECIFICATION Spec
CONSTANTS
  Node <- Four
  Master = 1
  Leaf <- Leaf3
  Hears <- KiteHears
  Cost <- OneCost
  MaxFaults = 0
  Inf = 8
  Step = 1
  Hyst = 25
  Invalid = none
INVARIANTS ParentHeardCloser ParentCloser NoLoop
PROPERTIES RankNeverIncreases
