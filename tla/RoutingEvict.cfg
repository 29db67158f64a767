SPECIFICATION Spec
CONSTANTS
  a = a
  b = b
  Self = self
  Invalid = none
  Addr <- MCAddr
  Leaf <- MCLeaf
  Inf = 8
  Step = 1
  Hyst = 25
  TimeW = 6
  Slots = 1
  Rank <- RootOrLost
  Cost <- OneCost
  EvQ = 1
  ParentTimeout = 1
  NeighborTimeout = 2
  Dwell = 1
  Suspect = 1
  FailThreshold = 2
  Roles <- MCRoles
  Boot <- MCBoot
  LastTime <- Never
INVARIANTS StateConsistent RankAboveParent 
