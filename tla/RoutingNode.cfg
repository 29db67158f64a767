SPECIFICATION Spec
CONSTANTS
  a = a
  b = b
  Self = self
  Invalid = none
  Addr <- MCAddr
  Leaf <- NoLeaf
  Inf = 8
  Step = 1
  Hyst = 25
  TimeW = 8
  Slots = 2
  Rank <- MCRank
  Cost <- MCCost
  EvQ = 1
  ParentTimeout = 0
  NeighborTimeout = 1
  Dwell = 1
  Suspect = 1
  FailThreshold = 1
  Roles <- NodeOnly
  Boot <- MCBoot
  LastTime = 2
INVARIANTS TypeOK StateConsistent OneEntryPerNeighbor 
 
SYMMETRY Symmetry
