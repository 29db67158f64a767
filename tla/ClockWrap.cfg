SPECIFICATION Spec
CONSTANTS
  a = a
  b = b
  Self = self
  Invalid = none
  Addr <- MCAddr
  Leaf <- NoLeaf
  Inf = 8
  Step = 1
  Hyst = 25
  TimeW = 8
  Slots = 1
  Rank <- RootOrLost
  Cost <- OneCost
  EvQ = 3
  ParentTimeout = 1
  NeighborTimeout = 2
  Dwell = 1
  Suspect = 1
  FailThreshold = 1
  Roles <- MCRoles
  Boot <- MCBootLate
  LastTime <- Never
PROPERTY BeaconConnects
