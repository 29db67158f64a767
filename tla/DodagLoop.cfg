SPECIFICATION Spec
CONSTANTS
  Node <- Three
  Master = 1
  Leaf <- NoLeaf
  Hears <- LineHears
  Cost <- OneCost
  MaxFaults = 1
  Inf = 10
  Step = 1
  Hyst = 25
  Invalid = none
INVARIANT NoLoop
