SPECIFICATION FairSpec
CONSTANTS
  Node <- Three
  Master = 1
  Leaf <- NoLeaf
  Hears <- LineHears
  Cost <- TwoCosts
  MaxFaults = 2
  Inf = 8
  Step = 1
  Hyst = 25
  Invalid = none
INVARIANTS TypeOK ParentHeardCloser
PROPERTY Converges
