CONSTANTS
  k1 = k1
  k2 = k2
  k3 = k3
  k4 = k4
  d1 = d1
  d2 = d2
  NULL = NULL
  FREED = FREED
  Keys <- MCKeys
  Hash <- MCHash
  Data = {d1, d2}
  Pairs <- MCPairs
  Sizes = {1, 2}
  Limits = {0, 2}
SYMMETRY MCSymmetry
SPECIFICATION Spec
INVARIANTS TypeOK Linked NoLeaks
PROPERTIES WalkComplete RemovalIsSafe KeepsOrder
