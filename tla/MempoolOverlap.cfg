CONSTANTS
  Size = 32
  Requests = {2, 6}
  MaxFree = 2
  MaxOps = 10
SPECIFICATION HeapSpec
INVARIANTS
  Disjoint
