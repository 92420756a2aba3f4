CONSTANTS
  Size = 18
  Requests = {1}
  MaxFree = 1
  MaxOps = 8
SPECIFICATION HeapSpec
INVARIANTS
  NoFault
