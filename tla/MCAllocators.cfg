CONSTANTS
  Size = 27
  Requests = {1, 6, 8}
  MaxFree = 1
  MaxOps = 7
  Base = {4}
  ObjSizes = {0, 1, 2, 3, 4}
  Lens = {0, 1, 2, 4}
  Word = 2
  Value = {0, 1, 3}
  Pointer = {0, 2, 3, 40}
  UintMax = 65536
  AddrMax = 256
  Places = {64, 72}
  Spans = {0, 8, 20, 40}
  Asks = {0, 1, 8, 13, 200, 249}
SPECIFICATION AllocatorsSpec
INVARIANTS
  HeapTypeOK
  Disjoint
  FreeNotHeld
  TypeOK
  FreeChain
  BlocksApart
  Accounted
PROPERTIES
  Completes
  ImplementsSlots
