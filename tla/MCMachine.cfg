CONSTANTS
  app = app
  lib = lib
  main = main
  f = f
  g = g
  h = h
  plain = plain
  thrower = thrower
  invoker = invoker
  NIL = NIL
  Mod <- MCMod
  Vm = app
  Func <- MCFunc
  Native <- MCNative
  Table <- MCTable
  Programs <- MCPrograms
  Notes <- MCNotes
  Exports <- MCExports
  Throws = {thrower}
  Invokes = {invoker}
  OpCells = 7
  CallCells = 7
  MaxArgs = 1
  MaxCalls = 2
  BitsOfByte = 2
  CellBytes = 4
  Narrow = {1, 2}
  FloatNarrow = 2
  IntBytes = 2
  FloatsDefined = TRUE
  FloatOf <- MCFloatOf
  FloatHolds <- MCFloatHolds
  Registers = 3
  Contents <- MCContents
  VecLens = {0, 1, 2, 3}
  ElemLens = {0, 1, 2, 3, 4}
  MaxVector = 1
SPECIFICATION MSpec
INVARIANTS
  TypeOK
  Promised
  NeverBelowStack
  StacksInBounds
  ReturnsToCaller
  TablesMatch
  FramesDisjoint
  Balanced
  LaneWise
  Contained
PROPERTIES
  KeepsCallDiscipline
  HostCallReturns
