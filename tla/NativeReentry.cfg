CONSTANTS
  app = app
  lib = lib
  main = main
  f = f
  g = g
  h = h
  plain = plain
  thrower = thrower
  invoker = invoker
  NIL = NIL
  Mod <- MCMod
  Vm = app
  Func <- MCFunc
  Native <- MCNative
  Table <- MCTable
  Programs <- ReentryPrograms
  Exports <- MCExports
  Throws = {thrower}
  Invokes = {invoker}
  OpCells = 6
  CallCells = 7
  MaxArgs = 1
  MaxCalls = 1
SPECIFICATION Spec
INVARIANTS
  FramesDisjoint
CHECK_DEADLOCK FALSE
