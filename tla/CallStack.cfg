CONSTANTS
  main = main
  g = g
  p = p
  x = x
  l1 = l1
  l2 = l2
  NONE = NONE
  Name <- MCName
  Label = {l1, l2}
  Join <- Pair
  Sources <- MCSources
  UintMax = 65536
  Int64Half = 1000
  Printable <- Named
  Chars <- MCChars
  Rounds = 1
SPECIFICATION ToolSpec
INVARIANTS
  CallStackUnaccessible
