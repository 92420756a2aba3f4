CONSTANTS
  m1 = m1
  m2 = m2
  m3 = m3
  f = f
  g = g
  p = p
  x = x
  c1 = c1
  c2 = c2
  NIL = NIL
  Handle <- MCHandle
  Name <- MCName
  Hash <- MCHash
  Buckets = 2
  CFunc = {c1, c2}
  Images <- MCImages
  NativeLists <- MCNatives
SYMMETRY Handles
SPECIFICATION Spec
INVARIANTS
  TypeOK
  LinkedToDefinition
  UnlinkedReported
  DependsOnLinkedOnly
PROPERTIES
  LinksStable
