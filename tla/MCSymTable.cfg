CONSTANTS
  k1 = k1
  k2 = k2
  k3 = k3
  k4 = k4
  k5 = k5
  Key <- MCKey
  Hash <- MCHash
  Tables <- MCTables
  Buckets = 2
  Searches = 1
SPECIFICATION FairSpec
INVARIANTS
  TypeOK
  ChainsComplete
  SearchFinds
PROPERTIES
  Terminates
