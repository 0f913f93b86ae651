SPECIFICATION LockSpec
CONSTANTS
  parent = parent
  child = child
  plain = plain
  c1 = c1
  c2 = c2
  c3 = c3
  Catalog = catalog
  Store = store
  Nobody = nobody
  Tables <- FamilyTables
  References <- Family
  Keyed <- FamilyKeys
  Workload <- OrderedWork
  Clients <- ThreeClients
SYMMETRY ClientSymmetry
INVARIANTS
  NoCircularWait
  LockedReadsAreStable
  LocksReturned
