SPECIFICATION LockSpec
CONSTANTS
  parent = parent
  child = child
  plain = plain
  c1 = c1
  c2 = c2
  c3 = c3
  Catalog = catalog
  Store = store
  Nobody = nobody
  Tables <- SelfTable
  References <- SelfFamily
  Keyed <- SelfTable
  Workload <- SelfWork
  Clients <- TwoClients
INVARIANTS
  NoCircularWait
