SPECIFICATION Spec
CONSTANTS
  c1 = c1
  c2 = c2
  t = t
  u = u
  p = p
  q = q
  j = j
  k = k
  x = x
  y = y
  z = z
  Scheduler = scheduler
  None = none
  MaxDepth = 2
  Clients <- TwoClients
  Tables <- TwoTables
  Ids <- AllIds
  Interval <- Intervals
  Works <- AllWorks
INVARIANTS DepthIsNesting RowsReachDisk
PROPERTIES DurableSpec StatementsEnd JobsRun
