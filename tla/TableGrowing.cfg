SPECIFICATION Spec
CONSTANTS
  t1 = t1
  t2 = t2
  x = x
  y = y
  c1 = c1
  c2 = c2
  Tables <- TwoTables
  Columns <- TwoColumns
  Clients <- TwoClients
  Works <- BothWorks
  MaxGens = 2
SYMMETRY Symmetry
VIEW LiveState
INVARIANT DiskAgreesAtRest
PROPERTY SavedStaysSaved
