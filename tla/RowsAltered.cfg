SPECIFICATION Spec
CONSTANTS
  c1 = c1
  c2 = c2
  k = k
  x = x
  y = y
  v1 = v1
  v2 = v2
  i1 = i1
  NoKey = nokey
  Everywhere = everywhere
  Clients <- TwoClients
  Names <- ThreeNames
  Values <- TwoValues
  Indexes <- OneIndex
  Works <- AllWorks
  MaxRows = 2
  MaxMade = 3
SYMMETRY Symmetry
CHECK_DEADLOCK FALSE
INVARIANTS
  IndexesCurrent
  LookupsAgree
  CellsInPlace
  KeysUnique
