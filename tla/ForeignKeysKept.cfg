SPECIFICATION Spec
CONSTANTS
  c1 = c1
  c2 = c2
  c3 = c3
  v1 = v1
  v2 = v2
  v3 = v3
  p1 = p1
  p2 = p2
  p3 = p3
  r1 = r1
  r2 = r2
  Null = null
  Free = free
  Nobody = nobody
  Clients <- ThreeClients
  Values <- ThreeValues
  ParentRows <- Parents
  ChildRows <- Children
  Forms <- AllForms
  Works <- AllWorks
SYMMETRY Symmetry
INVARIANTS
  NoOrphans
