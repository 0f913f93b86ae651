SPECIFICATION Spec
CONSTANTS
  c1 = c1
  c2 = c2
  a = a
  b = b
  public = public
  s1 = s1
  unqualified = unqualified
  None = none
  Unqualified = unqualified
  Public = public
  Clients <- TwoClients
  Schemas <- TwoSchemas
  Names <- TwoNames
  Works <- AllWorks
INVARIANTS NoLoops
PROPERTIES DurableSpec ViewsStayReadable
