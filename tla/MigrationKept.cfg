SPECIFICATION Spec
CONSTANTS
  public = public
  x = x
  s = s
  a = a
  Public = public
  Schemas <- ThreeSchemas
  Names <- OneName
  PgDatabase = PgDatabase
  NoSchema = NoSchema
  Postgres = Postgres
  Legacy = Legacy
  None = None
  New = New
  MaxObjects = 2
  MaxStops = 2
  MaxSaved = 1
  Failing <- AnyStep
SYMMETRY OldSchemas
INVARIANT NothingLost MigratedLoads
PROPERTY MovesAreBackedUp
CHECK_DEADLOCK FALSE
