SPECIFICATION FairSessionSpec
CONSTANTS
  Connections = {c1, c2}
  MaxConns = 1
  Openings <- SomeOpenings
  Requests <- QuietRequests
  None = none
INVARIANTS
  SlotsAreExact
  InStep
  OneOutcomePerStatement
PROPERTIES
  EveryoneIsServed
