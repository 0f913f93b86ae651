------------------------ MODULE MCDatabaseLifecycle ------------------------
(* Instances of DatabaseLifecycle for TLC. *)
EXTENDS DatabaseLifecycle

CONSTANTS a, b, x, c1, c2

ThreeNames == {a, b, x}
NoDatabaseName == {x}
TwoClients == {c1, c2}

\* Two clients race for one database, and a write may fail; one client works
\* alone with two databases, or with one and a name that cannot be one.
RacingWork == [names |-> {a}, clients |-> {c1, c2}, catalogs |-> 3, faults |-> 1]
SerialWork == [names |-> {a, b}, clients |-> {c1}, catalogs |-> 5, faults |-> 0]

InvalidWork == [names |-> {a, x}, clients |-> {c1}, catalogs |-> 4, faults |-> 0]

AllWorks == {RacingWork, SerialWork, InvalidWork}
=============================================================================
