---------------------------- MODULE MCTableLocks ----------------------------
(* Instances of TableLocks: a table and its parent, and one without keys.          *)
EXTENDS TableLocks, TLC

CONSTANTS parent, child, plain, c1, c2, c3

FamilyTables == {parent, child, plain}
Family == (child :> {parent}) @@ (parent :> {}) @@ (plain :> {})
FamilyKeys == {parent, child}
SelfTable == {parent}
SelfFamily == parent :> {parent}

TwoClients == {c1, c2}
ThreeClients == {c1, c2, c3}

\* Statements on tables with keys that lock no table inside the catalog's
\* lock, and all of them on a table without keys.
OrderedWork ==
  { <<"insert", child>>, <<"update", child>>, <<"delete", parent>>,
    <<"select", parent>>, <<"createTable", parent>>, <<"dropTable", child>>,
    <<"insert", plain>>, <<"delete", plain>>, <<"createIndex", plain>>,
    <<"renameColumn", plain>>, <<"dropColumn", plain>> }

SelfWork == { <<"insert", parent>>, <<"delete", parent>> }

\* The ordered workload has ranks, five of them; the other has none.
ASSUME RanksAssumption ==
  (\E rank \in [Mutexes -> 0..4] : Ranked(rank)) <=> Workload = OrderedWork

ClientSymmetry == Permutations(Clients)
=============================================================================
