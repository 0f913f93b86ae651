---- MODULE MCTableRows ----
(* Small instances of TableRows for TLC. *)
EXTENDS TableRows

CONSTANTS c1, c2, k, x, y, v1, v2, i1

TwoClients == {c1, c2}
ThreeNames == {k, x, y}
TwoValues == {v1, v2}
OneIndex == {i1}

OnOneColumn == {Everywhere} \cup {<<[name |-> x, val |-> v]>> : v \in TwoValues}
OnTwoColumns == {<<[name |-> x, val |-> v], [name |-> y, val |-> v]>> : v \in TwoValues}

\* ALTER TABLE apart, the key left alone.
ApartWork == [kinds |-> Kinds, alone |-> TRUE, wheres |-> OnOneColumn,
              keys |-> {k}, named |-> {x}]

\* The key set and renamed like any other column.
KeyWork == [kinds |-> {"insert", "update", "add", "rename"}, alone |-> TRUE,
            wheres |-> OnTwoColumns, keys |-> {k}, named |-> {k, x}]

\* ALTER TABLE beside UPDATE.
BesideWork(wheres) ==
  [kinds |-> {"insert", "update", "create index", "drop column"}, alone |-> FALSE,
   wheres |-> wheres, keys |-> {}, named |-> {x}]

AllWorks == {ApartWork, KeyWork, BesideWork(OnOneColumn), BesideWork(OnTwoColumns)}

Symmetry == Permutations(Clients) \cup Permutations(TwoValues)
====
