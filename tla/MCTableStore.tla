---- MODULE MCTableStore ----
(* Small instances of TableStore for TLC. *)
EXTENDS TableStore, TLC

CONSTANTS t1, t2, x, y, c1, c2

TwoTables == {t1, t2}
TwoColumns == {x, y}
TwoClients == {c1, c2}

\* Clients race with statements that neither drop nor re-apply; statements of
\* every kind run one at a time.
GrowingWork == [kinds |-> {"create", "write", "alter", "add"}, alone |-> FALSE, versions |-> 2]
SerialWork == [kinds |-> Kinds, alone |-> TRUE, versions |-> 1]

BothWorks == {GrowingWork, SerialWork}

Symmetry == Permutations(Clients) \cup Permutations(Tables)

\* A state without what no later step reads: the locals of a client between
\* two uses (each statement sets them again) and generations nobody holds.
LiveState ==
  LET Using(c) == pc[c] \in Saves \cup {"write"}
      Altering(c) == pc[c] \in {"retrieveAlter", "saveAlter", "columns"}
      Held(t, g) == \/ tbl[t] = g
                    \/ \E c \in Clients : Using(c) /\ at[c] = t /\ gen[c] = g
  IN <<work, tbl, last, key, pc, todo,
       [t \in Tables |-> [g \in Gens |-> IF Held(t, g) THEN heap[t][g] ELSE Blank]],
       [c \in Clients |->
          <<IF pc[c] = "idle" THEN None ELSE name[c],
            IF Using(c) THEN <<at[c], gen[c]>> ELSE <<>>,
            IF Altering(c) THEN col[c] ELSE <<>>,
            pc[c] = "write" /\ wrote[c]>>]>>
====
