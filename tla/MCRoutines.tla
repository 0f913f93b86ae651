---- MODULE MCRoutines ----
(* Small instances of Routines for TLC. *)
EXTENDS Routines, TLC

CONSTANTS c1, c2, t, u, p, q, j, k, x, y, z

TwoClients == {c1, c2}
TwoTables == {t, u}

P == <<"procedure", p>>
Q == <<"procedure", q>>
J == <<"job", j>>
K == <<"job", k>>
X == <<"trigger", x, t>>
Y == <<"trigger", y, t>>
Z == <<"trigger", z, u>>
AllIds == {P, Q, J, K, X, Y, Z}

Intervals == J :> 1 @@ K :> 2

Insert(on, rows) == [do |-> "insert", on |-> on, rows |-> rows, bare |-> TRUE]
InsertIn(on) == [do |-> "insert", on |-> on, rows |-> 1, bare |-> FALSE]
Call(proc) == [do |-> "call", on |-> proc, rows |-> 0, bare |-> TRUE]
Describing == [do |-> "describe", on |-> t, rows |-> 0, bare |-> TRUE]
Failing == [do |-> "fail", on |-> t, rows |-> 0, bare |-> TRUE]
Does(mark, body) == [mark |-> mark, body |-> body]

Nothing == [i \in AllIds |-> None]
Nobody == c1 :> {} @@ c2 :> {}

Idle == [start |-> Nothing, makes |-> Nobody, drops |-> Nobody, alters |-> Nobody,
         runs |-> Nobody, alone |-> TRUE, ticks |-> FALSE, restarts |-> TRUE]

Plain == {<<P, Does("", <<Failing>>)>>, <<J, Does("enabled", << >>)>>,
          <<X, Does("before", << >>)>>, <<Y, Does("before", <<Failing>>)>>}

\* The same names with bodies that cannot be saved.
Unsaved == {<<P, Does("", <<Describing, Failing>>)>>, <<J, Does("enabled", <<Describing>>)>>,
            <<X, Does("before", <<Describing>>)>>}

\* One statement at a time creates, alters, drops and calls.
SerialWork ==
  [Idle EXCEPT !.makes[c1] = Plain \cup Unsaved, !.drops[c1] = {P, J, X, Y},
               !.alters[c1] = {J}, !.runs[c1] = {Call(P)}]

\* Two sessions create routines, triggers of different timings, and alter a job.
GrowingWork ==
  [Idle EXCEPT !.makes = c1 :> Plain \ {<<Y, Does("before", <<Failing>>)>>}
                         @@ c2 :> {<<Y, Does("after", << >>)>>, <<Q, Does("", << >>)>>},
               !.alters = c1 :> {J} @@ c2 :> {J},
               !.alone = FALSE]

\* Triggers that set each other off, through a procedure and in a circle.
NestingWork ==
  [Idle EXCEPT
     !.start = [Nothing EXCEPT ![X] = Does("after", <<Insert(t, 1)>>),
                               ![Y] = Does("before", <<Call(P)>>),
                               ![Z] = Does("after", <<Call(Q)>>),
                               ![P] = Does("", <<Insert(u, 2)>>)],
     !.runs = c1 :> {Insert(t, 2), InsertIn(t)} @@ c2 :> {Call(P)},
     !.makes[c2] = {<<Q, Does("", <<InsertIn(u)>>)>>},
     !.drops[c2] = {Q}]

\* The scheduler, and a session that drops, creates and alters a job.
TickingWork ==
  [Idle EXCEPT
     !.start = [Nothing EXCEPT ![J] = Does("enabled", <<Insert(u, 1)>>),
                               ![K] = Does("enabled", <<Call(P)>>),
                               ![Z] = Does("after", <<Insert(u, 1)>>)],
     !.makes[c1] = {<<K, Does("enabled", <<Call(P)>>)>>,
                    <<P, Does("", <<Failing>>)>>},
     !.drops[c1] = {K},
     !.alters[c1] = {K},
     !.alone = FALSE, !.ticks = TRUE, !.restarts = FALSE]

AllWorks == {SerialWork, GrowingWork, NestingWork, TickingWork}
====
