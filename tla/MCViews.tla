---- MODULE MCViews ----
(* Small instances of Views for TLC. *)
EXTENDS Views, TLC

CONSTANTS c1, c2, a, b, public, s1, unqualified

TwoClients == {c1, c2}
TwoNames == {a, b}
TwoSchemas == {public, s1}

From(name) == <<<<unqualified, name>>>>
FromIn(schema, name) == <<<<schema, name>>>>
Joined == <<<<public, a>>, <<public, b>>>>

Alone(kinds, selects) ==
  [does |-> c1 :> kinds @@ c2 :> {}, alone |-> TRUE, texts |-> selects,
   stray |-> {}, away |-> FALSE, torn |-> TRUE]

\* Everything but OR REPLACE and dropping a schema with what it holds.
CascadingWork ==
  Alone(Kinds \ {"replace view", "drop schema cascade"}, {From(a), FromIn(s1, b)})

\* OR REPLACE.
ReplacingWork ==
  Alone({"create table", "replace view", "drop view", "drop table cascade"},
        {From(a), FromIn(public, b)})

\* Nothing that removes or replaces what others depend on.
CarefulWork ==
  Alone({"create schema", "drop schema", "create table", "drop table",
         "create view", "drop view"},
        {From(a), FromIn(s1, b), Joined})

\* Schemas dropped with their tables; no views, no write cut off.
TablesWork ==
  [Alone({"create schema", "drop schema cascade", "create table", "drop table"}, {})
   EXCEPT !.torn = FALSE, !.stray = {"table"}]

\* Two sessions create tables, also in a new schema, and views at once.
GrowingWork ==
  [Alone({}, {From(a)})
   EXCEPT !.does = [c \in TwoClients |-> {"create table", "create view"}],
          !.alone = FALSE, !.stray = {"table"}]

AllWorks == {CascadingWork, ReplacingWork, CarefulWork, TablesWork, GrowingWork}
====
