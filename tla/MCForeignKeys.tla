---- MODULE MCForeignKeys ----
(* Small instances of ForeignKeys for TLC. *)
EXTENDS ForeignKeys, TLC

CONSTANTS c1, c2, c3, v1, v2, v3, p1, p2, p3, r1, r2

ThreeClients == {c1, c2, c3}
TwoValues == {v1, v2}
ThreeValues == {v1, v2, v3}
Parents == {p1, p2, p3}
Children == {r1, r2}

\* One client writes references and removes parents; the others meddle.
OneWriterWork ==
  c1 :> Kinds \ {"update parent"}
  @@ c2 :> {"insert parent", "delete child"}
  @@ c3 :> {"insert parent", "delete child"}

\* One client adds children, another removes parents; one sets keys.
RacingWork ==
  c1 :> {"insert child"} @@ c2 :> {"insert parent", "delete parent"} @@ c3 :> {}
RekeyingWork ==
  c1 :> Kinds @@ c2 :> {"update parent", "insert child"} @@ c3 :> {}

AllWorks == {OneWriterWork, RacingWork, RekeyingWork}

Symmetry == Permutations(Values) \cup Permutations(ParentRows) \cup Permutations(ChildRows)
====
