---- MODULE MCSelectPipeline ----
(* Small instances of SelectPipeline for TLC. *)
EXTENDS SelectPipeline

\* "10", "1a", "9", "9.0" in the order of their printed forms; "<nil>" is
\* after them, numbers the engine computes after that.
Ten == [num |-> 10, text |-> 1]
Word == [num |-> NoNumber, text |-> 2]
Nine == [num |-> 9, text |-> 3]
NineFloat == [num |-> 9, text |-> 4]

AllCells == {Ten, Word, Nine, NineFloat}
KV == <<"k", "v">>
KW == <<"k", "w">>
Lefts == {Null, Ten, Word, Nine} \X {Nine, NineFloat}
Rights == {Null, Ten, Nine} \X {Nine}

Comparisons ==
  [at : {1}, op : {"=", "<>", "<", ">="}, val : {Nine}]
  \cup [at : {2}, op : {"="}, val : {Nine}]
ByKey ==
  {[on |-> <<1>>, fn |-> "COUNT", arg |-> 0], [on |-> <<1>>, fn |-> "SUM", arg |-> 2],
   [on |-> <<>>, fn |-> "MAX", arg |-> 1], [on |-> <<2, 1>>, fn |-> "MIN", arg |-> 1]}
Keys1 == <<[at |-> 1, desc |-> FALSE]>>
Keys1Down == <<[at |-> 1, desc |-> TRUE]>>
Keys21 == <<[at |-> 2, desc |-> FALSE], [at |-> 1, desc |-> TRUE]>>
Calls ==
  [fn : Ranking, arg : {0}, part : {<<>>, <<2>>}, keys : {Keys1, Keys1Down}]
  \cup {[fn |-> "COUNT", arg |-> 1, part |-> <<2>>, keys |-> <<>>],
        [fn |-> "SUM", arg |-> 2, part |-> <<>>, keys |-> Keys1],
        [fn |-> "MIN", arg |-> 2, part |-> <<1>>, keys |-> Keys21],
        [fn |-> "MAX", arg |-> 1, part |-> <<>>, keys |-> Keys1Down]}
Sorts == {<<>>, Keys1, Keys1Down, Keys21}
Lists == {<<1>>, <<2, 1>>}
====
