---- MODULE MCStatements ----
(* Texts for TLC. *)
EXTENDS Statements

Identifiers == {"a", "b", "c", "t", "u", "p", "INT", "DEFAULT", "SUM", "RANK"}
Sums == {"SUM"}
Ranks == {"RANK"}
Figures == {"1"}
Strings == {"'x'"}

SelectA == <<"SELECT", "a">>
DeleteT == <<"DELETE", "FROM", "t">>
SetA == <<"SET", "a", "=", "1">>
CallP == <<"CALL", "p", "(", ")">>

Bodies ==
  "$1$" :> <<"BEGIN">> \o DeleteT \o <<"END", ";">>
  @@ "$2$" :> <<"BEGIN">> \o CallP \o <<";">> \o SetA \o <<"END", ";">> \o DeleteT
  @@ "$3$" :> <<"BEGIN">> \o SelectA \o <<"?">> \o CallP \o <<"END">>

Family(head, pieces, most, tail) == [head |-> head, pieces |-> pieces, most |-> most, tail |-> tail]

Predicates ==
  Family(DeleteT \o <<"WHERE">>,
         {<<"a", "=", "1">>, <<"b", "=", "1">>, <<"AND">>, <<"OR">>, <<"(">>, <<")">>}, 5, << >>)

Procedure == <<"CREATE", "PROCEDURE", "p", "(", "a", "INT", ",", ")", "AS">>
Trigger == <<"CREATE", "TRIGGER", "p", "AFTER", "INSERT", "ON", "t", "BEGIN">>
CreateView == <<"CREATE", "VIEW", "u", "AS">>

Scripts ==
  Family(<< >>,
         {SelectA, DeleteT, SetA, CallP, <<";">>, <<"END">>, <<"?">>, <<"FROM", "t">>,
          Procedure \o <<"BEGIN">>, Procedure, <<"$1$">>, <<"$2$">>, <<"$3$">>, Trigger, CreateView},
         3, <<";">>)
Routines ==
  Family(Trigger,
         {SelectA, DeleteT, SetA, CallP, <<";">>, <<"END">>, <<"FROM", "t">>, Procedure \o <<"BEGIN">>,
          CreateView}, 4, <<"END">>)

\* Select lists, clauses and joins.
Lists ==
  Family(<<"SELECT">>,
         {<<"a">>, <<"b">>, <<"AS">>, <<",">>, <<"*">>, <<"(">>, <<")">>, <<"SUM", "(">>,
          <<"RANK", "(", ")", "OVER", "(", "ORDER", "BY", "a", ")">>, <<"::">>}, 4, <<"FROM", "t">>)
Clausal ==
  Family(SelectA \o <<"FROM", "t">>,
         {<<"WHERE", "a", "=", "1">>, <<"GROUP", "BY", "a">>,
          <<"HAVING", "COUNT", "(", "*", ")", ">", "1">>,
          <<"QUALIFY", "RANK", "(", ")", "OVER", "(", ")", "=", "1">>, <<"ORDER", "BY", "a", "DESC">>,
          <<"LIMIT", "1">>, <<"OFFSET", "1">>, <<",", "b">>, <<"AND", "b", "=", "1">>}, 4, << >>)
Joined ==
  Family(<<"SELECT", "*", "FROM", "t">>,
         {<<"NATURAL">>, <<"CROSS">>, <<"LEFT">>, <<"JOIN">>, <<"OUTER">>, <<"u">>, <<"AS", "c">>,
          <<"ON", "a", "=", "b">>, <<"USING", "(", "a", ")">>}, 4, << >>)

\* Definitions of tables and options of databases.
Defined ==
  Family(<<"CREATE", "TABLE", "t", "(", "a", "INT">>,
         {<<"(", "1", ",", "1", ")">>, <<"NOT", "NULL">>, <<"NULL">>, <<"PRIMARY", "KEY">>, <<"(", "a", ")">>,
          <<"FOREIGN", "KEY", "(", "a", ")">>, <<"UNIQUE">>, <<"REFERENCES", "u", "(", "b", ")">>, <<"DEFAULT">>, <<"1">>,
          <<",">>, <<"b", "INT">>}, 3, <<")">>)
Optional ==
  Family(<<"CREATE", "DATABASE", "p", "WITH">>,
         {<<"OWNER">>, <<"=">>, <<"a">>, <<"CONNECTION", "LIMIT">>, <<"1">>, <<"IS", "TEMPLATE">>, <<"TRUE">>,
          <<";">>, DeleteT}, 3, << >>)

\* One text or more of each kind of statement; all of them are accepted.
Kinds ==
  {<<"WITH", "u", "AS", "(">> \o SelectA \o <<"FROM", "t", ")">> \o SelectA \o <<"FROM", "u">>,
   <<"SELECT", "p", "(", ")">>, <<"SELECT", "DISTINCT", "a", "b", "FROM", "t">>,
   <<"INSERT", "INTO", "t", ".", "u", "(", "a", ",", "b", ")", "VALUES", "(", "1", ",", "'x'", ")">>,
   <<"INSERT", "INTO", "t", "VALUES", "(", "1", ")", ",", "(", "a", ")">>,
   <<"UPDATE", "t", "SET", "a", "=", "'x'", "WHERE", "b", "=", "1">>, DeleteT,
   <<"CALL", "p", "(", "1", ",", "'x'", ",", ")">>, <<"SET", "a", "TO", "b", ",", "c">>,
   <<"DESCRIBE", "t">>, <<"DESC", "t", ".", "u">>,
   <<"CREATE", "TABLE", "t", "(", "a", "INT", "PRIMARY", "KEY", ",", "UNIQUE", "(", "a", ")", ")">>,
   <<"CREATE", "OR", "REPLACE", "VIEW", "u", "(", "a", ")", "AS">> \o SelectA \o <<"FROM", "t">>,
   <<"CREATE", "VIEW", "IF", "NOT", "EXISTS", "u", "(", ")", "AS">> \o SelectA,
   <<"CREATE", "INDEX", "a", "ON", "t", "(", "a", ",", "b", ")">>, <<"CREATE", "SCHEMA", "a">>,
   <<"CREATE", "DATABASE", "p">>, Procedure \o <<"$1$">>, Trigger \o CallP \o <<"END">>,
   <<"CREATE", "TRIGGER", "p", "INSTEAD", "OF", "DELETE", "ON", "t", "FOR", "EACH", "ROW", "BEGIN", "END">>,
   <<"CREATE", "JOB", "p", "INTERVAL", "1", "UNIT", "DAY", "BEGIN">> \o DeleteT \o <<"END">>,
   <<"CREATE", "JOB", "p", "INTERVAL", "1", "UNIT", "a", "BEGIN", "END">>,
   <<"DROP", "TABLE", "IF", "EXISTS", "t", "CASCADE">>, <<"DROP", "VIEW", "u", ".", "t", "RESTRICT">>,
   <<"DROP", "SCHEMA", "a">>, <<"DROP", "DATABASE", "a">>, <<"DROP", "JOB", "p">>,
   <<"DROP", "PROCEDURE", "p", "(", ")">>, <<"DROP", "INDEX", "a", "ON", "t">>,
   <<"DROP", "TRIGGER", "p", "ON", "t">>, <<"ALTER", "TABLE", "t", "ADD", "COLUMN", "b", "INT">>,
   <<"ALTER", "TABLE", "t", "DROP", "COLUMN", "b">>,
   <<"ALTER", "TABLE", "t", "ALTER", "COLUMN", "b", "TYPE", "INT">>,
   <<"ALTER", "TABLE", "t", "RENAME", "COLUMN", "b", "TO", "c">>, <<"ALTER", "JOB", "p", "ENABLE">>}
Complete == Family(<< >>, {k \o <<";">> : k \in Kinds}, 2, << >>)

AllFamilies ==
  {Predicates, Scripts, Routines, Lists, Clausal, Joined, Defined, Optional, Complete}
====
