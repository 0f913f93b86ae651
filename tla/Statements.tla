------------------------------- MODULE Statements -------------------------------
(***************************************************************************)
(* The SQL parser and the loop that runs a script with it.  The parser is  *)
(* a recursive descent with one token of lookahead (two for calls): the    *)
(* first token decides, and what does not fit rejects the statement.  The  *)
(* handler parses a statement and executes it before it parses the next.   *)
(*                                                                         *)
(* A text is a sequence of tokens.  The grammar is given as data, one      *)
(* definition per parse function, and Match walks it.  A syntax tree is    *)
(* written flat, with brackets around the nodes, and holds what the AST    *)
(* keeps: names, literals and the words that set a field.                  *)
(***************************************************************************)
EXTENDS Integers, Sequences, FiniteSets, SequencesExt

CONSTANTS
  Names,       \* tokens that are identifiers
  Aggregates,  \* identifiers isAggregateFunc knows
  Rankings,    \* identifiers isRankingFunc knows
  Numbers,     \* tokens that are numbers
  Quotes,      \* tokens that are strings
  Dollars,     \* dollar-quoted token -> the text it quotes
  Stray,       \* a byte the lexer does not know: it reads it as the end
  Families     \* the texts: a head, the pieces that may follow it, how many, a tail

ASSUME TokensAssumption ==
  /\ Aggregates \cup Rankings \subseteq Names
  /\ Stray \notin Names \cup Numbers \cup Quotes \cup DOMAIN Dollars
  /\ \A f \in Families : f.most \in Nat

-----------------------------------------------------------------------------
(* Tokens.  A keyword's type is the keyword.                               *)

Type(s, i) ==
  IF i > Len(s) \/ s[i] = Stray THEN "EOF"
  ELSE IF s[i] \in Names THEN "IDENT"
  ELSE IF s[i] \in Numbers THEN "NUMBER"
  ELSE IF s[i] \in Quotes THEN "STRING"
  ELSE IF s[i] \in DOMAIN Dollars THEN "DOLLAR" ELSE s[i]

\* The token i is of the type t; DEFAULT and TO are told by their text.
Is(s, i, t) == Type(s, i) = t \/ (i <= Len(s) /\ s[i] = t)
OneOf(s, i, ts) == \E t \in ts : Is(s, i, t)

\* isFunctionCallStart
CallAt(s, i) ==
  Is(s, i + 1, "(") /\ (Is(s, i, "COUNT") \/ OneOf(s, i, Aggregates \cup Rankings))

\* What parsing gives: the next token, 0 if it was rejected; the tree; and
\* the clauses whose text matters, each with the tree made of it.
Fail == [at |-> 0, tree |-> << >>, texts |-> {}]
Empty(i) == [at |-> i, tree |-> << >>, texts |-> {}]
Leaf(i, tree) == [at |-> i, tree |-> tree, texts |-> {}]
Join(x, y) == IF y.at = 0 THEN Fail
              ELSE [at |-> y.at, tree |-> x.tree \o y.tree, texts |-> x.texts \cup y.texts]
Node(name, x) == IF x.at = 0 THEN Fail
                 ELSE [x EXCEPT !.tree = <<"[", name>> \o @ \o <<"]">>]
Then(x, Rest(_)) == IF x.at = 0 THEN Fail ELSE Join(x, Rest(x.at))

\* Mutant: the slice ends a token early.
SliceShort(s, i, x) == SubSeq(s, i, x.at - 2)

\* sliceFrom: the source from token i up to the current one.
Slice(s, i, x) == SubSeq(s, i, x.at - 1)

Keep(kind, s, i, x) ==
  IF x.at = 0 THEN Fail
  ELSE [x EXCEPT !.texts = @ \cup {[kind |-> kind, text |-> Slice(s, i, x), tree |-> x.tree]}]

-----------------------------------------------------------------------------
(* The pieces grammars are made of.                                        *)

K(t) == [k |-> "expect", t |-> t]            \* this token
W(t) == [k |-> "word", t |-> t]              \* this token, which sets a field
E(t) == [k |-> "emit", t |-> t]              \* no token; the field is set
V(t) == [k |-> "value", t |-> t]             \* a token of this type, which is kept
By(f) == [k |-> "by", f |-> f]               \* what the token decides
OptBy(f) == [k |-> "optional", f |-> f]      \* or nothing
Repeat(f) == [k |-> "repeat", f |-> f]       \* as long as the token decides
List(g) == [k |-> "list", g |-> g]           \* one or more, with commas
Args(g) == [k |-> "args", g |-> g]           \* none or more up to ")", a comma may end them
R(name) == [k |-> "rule", name |-> name]     \* a parse function
All(g) == [k |-> "all", g |-> g]             \* one after the other
Opt(t, g) == OptBy(t :> g)

Ident == V("IDENT")
Literal == By([t \in {"STRING", "NUMBER", "IDENT"} |-> <<V(t)>>])
Qualified == R("qualified")
Where == Opt("WHERE", <<K("WHERE"), R("where")>>)
IfExists == Opt("IF", <<W("IF"), K("EXISTS")>>)
IfNotExists == Opt("IF", <<W("IF"), K("NOT"), K("EXISTS")>>)
Behavior == OptBy([t \in {"CASCADE", "RESTRICT"} |-> <<W(t)>>])
Columns == <<K("("), List(<<Ident>>), K(")")>>

-----------------------------------------------------------------------------
(* The grammar: the parse functions that read their tokens in order.       *)

QualifiedIdent == <<Ident, Opt(".", <<W("."), Opt("IDENT", <<Ident>>)>>)>>

Row == <<K("("), List(<<Literal>>), K(")")>>
Insert ==
  <<K("INSERT"), K("INTO"), Qualified, Opt("(", Columns), K("VALUES"), List(<<R("row")>>)>>
Update == <<K("UPDATE"), Qualified, K("SET"), Ident, K("="), Literal, Where>>
Delete == <<K("DELETE"), K("FROM"), Qualified, Where>>
Call == <<K("CALL"), Ident, K("("), Args(<<Literal>>), K(")")>>
Set == <<K("SET"), Ident, By([t \in {"=", "TO"} |-> <<K(t)>>]), R("values")>>
Describe == <<By([t \in {"DESCRIBE", "DESC"} |-> <<K(t)>>]), Qualified>>

References == <<K("REFERENCES"), Ident, K("("), Ident, K(")")>>
Constraint ==
  <<By("PRIMARY" :> <<W("PRIMARY"), K("KEY"), K("("), Ident, K(")")>>
       @@ "FOREIGN" :> <<W("FOREIGN"), K("KEY"), K("("), Ident, K(")")>> \o References
       @@ "UNIQUE" :> <<W("UNIQUE"), K("("), Ident, K(")")>>)>>
DefaultValue ==
  <<OptBy([t \in {"STRING", "NUMBER"} |-> <<V(t)>>] @@ [t \in {"TRUE", "FALSE", "NULL"} |-> <<W(t)>>]
          @@ "IDENT" :> <<Ident, Opt("(", <<K("("), Opt(")", <<K(")")>>)>>)>>)>>
ColumnDef ==
  <<Ident, Ident, Opt("(", <<K("("), R("length")>>),
    Repeat([t \in {"IDENTITY", "UNIQUE"} |-> <<W(t)>>]
           @@ "NOT" :> <<W("NOT"), K("NULL")>> @@ "NULL" :> <<K("NULL")>>
           @@ "PRIMARY" :> <<W("PRIMARY"), K("KEY")>>
           @@ "REFERENCES" :> References
           @@ "DEFAULT" :> <<W("DEFAULT"), R("default")>>)>>
CreateTable ==
  <<K("TABLE"), Qualified, K("("),
    List(<<By([t \in {"PRIMARY", "FOREIGN", "UNIQUE"} |-> <<R("constraint")>>]
              @@ "IDENT" :> <<R("column")>>)>>),
    K(")")>>

View == <<Qualified, Opt("(", <<K("("), Opt("IDENT", <<List(<<Ident>>)>>), K(")")>>),
          K("AS"), R("query")>>
CreateIndex == <<K("INDEX"), Ident, K("ON"), Qualified>> \o Columns
CreateSchema == <<K("SCHEMA"), IfNotExists, Ident>>
CreateDatabase == <<K("DATABASE"), Ident, Opt("WITH", <<K("WITH"), R("options")>>)>>
CreateProcedure ==
  <<K("PROCEDURE"), Ident, K("("), Args(<<Ident, Ident>>), K(")"), K("AS"),
    By("DOLLAR" :> <<R("dollar")>> @@ "BEGIN" :> <<R("block")>>)>>
CreateTrigger ==
  <<K("TRIGGER"), Ident,
    By([t \in {"BEFORE", "AFTER"} |-> <<W(t)>>] @@ "INSTEAD" :> <<W("INSTEAD"), K("OF")>>),
    By([t \in {"INSERT", "UPDATE", "DELETE"} |-> <<W(t)>>]), K("ON"), Ident,
    Opt("FOR", <<K("FOR"), K("EACH"), K("ROW")>>), R("block")>>
CreateJob ==
  <<K("JOB"), Ident, K("INTERVAL"), V("NUMBER"), K("UNIT"),
    By([t \in {"MINUTE", "HOUR", "DAY"} |-> <<W(t)>>] @@ "IDENT" :> <<Ident>>), R("block")>>
Create ==
  <<K("CREATE"),
    By("OR" :> <<W("OR"), K("REPLACE"), K("VIEW"), R("view")>>
       @@ "VIEW" :> <<K("VIEW"), IfNotExists, R("view")>>
       @@ "TABLE" :> <<R("table")>> @@ "INDEX" :> <<R("index")>> @@ "SCHEMA" :> <<R("schema")>>
       @@ "DATABASE" :> <<R("database")>> @@ "PROCEDURE" :> <<R("procedure")>>
       @@ "TRIGGER" :> <<R("trigger")>> @@ "JOB" :> <<R("job")>>)>>

Drop ==
  <<K("DROP"),
    By([t \in {"TABLE", "VIEW"} |-> <<W(t), IfExists, Qualified, Behavior>>]
       @@ "SCHEMA" :> <<W("SCHEMA"), IfExists, Ident, Behavior>>
       @@ [t \in {"DATABASE", "JOB"} |-> <<W(t), Ident>>]
       @@ "PROCEDURE" :> <<W("PROCEDURE"), Ident, Opt("(", <<K("("), K(")")>>)>>
       @@ "INDEX" :> <<W("INDEX"), Ident, K("ON"), Qualified>>
       @@ "TRIGGER" :> <<W("TRIGGER"), Ident, K("ON"), Ident>>)>>

AlterTableAction ==
  By("ADD" :> <<W("ADD"), K("COLUMN"), R("column")>>
     @@ "DROP" :> <<W("DROP"), K("COLUMN"), Ident>>
     @@ "ALTER" :> <<W("ALTER"), K("COLUMN"), Ident, K("TYPE"), Ident>>
     @@ "RENAME" :> <<W("RENAME"), K("COLUMN"), Ident, Opt("TO", <<K("TO")>>), Ident>>)
Alter ==
  <<K("ALTER"),
    By("TABLE" :> <<W("TABLE"), Qualified, AlterTableAction>>
       @@ "JOB" :> <<W("JOB"), Ident, By([t \in {"ENABLE", "DISABLE"} |-> <<W(t)>>])>>)>>

\* FROM: a table, its alias, and the joins.  JOIN and OUTER may be left out.
TableRef == <<Ident, OptBy("AS" :> <<K("AS"), Ident>> @@ "IDENT" :> <<Ident>>)>>
JoinWord == Opt("JOIN", <<K("JOIN")>>)
JoinTypes ==
  [t \in {"LEFT", "RIGHT", "FULL"} |-> <<W(t), Opt("OUTER", <<K("OUTER")>>), JoinWord>>]
  @@ "INNER" :> <<W("INNER"), JoinWord>> @@ "JOIN" :> <<K("JOIN"), E("INNER"), JoinWord>>
JoinCondition ==
  By("USING" :> <<W("USING")>> \o Columns @@ "ON" :> <<K("ON"), Ident, K("="), Ident>>)
SingleJoin ==
  <<By([t \in DOMAIN JoinTypes |-> JoinTypes[t] \o <<R("ref"), JoinCondition>>]
       @@ "NATURAL" :> <<W("NATURAL"), OptBy(JoinTypes), R("ref")>>
       @@ "CROSS" :> <<W("CROSS"), JoinWord, R("ref")>>)>>
FromAndJoin ==
  <<K("FROM"), R("ref"),
    Repeat([t \in {"NATURAL", "CROSS"} \cup DOMAIN JoinTypes |-> <<R("join")>>])>>

OrderBy ==
  Opt("ORDER", <<W("ORDER"), K("BY"),
                 List(<<R("columnRef"), OptBy("ASC" :> <<K("ASC")>> @@ "DESC" :> <<W("DESC")>>)>>)>>)
Clauses ==
  FromAndJoin \o
  <<Where, Opt("GROUP", <<W("GROUP"), K("BY"), List(<<R("columnRef")>>)>>),
    Opt("HAVING", <<W("HAVING"), R("having")>>), Opt("QUALIFY", <<W("QUALIFY"), R("qualify")>>),
    OrderBy, Opt("LIMIT", <<W("LIMIT"), V("NUMBER")>>), Opt("OFFSET", <<W("OFFSET"), V("NUMBER")>>)>>
Over ==
  <<K("OVER"), K("("),
    Opt("PARTITION", <<W("PARTITION"), K("BY"), List(<<R("columnRef")>>)>>), OrderBy, K(")")>>
With == Opt("WITH", <<K("WITH"), List(<<Ident, K("AS"), K("("), R("query"), K(")")>>)>>)

Rules ==
  [qualified |-> QualifiedIdent, row |-> Row, constraint |-> Constraint, default |-> DefaultValue,
   column |-> ColumnDef, table |-> CreateTable, view |-> View, index |-> CreateIndex,
   schema |-> CreateSchema, database |-> CreateDatabase, procedure |-> CreateProcedure,
   trigger |-> CreateTrigger, job |-> CreateJob, ref |-> TableRef, join |-> SingleJoin,
   INSERT |-> Insert, UPDATE |-> Update, DELETE |-> Delete, CALL |-> Call, SET |-> Set,
   DESCRIBE |-> Describe, CREATE |-> Create, DROP |-> Drop, ALTER |-> Alter]

-----------------------------------------------------------------------------
(* The parser.                                                             *)

RECURSIVE Match(_, _, _)
MatchAll(g, s, i) == Match(All(g), s, i)
Statement(s, i) == Match(R("statement"), s, i)
Statements(s, i) == Match(R("statements"), s, i)

\* SET: the values up to the end, without the commas.
RECURSIVE Values(_, _)
Values(s, i) ==
  IF OneOf(s, i, {";", "EOF"}) THEN Empty(i)
  ELSE Join(Leaf(i + 1, IF s[i] = "," THEN << >> ELSE <<s[i]>>), Values(s, i + 1))

\* VARCHAR(10, 2): what the parentheses hold is left out.
RECURSIVE Length(_, _, _)
Length(s, i, open) ==
  IF open = 0 \/ Is(s, i, "EOF") THEN Empty(i)
  ELSE Length(s, i + 1, IF s[i] = "(" THEN open + 1 ELSE IF s[i] = ")" THEN open - 1 ELSE open)

\* CREATE DATABASE: the options up to the end.  A value is skipped whatever it is.
Past(s, i) == IF i > Len(s) THEN i ELSE i + 1
PastIf(s, i, t) == IF Is(s, i, t) THEN i + 1 ELSE i
RECURSIVE Options(_, _)
Options(s, i) ==
  CASE OneOf(s, i, {";", "EOF"}) -> Empty(i)
    [] OneOf(s, i, {"OWNER", "ENCODING"}) -> Options(s, Past(s, PastIf(s, i + 1, "=")))
    [] Is(s, i, "CONNECTION") ->
         Options(s, Past(s, PastIf(s, PastIf(s, i + 1, "LIMIT"), "=")))
    [] Is(s, i, "IS") ->
         LET j == PastIf(s, PastIf(s, i + 1, "TEMPLATE"), "=")
         IN Options(s, IF OneOf(s, j, {"TRUE", "FALSE", "IDENT"}) THEN j + 1 ELSE j)
    [] OTHER -> Options(s, i + 1)

-----------------------------------------------------------------------------
(* Calls of functions and predicates.                                      *)

IsWindow(x) == x.at # 0 /\ x.tree[2] = "window"
NoWindow(x) == IF IsWindow(x) THEN Fail ELSE x

\* FUNC(argument), and OVER (...) for a window function.
RECURSIVE WindowCall(_, _)
WindowCall(s, i) ==
  LET argument ==
        CASE Is(s, i + 2, "*") -> Leaf(i + 3, <<"*">>)
          [] Is(s, i + 2, ")") -> Empty(i + 2)
          [] CallAt(s, i + 2) -> NoWindow(WindowCall(s, i + 2))
          [] OTHER -> Match(Ident, s, i + 2)
      call == Join(Leaf(i, <<s[i]>>), Then(argument, LAMBDA j : Match(K(")"), s, j)))
      ranking == s[i] \in Rankings
  IN CASE call.at = 0 \/ (ranking /\ argument.tree # << >>) -> Fail
       [] Is(s, call.at, "OVER") ->
            Node("window", Then(call, LAMBDA j : MatchAll(Over, s, j)))
       [] OTHER -> IF ranking THEN Fail ELSE Node("aggregate", call)

ColumnRef(s, i) == IF CallAt(s, i) THEN NoWindow(WindowCall(s, i)) ELSE Match(Ident, s, i)

\* One comparison, or a predicate in parentheses.  A call may stand on the
\* left in HAVING and QUALIFY, of a window only in QUALIFY.
RECURSIVE Or(_, _, _)
Predicate(clause, s, i) ==
  IF Is(s, i, "(")
  THEN Then(Or(clause, s, i + 1), LAMBDA j : Match(K(")"), s, j))
  ELSE LET left == CASE clause # "where" /\ CallAt(s, i) ->
                          IF clause = "qualify" THEN WindowCall(s, i) ELSE NoWindow(WindowCall(s, i))
                     [] OTHER -> Match(Ident, s, i)
           operator == By([t \in {"=", "<>", "<", ">", "<=", ">="} |-> <<W(t)>>])
       IN Node("compare", Then(left, LAMBDA j : MatchAll(<<operator, Literal>>, s, j)))

Chain(word, x, y) == Node(word, Join(x, y))
RECURSIVE AndFrom(_, _, _), OrFrom(_, _, _)
AndFrom(clause, s, x) ==
  IF x.at = 0 \/ ~Is(s, x.at, "AND") THEN x
  ELSE AndFrom(clause, s, Chain("AND", x, Predicate(clause, s, x.at + 1)))
And(clause, s, i) == AndFrom(clause, s, Predicate(clause, s, i))
OrFrom(clause, s, x) ==
  IF x.at = 0 \/ ~Is(s, x.at, "OR") THEN x
  ELSE OrFrom(clause, s, Chain("OR", x, And(clause, s, x.at + 1)))
\* Mutant: OR binds as tightly as AND.
RECURSIVE FlatFrom(_, _, _)
FlatFrom(clause, s, x) ==
  IF x.at = 0 \/ ~OneOf(s, x.at, {"AND", "OR"}) THEN x
  ELSE FlatFrom(clause, s, Chain(s[x.at], x, Predicate(clause, s, x.at + 1)))
OrFlat(clause, s, i) == FlatFrom(clause, s, Predicate(clause, s, i))

Or(clause, s, i) == OrFrom(clause, s, And(clause, s, i))

-----------------------------------------------------------------------------
(* SELECT.                                                                 *)

\* What parseSelectItem knows of the item it is in.
NoItem == [depth |-> 0, name |-> << >>, alias |-> << >>, window |-> << >>, expect |-> FALSE,
           expr |-> FALSE, column |-> FALSE, complex |-> FALSE]

\* appendItem: a window that is part of an expression is lost, and an item
\* that is no column may be missing.
ItemTree(it) ==
  LET name == IF it.column THEN it.name ELSE << >>
      expr == it.expr \/ (it.alias = << >> /\ name = << >>)
  IN IF it.window # << >> /\ ~it.complex
     THEN <<"[", "item">> \o it.window \o it.alias \o <<"]">>
     ELSE <<"[", "item">> \o name \o <<"as">> \o it.alias
            \o (IF expr /\ ~(it.column /\ ~it.complex) THEN <<"missing">> ELSE << >>) \o <<"]">>

\* The select list ends at FROM, at a semicolon or at the end of the text.
\* Everything else belongs to it, END and closing parentheses too.
RECURSIVE Items(_, _, _)
Items(s, i, it) ==
  LET go(j, next) == Items(s, j, next)
      complex == [it EXCEPT !.expr = TRUE, !.complex = TRUE]
      called == WindowCall(s, i)
  IN CASE OneOf(s, i, {"EOF", ";"}) \/ (Is(s, i, "FROM") /\ it.depth = 0) -> Leaf(i, ItemTree(it))
       [] Is(s, i, ",") /\ it.depth = 0 -> Join(Leaf(i, ItemTree(it)), go(i + 1, NoItem))
       [] Is(s, i, ",") /\ it.depth > 0 -> go(i + 1, it)
       [] Is(s, i, "::") -> go(PastIf(s, i + 1, "IDENT"), complex)
       [] Is(s, i, "(") -> go(i + 1, [complex EXCEPT !.depth = @ + 1])
       [] Is(s, i, ")") -> go(i + 1, [it EXCEPT !.depth = IF @ > 0 THEN @ - 1 ELSE @, !.complex = TRUE])
       [] Is(s, i, "AS") -> go(i + 1, [it EXCEPT !.expect = @ \/ it.depth = 0])
       [] OneOf(s, i, {"IDENT", "COUNT"}) ->
            CASE it.expect ->
                   go(i + 1, [it EXCEPT !.alias = <<s[i]>>, !.expect = FALSE, !.expr = TRUE])
              [] ~it.expect /\ it.depth = 0 /\ (it.expr \/ it.column)
                   /\ OneOf(s, i + 1, {",", "FROM", ";", "EOF"}) ->
                   go(i + 1, [it EXCEPT !.alias = <<s[i]>>, !.expr = TRUE])
              [] OTHER ->
                   IF CallAt(s, i)
                   THEN IF called.at = 0 THEN Fail
                        ELSE IF IsWindow(called)
                             THEN go(called.at, [it EXCEPT !.window = called.tree, !.expr = TRUE])
                             ELSE go(called.at, [it EXCEPT !.name = called.tree, !.expr = TRUE,
                                                           !.column = TRUE])
                   ELSE go(i + 1, [it EXCEPT !.name = <<s[i]>>,
                                             !.expr = @ \/ Is(s, i + 1, "("),
                                             !.column = @ \/ ~Is(s, i + 1, "(")])
       [] OTHER -> go(i + 1, complex)

\* SELECT version() is a statement of its own and forgets its WITH.
SelectList(s, i) ==
  IF Is(s, i, "*") THEN Leaf(i + 1, <<"*">>) ELSE Items(s, i, NoItem)
SelectFrom(s, i) ==
  LET list == Then(Match(Opt("DISTINCT", <<W("DISTINCT")>>), s, i), LAMBDA j : SelectList(s, j))
  IN Then(list, LAMBDA j : IF Is(s, j, "FROM") THEN MatchAll(Clauses, s, j) ELSE Empty(j))
Select(s, i) ==
  LET with == Then(Match(With, s, i), LAMBDA j : Match(K("SELECT"), s, j))
      function == Is(s, with.at, "IDENT") /\ Is(s, with.at + 1, "(") /\ ~CallAt(s, with.at)
  IN IF with.at # 0 /\ function
     THEN Node("function", MatchAll(<<Ident, K("("), K(")")>>, s, with.at))
     ELSE Node("select", Then(with, LAMBDA j : SelectFrom(s, j)))

\* The query of a view or a CTE.
Query(s, i) ==
  LET x == IF Is(s, i, "SELECT") THEN Match(R("select"), s, i) ELSE Fail
  IN IF x.at # 0 /\ x.tree[2] = "function" THEN Fail ELSE Keep("query", s, i, x)

-----------------------------------------------------------------------------
(* Bodies and statements.                                                  *)

\* BEGIN ... END, whose text is stored.
Block(s, i) ==
  IF ~Is(s, i, "BEGIN") THEN Fail
  ELSE Then(Keep("body", s, i + 1, Statements(s, i + 1)), LAMBDA j : Match(K("END"), s, j))

\* AS $$ BEGIN ... $$: END may be missing, and what follows it is left out.
DollarBlock(s, i) ==
  LET inner == Dollars[s[i]]
      x == IF Is(inner, 1, "BEGIN") THEN Keep("body", inner, 2, Statements(inner, 2)) ELSE Fail
  IN IF x.at = 0 THEN Fail ELSE [x EXCEPT !.at = i + 1]

StatementsAt(s, i) ==
  IF OneOf(s, i, {"END", "EOF"}) THEN Empty(i)
  ELSE Then(Statement(s, i), LAMBDA j : Statements(s, j))

\* Mutant: an END on its own is left where it is.
NoopBeforeEnd(s, i) == Empty(IF Is(s, i, "END") THEN i ELSE i + 1)

\* ParseStatement.  Semicolons, END and dollar-quoted texts are no statements.
Noop(s, i) == Empty(i + 1)

StatementAt(s, i) ==
  CASE OneOf(s, i, {"WITH", "SELECT"}) -> Match(R("select"), s, i)
    [] OneOf(s, i, {";", "END", "DOLLAR"}) -> Noop(s, i)
    [] Is(s, i, "DESC") -> Match(R("DESCRIBE"), s, i)
    [] OneOf(s, i, {"INSERT", "UPDATE", "DELETE", "CALL", "SET", "DESCRIBE", "CREATE", "DROP", "ALTER"}) ->
         Match(R(s[i]), s, i)
    [] OTHER -> Fail

RuleAt(name, s, i) ==
  CASE name \in DOMAIN Rules -> Node(name, MatchAll(Rules[name], s, i))
    [] name \in {"where", "having", "qualify"} ->
         LET x == Or(name, s, i) IN IF name = "where" THEN Keep("where", s, i, x) ELSE x
    [] name = "statement" -> StatementAt(s, i)
    [] name = "statements" -> StatementsAt(s, i)
    [] name = "select" -> Select(s, i)
    [] name = "columnRef" -> ColumnRef(s, i)
    [] name = "query" -> Query(s, i)
    [] name = "block" -> Block(s, i)
    [] name = "dollar" -> DollarBlock(s, i)
    [] name = "values" -> Values(s, i)
    [] name = "length" -> Length(s, i, 1)
    [] name = "options" -> Options(s, i)

Match(n, s, i) ==
  LET decided == {t \in DOMAIN n.f : Is(s, i, t)}
  IN CASE n.k = "expect" -> IF Is(s, i, n.t) THEN Empty(i + 1) ELSE Fail
       [] n.k = "word" -> IF Is(s, i, n.t) THEN Leaf(i + 1, <<n.t>>) ELSE Fail
       [] n.k = "emit" -> Leaf(i, <<n.t>>)
       [] n.k = "value" -> IF Is(s, i, n.t) THEN Leaf(i + 1, <<s[i]>>) ELSE Fail
       [] n.k = "rule" -> RuleAt(n.name, s, i)
       [] n.k \in {"by", "optional", "repeat"} ->
            IF decided = {} THEN IF n.k = "by" THEN Fail ELSE Empty(i)
            ELSE LET x == MatchAll(n.f[CHOOSE t \in decided : TRUE], s, i)
                 IN IF n.k = "repeat" THEN Then(x, LAMBDA j : Match(n, s, j)) ELSE x
       [] n.k = "list" ->
            Then(MatchAll(n.g, s, i),
                 LAMBDA j : IF Is(s, j, ",") THEN Match(n, s, j + 1) ELSE Empty(j))
       [] n.k = "args" ->
            IF OneOf(s, i, {")", "EOF"}) THEN Empty(i)
            ELSE Then(MatchAll(n.g, s, i),
                      LAMBDA j : IF Is(s, j, ",") THEN Match(n, s, j + 1) ELSE Empty(j))
       [] n.k = "all" ->
            IF n.g = << >> THEN Empty(i)
            ELSE Then(Match(Head(n.g), s, i), LAMBDA j : MatchAll(Tail(n.g), s, j))

-----------------------------------------------------------------------------
(* The handler.                                                            *)

VARIABLES
  src,     \* the text
  at,      \* the parser's current token
  done,    \* the statements that were executed: where each stands, its tree and texts
  outcome  \* "running", or how the text ended

vars == <<src, at, done, outcome>>

Outcomes == {"running", "ended", "rejected", "failed"}

\* Texts of a family: its head, pieces of it, its tail.
Init ==
  /\ \E f \in Families : \E n \in 0..f.most : \E pieces \in [1..n -> f.pieces] :
       src = f.head \o FlattenSeq(pieces) \o f.tail
  /\ at = 1 /\ done = << >> /\ outcome = "running"

AtEOF == Is(src, at, "EOF")

\* Mutant: the end is taken from the token after the current one.
ExecuteNextPos(x) ==
  /\ x.at # 0 /\ x.tree # << >>
  /\ done' = Append(done, [from |-> at, to |-> x.at + 1, tree |-> x.tree, texts |-> x.texts])
  /\ at' = x.at
  /\ UNCHANGED <<src, outcome>>

\* One round of the loop.  x is what ParseStatement gives: it is executed at
\* once, ...
Execute(x) ==
  /\ x.at # 0 /\ x.tree # << >>
  /\ done' = Append(done, [from |-> at, to |-> x.at, tree |-> x.tree, texts |-> x.texts])
  /\ at' = x.at
  /\ UNCHANGED <<src, outcome>>

\* ... which may fail and ends the script; the statements before stay.
ExecuteFails(x) ==
  /\ x.at # 0 /\ x.tree # << >>
  /\ outcome' = "failed"
  /\ at' = x.at
  /\ UNCHANGED <<src, done>>

Skip(x) ==
  /\ x.at # 0 /\ x.tree = << >>
  /\ at' = x.at
  /\ UNCHANGED <<src, done, outcome>>

Reject(x) ==
  /\ x.at = 0
  /\ outcome' = "rejected"
  /\ UNCHANGED <<src, at, done>>

End ==
  /\ outcome = "running" /\ AtEOF
  /\ outcome' = "ended"
  /\ UNCHANGED <<src, at, done>>

Parse ==
  /\ outcome = "running" /\ ~AtEOF
  /\ \E x \in {Statement(src, at)} : Execute(x) \/ ExecuteFails(x) \/ Skip(x) \/ Reject(x)

Next == Parse \/ End

Spec == Init /\ [][Next]_vars

-----------------------------------------------------------------------------
(* What predicates mean.                                                   *)

\* A tree's truth when the columns of world satisfy their comparisons.
TreeHolds(tree, world) ==
  LET Value(node) ==
        CASE node[1] = "OR" -> node[2] \/ node[3]
          [] node[1] = "AND" -> node[2] /\ node[3]
          [] node[1] = "compare" -> node[2] \in world
      Step(token, stack) ==
        LET top == Last(stack)
            below == Front(stack)
        IN CASE token = "[" -> Append(stack, << >>)
             [] token = "]" -> Append(Front(below), Append(Last(below), Value(top)))
             [] OTHER -> Append(below, Append(top, token))
  IN FoldLeft(LAMBDA stack, token : Step(token, stack), <<<< >>>>, tree)[1][1]

Opens(text, k) ==
  LET before == SubSeq(text, 1, k)
  IN Cardinality({j \in 1..k : before[j] = "("}) - Cardinality({j \in 1..k : before[j] = ")"})

\* The truth of the text itself: split at the outermost OR, then AND.
RECURSIVE TextHolds(_, _)
TextHolds(text, world) ==
  LET splits(word) == {k \in DOMAIN text : text[k] = word /\ Opens(text, k) = 0}
      side(word, k) == <<TextHolds(SubSeq(text, 1, k - 1), world),
                         TextHolds(SubSeq(text, k + 1, Len(text)), world)>>
  IN IF splits("OR") # {}
     THEN \E k \in {CHOOSE k \in splits("OR") : TRUE} : side("OR", k)[1] \/ side("OR", k)[2]
     ELSE IF splits("AND") # {}
     THEN \E k \in {CHOOSE k \in splits("AND") : TRUE} : side("AND", k)[1] /\ side("AND", k)[2]
     ELSE IF text[1] = "(" THEN TextHolds(SubSeq(text, 2, Len(text) - 1), world)
     ELSE text[1] \in world

-----------------------------------------------------------------------------
(* Properties.                                                             *)

TextsOf(kind) == UNION {{c \in done[n].texts : c.kind = kind} : n \in DOMAIN done}

\* The text of a statement, as HandleScript attributes it with Parser.Pos, is
\* that statement: parsed alone it gives the same tree and nothing is left.
TextsAreExact ==
  \A n \in DOMAIN done :
    LET text == SubSeq(src, done[n].from, done[n].to - 1)
        again == Statement(text, 1)
    IN again.at = Len(text) + 1 /\ again.tree = done[n].tree

\* What the server reads back of a routine is what it ran before: the stored
\* text of a body (sliceFrom) parsed by parseBody gives the body, and that of
\* a view's query parsed by parseViewQuery gives the query.
RECURSIVE ParseBody(_, _)
ParseBody(text, i) ==
  IF Is(text, i, "EOF") THEN Empty(i)
  ELSE Then(Statement(text, i), LAMBDA j : ParseBody(text, j))

StoredTextsReparse ==
  /\ \A c \in TextsOf("body") :
       ParseBody(c.text, 1).at # 0 /\ ParseBody(c.text, 1).tree = c.tree
  /\ \A c \in TextsOf("query") : Statement(c.text, 1).tree = c.tree

\* A predicate selects the rows its text says, whatever the order of AND, OR
\* and parentheses.
PredicatesMeanTheirText ==
  \A c \in TextsOf("where") : \A world \in SUBSET {c.text[k] : k \in DOMAIN c.text} :
    TreeHolds(c.tree, world) = TextHolds(c.text, world)

\* No text keeps the loop busy for ever: every round that does not reject the
\* text takes at least one token of it.
EveryRoundAdvances ==
  outcome = "running" /\ ~AtEOF =>
    LET x == Statement(src, at) IN x.at = 0 \/ x.at \in at + 1..Len(src) + 1
=============================================================================
