--------------------------- MODULE SelectPipeline ---------------------------
(***************************************************************************)
(* The stages of a SELECT: FROM with JOIN, WHERE, GROUP BY, HAVING, window *)
(* functions, QUALIFY, ORDER BY, projection, DISTINCT, LIMIT and OFFSET.   *)
(*                                                                         *)
(* A rowset is a sequence of rows, all of one width, under a sequence of   *)
(* column names; a row is a sequence of cells.  A cell has a printed form  *)
(* and may be a number.  The code compares cells in two ways: by printed   *)
(* form (JOIN, GROUP BY, PARTITION BY, DISTINCT), and as numbers where     *)
(* both are numbers, else by printed form (conditions, ORDER BY, MIN and   *)
(* MAX).  References are positions here.  AVG, which is SUM over the count *)
(* of numbers, is left out.                                                *)
(***************************************************************************)
EXTENDS Integers, Sequences, FiniteSets, SequencesExt

CONSTANTS
  Null,       \* nil
  NoNumber,   \* "does not parse as a number"
  NilText,    \* the rank of "<nil>" among the printed forms
  Computed,   \* the rank of the printed form of a computed 0
  Cells,      \* stored cells: [num, text], text a rank among printed forms
  LeftCols, RightCols,    \* the names of the two tables' columns
  LeftRows, RightRows,    \* the rows they may have
  Conditions,             \* [at, op, val] of WHERE, HAVING and QUALIFY
  Groupings,              \* [on, fn, arg]: GROUP BY, one aggregate
  Windows,                \* [fn, arg, part, keys] of a call
  Orders,                 \* ORDER BY: sequences of [at, desc]
  SelectLists,            \* sequences of positions
  MaxInput,   \* bound on the rows of both tables together
  MaxRows,    \* bound on the rows windows are computed for
  MaxPage     \* bound on LIMIT and OFFSET

Ranking == {"ROW_NUMBER", "RANK", "DENSE_RANK"}
Aggregates == {"COUNT", "SUM", "MIN", "MAX"}

Values == Cells \cup {Null}
Keys == Seq([at : Nat, desc : BOOLEAN])

ASSUME CellsAssumption ==
  /\ Cells \subseteq [num : Int \cup {NoNumber}, text : Nat]
  /\ NilText \in Nat /\ Computed \in Nat
\* A cell's number is parsed from its printed form, so one form, one number.
ASSUME PrintedAssumption ==
  /\ \A c, d \in Cells : c.text = d.text => c.num = d.num
  /\ \A c \in Cells : c.text = NilText => c.num = NoNumber
ASSUME TablesAssumption ==
  /\ LeftCols \in Seq(ToSet(LeftCols)) /\ RightCols \in Seq(ToSet(RightCols))
  /\ LeftRows \subseteq [DOMAIN LeftCols -> Values]
  /\ RightRows \subseteq [DOMAIN RightCols -> Values]
ASSUME ClausesAssumption ==
  /\ \A w \in Conditions : w.val \in Values
  /\ \A g \in Groupings : g.fn \in Aggregates /\ g.on \in Seq(Nat) /\ g.arg \in Nat
  /\ \A w \in Windows : /\ w.fn \in Ranking \cup Aggregates /\ w.arg \in Nat
                        /\ w.part \in Seq(Nat) /\ w.keys \in Keys
  /\ Orders \subseteq Keys /\ SelectLists \subseteq Seq(Nat)
ASSUME BoundsAssumption == MaxInput \in Nat /\ MaxRows \in Nat /\ MaxPage \in Nat

VARIABLES
  stage,  \* the stage to come
  cols,   \* the names of the rowset's columns
  rows,   \* its rows
  right   \* the rows of the table to join

selectVars == <<stage, cols, rows, right>>

----------------------------------------------------------------------------
(* Rows and cells                                                          *)

\* The elements of a sequence that are in a set.
Only(s, S) ==
  LET kept[n \in 0..Len(s)] ==
        IF n = 0 THEN <<>>
        ELSE IF s[n] \in S THEN Append(kept[n - 1], s[n]) ELSE kept[n - 1]
  IN kept[Len(s)]

\* The positions of the elements that differ from all before them.
Firsts(s) ==
  Only([p \in DOMAIN s |-> p], {p \in DOMAIN s : \A q \in 1..(p - 1) : s[q] # s[p]})

Total(f) == LET sum[n \in 0..Len(f)] == IF n = 0 THEN 0 ELSE sum[n - 1] + f[n] IN sum[Len(f)]

Text(v) == IF v = Null THEN NilText ELSE v.text
Num(v) == IF v = Null THEN NoNumber ELSE v.num

Sign(a, b) == IF a < b THEN -1 ELSE IF a > b THEN 1 ELSE 0

\* compareCells, compareValues (which never sees nil).
CompareCells(a, b) ==
  IF Num(a) # NoNumber /\ Num(b) # NoNumber THEN Sign(Num(a), Num(b))
  ELSE Sign(Text(a), Text(b))

\* One ORDER BY term: nil first, and last when descending.
CompareTerm(a, b, desc) ==
  LET c == CASE a = Null /\ b = Null -> 0
             [] a = Null /\ b # Null -> -1
             [] a # Null /\ b = Null -> 1
             [] OTHER -> CompareCells(a, b)
  IN IF desc THEN -c ELSE c

\* CompareByKeys: the first term that tells the rows apart.
Compare(r, s, keys) ==
  LET term(k) == CompareTerm(r[keys[k].at], s[keys[k].at], keys[k].desc)
      apart == {k \in DOMAIN keys : term(k) # 0}
  IN IF apart = {} THEN 0 ELSE term(CHOOSE k \in apart : \A i \in apart : k <= i)

\* numberValue, or a count.
Number(n) == [num |-> n, text |-> Computed + n]

\* whereMatches
Satisfies(cell, op, val) ==
  LET c == CompareCells(cell, val) IN
  CASE op = "=" -> c = 0
    [] op = "<>" -> c # 0
    [] op = "<" -> c < 0
    [] op = "<=" -> c <= 0
    [] op = ">" -> c > 0
    [] op = ">=" -> c >= 0

\* evalWhere: a column beyond the row does not match.
EvalWhere(row, w) == w.at \in DOMAIN row /\ Satisfies(row[w.at], w.op, w.val)

----------------------------------------------------------------------------
(* JOIN                                                                    *)

Nulls(n) == [i \in 1..n |-> Null]

\* firstJoinColumnMatch; 0 if there is none.
FirstMatch(names, n) ==
  LET at == {i \in DOMAIN names : names[i] = n} IN
  IF at = {} THEN 0 ELSE CHOOSE i \in at : \A k \in at : i <= k

\* How two rowsets are joined: the pairs of positions that must agree, and
\* whether the second of a pair is dropped.
On(kind, l, r) == [kind |-> kind, pairs |-> {<<l, Len(cols) + r>>}, coalesce |-> FALSE]
Cross == [kind |-> "inner", pairs |-> {}, coalesce |-> FALSE]
Natural(kind) ==
  [kind |-> kind, coalesce |-> TRUE,
   pairs |-> {<<FirstMatch(cols, RightCols[k]), Len(cols) + k>> :
                k \in {j \in DOMAIN RightCols : FirstMatch(cols, RightCols[j]) > 0}}]

JoinKinds == {"inner", "left", "right", "full"}
Joins ==
  {Cross} \cup {Natural(kind) : kind \in JoinKinds}
  \cup {On(kind, l, r) : kind \in JoinKinds, l \in DOMAIN cols, r \in DOMAIN RightCols}

\* Cells are matched by their printed form, nil as "<nil>".
Agree(u, j) == \A p \in j.pairs : Text(u[p[1]]) = Text(u[p[2]])

Kept(n, j) ==
  Only([i \in 1..n |-> i], {i \in 1..n : ~j.coalesce \/ \A p \in j.pairs : p[2] # i})

\* The columns that stay, a dropped cell standing in for a nil.
Shown(u, j) ==
  LET cell(i) == IF /\ j.coalesce /\ u[i] = Null
                    /\ \E p \in j.pairs : p[1] = i
                   THEN u[(CHOOSE p \in j.pairs : p[1] = i)[2]] ELSE u[i]
      kept == Kept(Len(u), j)
  IN [k \in DOMAIN kept |-> cell(kept[k])]

\* A row's matches, or the row alone if it has none and its side is kept.
Matched(us, j) == Only(us, {u \in ToSet(us) : Agree(u, j)})
OrAlone(us, alone, kept) == IF us = <<>> /\ kept THEN <<alone>> ELSE us

\* Mutant: FULL drops the right rows nothing matched.
FoldJoinLopsided(j, ls, rs) ==
  LET width == Len(RightCols)
      lefts == [i \in DOMAIN ls |->
        OrAlone(Matched([k \in DOMAIN rs |-> ls[i] \o rs[k]], j),
                ls[i] \o Nulls(width), j.kind \in {"left", "full"})]
      rights == [k \in DOMAIN rs |->
        OrAlone(Matched([i \in DOMAIN ls |-> ls[i] \o rs[k]], j),
                Nulls(Len(cols)) \o rs[k], TRUE)]
      us == IF j.kind = "right" THEN FlattenSeq(rights) ELSE FlattenSeq(lefts)
  IN [i \in DOMAIN us |-> Shown(us[i], j)]

\* foldJoin
FoldJoin(j, ls, rs) ==
  LET width == Len(RightCols)
      lefts == [i \in DOMAIN ls |->
        OrAlone(Matched([k \in DOMAIN rs |-> ls[i] \o rs[k]], j),
                ls[i] \o Nulls(width), j.kind \in {"left", "full"})]
      rights == [k \in DOMAIN rs |->
        OrAlone(Matched([i \in DOMAIN ls |-> ls[i] \o rs[k]], j),
                Nulls(Len(cols)) \o rs[k], TRUE)]
      alone == Only(rs, {r \in ToSet(rs) : \A i \in DOMAIN ls : ~Agree(ls[i] \o r, j)})
      us == CASE j.kind = "right" -> FlattenSeq(rights)
              [] j.kind = "full" ->
                   FlattenSeq(lefts) \o [k \in DOMAIN alone |-> Nulls(Len(cols)) \o alone[k]]
              [] OTHER -> FlattenSeq(lefts)
  IN [i \in DOMAIN us |-> Shown(us[i], j)]

----------------------------------------------------------------------------
(* GROUP BY and aggregates                                                 *)

\* partitionKey
KeyOf(row, on) == [k \in DOMAIN on |-> Text(row[on[k]])]

\* Mutant: a key is new unless it is that of the row before.
KeysOfRuns(rs, on) ==
  LET keys == [p \in DOMAIN rs |-> KeyOf(rs[p], on)]
      firsts == Only([p \in DOMAIN rs |-> p],
                     {p \in DOMAIN rs : p = 1 \/ keys[p] # keys[p - 1]})
  IN [i \in DOMAIN firsts |-> keys[firsts[i]]]

\* The keys in the order they first appear.
KeysOf(rs, on) ==
  LET keys == [p \in DOMAIN rs |-> KeyOf(rs[p], on)]
      firsts == Firsts(keys)
  IN [i \in DOMAIN firsts |-> keys[firsts[i]]]

\* The best of some cells: the first of the least or of the greatest.
Better(fn, v, w) == IF fn = "MIN" THEN CompareCells(v, w) < 0 ELSE CompareCells(v, w) > 0

Best(fn, vs) ==
  LET best[n \in 0..Len(vs)] ==
        IF n = 0 THEN Null
        ELSE LET b == best[n - 1] IN IF b = Null \/ Better(fn, vs[n], b) THEN vs[n] ELSE b
  IN best[Len(vs)]

SumOf(vs) == Total([i \in DOMAIN vs |-> IF Num(vs[i]) = NoNumber THEN 0 ELSE Num(vs[i])])

\* computeAggregate; arg 0 is COUNT(*).
Aggregate(fn, rs, arg) ==
  LET some == Only(rs, {r \in ToSet(rs) : arg = 0 \/ r[arg] # Null})
      vs == IF arg = 0 THEN <<>> ELSE [i \in DOMAIN some |-> some[i][arg]]
  IN CASE fn = "COUNT" -> Number(Len(some))
       [] fn = "SUM" -> Number(SumOf(vs))
       [] OTHER -> Best(fn, vs)

\* groupRows: the key columns of the group's first row, and the aggregate.
\* Without GROUP BY there is one group, of no rows if need be.
GroupRows(rs, g) ==
  LET ks == IF g.on = <<>> THEN << <<>> >> ELSE KeysOf(rs, g.on)
      of(k) == Only(rs, {r \in ToSet(rs) : KeyOf(r, g.on) = k})
  IN [i \in DOMAIN ks |->
       [k \in DOMAIN g.on |-> of(ks[i])[1][g.on[k]]]
         \o <<Aggregate(g.fn, of(ks[i]), g.arg)>>]

----------------------------------------------------------------------------
(* ORDER BY and window functions                                           *)

\* Mutant: equal rows change places.
InsertedBefore(s, r, keys) ==
  LET p == CHOOSE p \in 0..Len(s) : /\ p = 0 \/ Compare(r, s[p], keys) > 0
                                    /\ \A q \in (p + 1)..Len(s) : Compare(r, s[q], keys) <= 0
  IN SubSeq(s, 1, p) \o <<r>> \o SubSeq(s, p + 1, Len(s))

\* A row goes behind the last one it is not before.
Inserted(s, r, keys) ==
  LET p == CHOOSE p \in 0..Len(s) : /\ p = 0 \/ Compare(r, s[p], keys) >= 0
                                    /\ \A q \in (p + 1)..Len(s) : Compare(r, s[q], keys) < 0
  IN SubSeq(s, 1, p) \o <<r>> \o SubSeq(s, p + 1, Len(s))

\* SortRowsByKeys: up to 20 rows sort.SliceStable inserts one row after another.
SortRows(rs, keys) ==
  LET sorted[n \in 0..Len(rs)] ==
        IF n = 0 THEN <<>> ELSE Inserted(sorted[n - 1], rs[n], keys)
  IN sorted[Len(rs)]

\* windowAccumulator
NewAccumulator == [rows |-> 0, some |-> 0, sum |-> 0, best |-> Null]

Add(fn, acc, v, counted) ==
  LET a == [acc EXCEPT !.rows = @ + 1] IN
  IF counted \/ v = Null THEN a
  ELSE [a EXCEPT !.some = @ + 1,
                 !.sum = IF Num(v) = NoNumber THEN @ ELSE @ + Num(v),
                 !.best = IF @ = Null THEN v ELSE Best(fn, <<@, v>>)]

ValueOf(fn, acc, counted) ==
  CASE fn = "COUNT" -> Number(IF counted THEN acc.rows ELSE acc.some)
    [] fn = "SUM" -> Number(acc.sum)
    [] OTHER -> acc.best

\* Where the groups of peers start in the sorted rows of a partition: each
\* row is compared with the first of the group.
Starts(rs, keys) ==
  LET starts[n \in 0..Len(rs)] ==
        IF n = 0 THEN <<>>
        ELSE LET st == starts[n - 1] IN
             IF st # <<>> /\ Compare(rs[Last(st)], rs[n], keys) = 0 THEN st ELSE Append(st, n)
  IN starts[Len(rs)]

\* The running state after the first n rows.
Accumulated(w, rs, n) ==
  LET acc[i \in 0..n] ==
        IF i = 0 THEN NewAccumulator
        ELSE Add(w.fn, acc[i - 1], IF w.arg = 0 THEN Null ELSE rs[i][w.arg], w.arg = 0)
  IN acc[n]

\* Mutant: the frame ends with the row, not with its peers.
WindowValuesByRow(w, rs) ==
  LET st == Starts(rs, w.keys)
      group(p) == Cardinality({k \in DOMAIN st : st[k] <= p})
  IN [p \in DOMAIN rs |->
       CASE w.fn = "ROW_NUMBER" -> Number(p)
         [] w.fn = "RANK" -> Number(st[group(p)])
         [] w.fn = "DENSE_RANK" -> Number(group(p))
         [] OTHER -> ValueOf(w.fn, Accumulated(w, rs, p), w.arg = 0)]

\* A window function over the sorted rows of one partition: an aggregate
\* runs over the rows up to the last peer.
WindowValues(w, rs) ==
  LET st == Starts(rs, w.keys)
      group(p) == Cardinality({k \in DOMAIN st : st[k] <= p})
      end(g) == IF g = Len(st) THEN Len(rs) ELSE st[g + 1] - 1
  IN [p \in DOMAIN rs |->
       CASE w.fn = "ROW_NUMBER" -> Number(p)
         [] w.fn = "RANK" -> Number(st[group(p)])
         [] w.fn = "DENSE_RANK" -> Number(group(p))
         [] OTHER -> ValueOf(w.fn, Accumulated(w, rs, end(group(p))), w.arg = 0)]

\* evalWindow: one value for every row.  Rows are sorted with their number,
\* at a position past the columns that no key names.
EvalWindow(w, rs) ==
  LET numbered == [p \in DOMAIN rs |-> Append(rs[p], p)]
      part(k) == SortRows(Only(numbered, {r \in ToSet(numbered) : KeyOf(r, w.part) = k}),
                          w.keys)
      value(p) == LET s == part(KeyOf(rs[p], w.part))
                      at == CHOOSE q \in DOMAIN s : Last(s[q]) = p
                  IN WindowValues(w, s)[at]
  IN [p \in DOMAIN rs |-> value(p)]

----------------------------------------------------------------------------
(* DISTINCT, LIMIT and OFFSET                                              *)

RowText(row) == [k \in DOMAIN row |-> Text(row[k])]

\* RemoveDuplicateRows
RemoveDuplicates(rs) ==
  LET firsts == Firsts([p \in DOMAIN rs |-> RowText(rs[p])])
  IN [i \in DOMAIN firsts |-> rs[firsts[i]]]

\* ApplyLimitOffset: 0 is no limit.
ApplyLimitOffset(rs, limit, offset) ==
  LET rest == SubSeq(rs, offset + 1, Len(rs))
  IN IF limit > 0 /\ limit < Len(rest) THEN SubSeq(rest, 1, limit) ELSE rest

----------------------------------------------------------------------------
(* The stages                                                              *)

Stages == {"join", "scan", "where", "group", "having", "window", "qualify", "order",
           "project", "distinct", "limit", "done"}

SelectInit ==
  /\ stage = "join"
  /\ cols = LeftCols
  /\ \E n, m \in 0..MaxInput :
       /\ n + m <= MaxInput
       /\ rows \in [1..n -> LeftRows] /\ right \in [1..m -> RightRows]

\* The references of a clause resolve.
Resolve(ats) == ats \subseteq DOMAIN cols
Places(keys) == {keys[k].at : k \in DOMAIN keys}

Goto(s) == stage' = s

\* executeJoinSelect, for one more table.
Join(j) ==
  /\ stage = "join"
  /\ rows' = FoldJoin(j, rows, right)
  /\ cols' = LET names == cols \o RightCols
                 kept == Kept(Len(names), j)
             IN [k \in DOMAIN kept |-> names[kept[k]]]
  /\ right' = <<>>
  /\ Goto("where")

\* A SELECT from one table.
Single == stage = "join" /\ right' = <<>> /\ Goto("scan") /\ UNCHANGED <<cols, rows>>

After == [scan |-> "group", where |-> "group", having |-> "window", qualify |-> "order"]

Hits(w) ==
  Only(rows, {r \in ToSet(rows) : w.at \in DOMAIN r /\ Text(r[w.at]) = Text(w.val)})

\* Mutant: an index without entries for nil.
LookedUpSparse(w) ==
  LET hits == Hits(w)
      bucket(on, t) == Only(hits, {r \in ToSet(hits) : Text(r[on]) = t})
      texts(on) == {Text(hits[p][on]) : p \in {q \in DOMAIN hits : hits[q][on] # Null}}
  IN {hits} \cup UNION {{FlattenSeq([i \in DOMAIN ts |-> bucket(on, ts[i])]) :
                          ts \in SetToSeqs(texts(on))} : on \in DOMAIN cols \ {w.at}}

\* What SelectWhere may return for one equality on one table: cells are
\* compared by their printed form, and an index on two columns gives its
\* buckets in the order in which Go ranges over a map.
LookedUp(w) ==
  LET hits == Hits(w)
      bucket(on, t) == Only(hits, {r \in ToSet(hits) : Text(r[on]) = t})
      texts(on) == {Text(hits[p][on]) : p \in DOMAIN hits}
  IN {hits} \cup UNION {{FlattenSeq([i \in DOMAIN ts |-> bucket(on, ts[i])]) :
                          ts \in SetToSeqs(texts(on))} : on \in DOMAIN cols \ {w.at}}

\* fetchRows: a WHERE of one equality.
Lookup(w) ==
  /\ stage = "scan" /\ Resolve({w.at}) /\ w.op = "="
  /\ rows' \in LookedUp(w)
  /\ Goto("group")
  /\ UNCHANGED <<cols, right>>

\* Any other WHERE, HAVING or QUALIFY.  One leaf stands for the tree: AND and
\* OR are of its leaves, so on one table "=" comes here as part of one.
Filter(w) ==
  /\ stage \in DOMAIN After /\ Resolve({w.at})
  /\ rows' = Only(rows, {r \in ToSet(rows) : EvalWhere(r, w)})
  /\ Goto(After[stage])
  /\ UNCHANGED <<cols, right>>

NoFilter == stage \in DOMAIN After /\ Goto(After[stage]) /\ UNCHANGED <<cols, rows, right>>

GroupBy(g) ==
  /\ stage = "group" /\ Resolve(ToSet(g.on) \cup ({g.arg} \ {0}))
  /\ rows' = GroupRows(rows, g)
  /\ cols' = [k \in DOMAIN g.on |-> cols[g.on[k]]] \o <<g.fn>>
  /\ Goto("having")
  /\ UNCHANGED right

\* HAVING would group.
NoGroupBy == stage = "group" /\ Goto("window") /\ UNCHANGED <<cols, rows, right>>

\* computeWindows, for one call.
Resolved(w) == Resolve(ToSet(w.part) \cup Places(w.keys) \cup ({w.arg} \ {0}))

Window(w) ==
  /\ stage = "window" /\ Resolved(w) /\ Len(rows) <= MaxRows
  /\ LET values == EvalWindow(w, rows)
     IN rows' = [p \in DOMAIN rows |-> Append(rows[p], values[p])]
  /\ cols' = Append(cols, w.fn)
  /\ Goto("qualify")
  /\ UNCHANGED right

NoWindow == stage = "window" /\ Goto("qualify") /\ UNCHANGED <<cols, rows, right>>

OrderBy(keys) ==
  /\ stage = "order" /\ Resolve(Places(keys))
  /\ rows' = SortRows(rows, keys)
  /\ Goto("project")
  /\ UNCHANGED <<cols, right>>

\* projectRows
Project(list) ==
  /\ stage = "project" /\ Resolve(ToSet(list))
  /\ rows' = [p \in DOMAIN rows |-> [k \in DOMAIN list |-> rows[p][list[k]]]]
  /\ cols' = [k \in DOMAIN list |-> cols[list[k]]]
  /\ Goto("distinct")
  /\ UNCHANGED right

Distinct(wanted) ==
  /\ stage = "distinct"
  /\ rows' = IF wanted THEN RemoveDuplicates(rows) ELSE rows
  /\ Goto("limit")
  /\ UNCHANGED <<cols, right>>

Limit(limit, offset) ==
  /\ stage = "limit"
  /\ rows' = ApplyLimitOffset(rows, limit, offset)
  /\ Goto("done")
  /\ UNCHANGED <<cols, right>>

SelectNext ==
  \/ \E j \in Joins : Join(j)
  \/ \E w \in Conditions : Lookup(w) \/ Filter(w)
  \/ \E g \in Groupings : GroupBy(g)
  \/ \E w \in Windows : Window(w)
  \/ \E keys \in Orders : OrderBy(keys)
  \/ \E list \in SelectLists : Project(list)
  \/ \E wanted \in BOOLEAN : Distinct(wanted)
  \/ \E limit, offset \in 0..MaxPage : Limit(limit, offset)
  \/ Single \/ NoFilter \/ NoGroupBy \/ NoWindow

SelectSpec == SelectInit /\ [][SelectNext]_selectVars

----------------------------------------------------------------------------
(* Properties: what each stage makes of the rowset it is given             *)

Occurrences(x, s) == Cardinality({p \in DOMAIN s : s[p] = x})

\* The numbers and the other cells of a column do not mix; where they do,
\* comparison is no order (9 < 10 < "1a" < 9) and the next two properties
\* need not hold.
Uniform(at) ==
  \A p, q \in DOMAIN rows :
    rows[p][at] # Null /\ rows[q][at] # Null =>
      (Num(rows[p][at]) = NoNumber <=> Num(rows[q][at]) = NoNumber)

\* "LEFT JOIN: all rows of users and the matches of orders ... FULL: all rows
\* of both" (README.md:399-406, in Spanish): every row of a join comes as
\* often as there are pairs that make it and rows alone on a side kept.
JoinsCount ==
  stage = "join" => \A j \in Joins :
    LET out == FoldJoin(j, rows, right)
        L == DOMAIN rows
        R == DOMAIN right
        agree(i, k) == Agree(rows[i] \o right[k], j)
        pairs == {ik \in L \X R : agree(ik[1], ik[2])}
        lone == {i \in L : j.kind \in {"left", "full"} /\ \A k \in R : ~agree(i, k)}
        alone == {k \in R : j.kind \in {"right", "full"} /\ \A i \in L : ~agree(i, k)}
        pair(ik) == Shown(rows[ik[1]] \o right[ik[2]], j)
        left(i) == Shown(rows[i] \o Nulls(Len(RightCols)), j)
        rite(k) == Shown(Nulls(Len(cols)) \o right[k], j)
    IN /\ Len(out) = Cardinality(pairs) + Cardinality(lone) + Cardinality(alone)
       /\ \A u \in ToSet(out) :
            Occurrences(u, out) = Cardinality({ik \in pairs : pair(ik) = u})
              + Cardinality({i \in lone : left(i) = u})
              + Cardinality({k \in alone : rite(k) = u})

\* Equality means the same with and without an index, whatever its columns,
\* and alone or as part of a condition ("WHERE id = 1 works alike",
\* README.md:140, in Spanish): the lookup finds the rows a scan finds, as
\* long as equal numbers are printed alike.
LookupsMatchScans ==
  stage = "scan" => \A w \in {v \in Conditions : v.op = "=" /\ Resolve({v.at})} :
    (\A p \in DOMAIN rows : CompareCells(rows[p][w.at], w.val) = 0
                              => Text(rows[p][w.at]) = Text(w.val)) =>
      LET scanned == Only(rows, {r \in ToSet(rows) : EvalWhere(r, w)}) IN
      \A found \in LookedUp(w) : \A r \in ToSet(rows) :
        Occurrences(r, found) = Occurrences(r, scanned)

Same(w, p, q) == KeyOf(rows[p], w.part) = KeyOf(rows[q], w.part)
Cmp(w, p, q) == Compare(rows[p], rows[q], w.keys)
Applicable(w) ==
  stage = "window" /\ Len(rows) <= MaxRows /\ Resolved(w)
  /\ \A at \in Places(w.keys) : Uniform(at)

\* "ROW_NUMBER numbers 1..n; RANK leaves gaps after a tie (1,1,3); DENSE_RANK
\* does not (1,1,2)" (README.md:142, in Spanish): the numbers are what
\* counting the rows of the partition that come before gives.
RanksCount(w) ==
  LET v == EvalWindow(w, rows) IN
    \A p \in DOMAIN rows :
      LET before == {q \in DOMAIN rows : Same(w, p, q) /\ Cmp(w, q, p) < 0}
          peersBefore == {q \in 1..(p - 1) : Same(w, p, q) /\ Cmp(w, q, p) = 0}
          groups == {{r \in before : Cmp(w, q, r) = 0} : q \in before}
      IN v[p].num = 1 + CASE w.fn = "RANK" -> Cardinality(before)
                          [] w.fn = "DENSE_RANK" -> Cardinality(groups)
                          [] OTHER -> Cardinality(before) + Cardinality(peersBefore)

\* "a running aggregate over a growing frame with the same semantics as
\* computeAggregate" (window.go:244-245): at every row it is the aggregate of
\* the rows up to its peers; over a whole partition, that of GROUP BY.
RunningAggregateAgrees(w) ==
  LET v == EvalWindow(w, rows)
      at(p) == [q \in DOMAIN rows |-> Append(rows[q], q)]
  IN \A p \in DOMAIN rows :
       LET frame == Only(at(p), {r \in ToSet(at(p)) :
                             Same(w, p, Last(r)) /\ Cmp(w, Last(r), p) <= 0})
           a == Aggregate(w.fn, frame, w.arg)
       IN CompareTerm(v[p], a, FALSE) = 0

\* The window functions: what one pass with running state gives every row is
\* what counting, or aggregating, the rows before it gives.
WindowsAgree ==
  \A w \in Windows : Applicable(w) =>
    IF w.fn \in Ranking THEN RanksCount(w)
    ELSE (w.arg # 0 => Uniform(w.arg)) => RunningAggregateAgrees(w)

Pages(s, n) == [i \in 1..(Len(s) + 1) |-> ApplyLimitOffset(s, n, (i - 1) * n)]

\* ORDER BY neither loses nor adds rows, and where the key columns are
\* uniform it orders them and keeps equal rows in their order; its pages
\* ("LIMIT restricts the number of rows, OFFSET skips the first N (useful for
\* paging)", README.md:192, in Spanish) make up the whole.
SortsStably ==
  stage = "order" => \A keys \in Orders : Resolve(Places(keys)) =>
    LET s == SortRows(rows, keys)
        peers(x, r) == Only(x, {y \in ToSet(x) : Compare(y, r, keys) = 0})
    IN /\ \A r \in ToSet(rows) \cup ToSet(s) : Occurrences(r, s) = Occurrences(r, rows)
       /\ (\A at \in Places(keys) : Uniform(at)) =>
            /\ \A p, q \in DOMAIN s : p < q => Compare(s[p], s[q], keys) <= 0
            /\ \A r \in ToSet(rows) : peers(s, r) = peers(rows, r)
       /\ \A n \in 1..MaxPage : FlattenSeq(Pages(s, n)) = s

\* GROUP BY puts every row into one group: the groups differ in their keys,
\* their counts make up the rows and their sums the sum of all.
GroupsPartition ==
  stage = "group" => \A g \in Groupings : Resolve(ToSet(g.on) \cup ({g.arg} \ {0})) =>
    LET out == GroupRows(rows, g)
        keys == [k \in DOMAIN g.on |-> k]
    IN /\ \A p, q \in DOMAIN out : KeyOf(out[p], keys) = KeyOf(out[q], keys) => p = q
       /\ g.fn \in {"COUNT", "SUM"} =>
            Total([p \in DOMAIN out |-> Last(out[p]).num]) = Aggregate(g.fn, rows, g.arg).num
=============================================================================
