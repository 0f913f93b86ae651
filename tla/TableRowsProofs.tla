-------------------------- MODULE TableRowsProofs --------------------------
(***************************************************************************)
(* For any columns, values, indexes, clients, workloads and bounds: types; *)
(* as long as no UPDATE stops midway, every index holds exactly the        *)
(* entries of the rows once no rebuild is due and, with no row short, an   *)
(* equality finds the same rows with an index and without.  Where ALTER    *)
(* TABLE is kept apart, cells also stay under their columns and, if the    *)
(* key's column is left alone, keys stay unique.                           *)
(***************************************************************************)
EXTENDS TableRows, SequenceTheorems, TLAPS

----------------------------------------------------------------------------
(* Positions                                                               *)

DistinctNames(cs) == \A j, k \in DOMAIN cs : cs[j].name = cs[k].name => j = k

LEMMA PositionFound ==
  ASSUME NEW cs, DistinctNames(cs), NEW j \in DOMAIN cs
  PROVE  Position(cs, cs[j].name) = j
  BY DEF Position, DistinctNames

LEMMA PositionOfName ==
  ASSUME NEW cs \in Seq(Column), NEW n
  PROVE  /\ Position(cs, n) \in 0..Len(cs)
         /\ (\E j \in DOMAIN cs : cs[j].name = n) =>
              Position(cs, n) \in DOMAIN cs /\ cs[Position(cs, n)].name = n
<1>1. CASE \E j \in DOMAIN cs : cs[j].name = n
  BY <1>1 DEF Position
<1>2. CASE ~\E j \in DOMAIN cs : cs[j].name = n
  BY <1>2, LenProperties DEF Position
<1>3. QED
  BY <1>1, <1>2

LEMMA RemoveAtProperties ==
  ASSUME NEW S, NEW s \in Seq(S), NEW i \in 1..Len(s)
  PROVE  /\ RemoveAt(s, i) \in Seq(S)
         /\ Len(RemoveAt(s, i)) = Len(s) - 1
         /\ \A j \in 1..(Len(s) - 1) :
              RemoveAt(s, i)[j] = IF j < i THEN s[j] ELSE s[j + 1]
<1> DEFINE a == SubSeq(s, 1, i - 1)
           b == SubSeq(s, i + 1, Len(s))
<1>0. Len(s) \in Nat /\ \A j \in 1..Len(s) : s[j] \in S
  BY LenProperties, ElementOfSeq
<1>1. /\ a \in Seq(S) /\ Len(a) = i - 1
      /\ \A j \in 1..(i - 1) : a[j] = s[j]
  BY <1>0, SubSeqProperties, Z3
<1>2. /\ b \in Seq(S) /\ Len(b) = Len(s) - i
      /\ \A j \in 1..(Len(s) - i) : b[j] = s[j + i]
  BY <1>0, SubSeqProperties, Z3
<1>3. RemoveAt(s, i) = a \o b
  BY DEF RemoveAt
<1> HIDE DEF a, b
<1>3a. /\ a \o b \in Seq(S) /\ Len(a \o b) = Len(a) + Len(b)
      /\ \A j \in 1..(Len(a) + Len(b)) :
           (a \o b)[j] = IF j <= Len(a) THEN a[j] ELSE b[j - Len(a)]
  BY <1>1, <1>2, ConcatProperties
<1>4. /\ a \o b \in Seq(S) /\ Len(a \o b) = Len(s) - 1
      /\ \A j \in 1..(Len(s) - 1) :
           (a \o b)[j] = IF j <= i - 1 THEN a[j] ELSE b[j - (i - 1)]
  BY <1>0, <1>1, <1>2, <1>3a
<1>5. ASSUME NEW j \in 1..(Len(s) - 1)
      PROVE  (a \o b)[j] = IF j < i THEN s[j] ELSE s[j + 1]
  <2>1. CASE j < i
    BY <1>0, <1>1, <1>4, <2>1
  <2>2. CASE ~(j < i)
    <3>1. j - (i - 1) \in 1..(Len(s) - i) /\ (j - (i - 1)) + i = j + 1
      BY <1>0, <2>2
    <3>2. b[j - (i - 1)] = s[(j - (i - 1)) + i]
      BY <1>2, <3>1
    <3>3. QED
      BY <1>0, <1>4, <2>2, <3>1, <3>2
  <2>3. QED
    BY <2>1, <2>2
<1>6. QED
  BY <1>3, <1>4, <1>5

----------------------------------------------------------------------------
(* Entries                                                                 *)

LEMMA KeyType ==
  ASSUME NEW cs, NEW row \in Row, NEW on \in Seq(Names), Indexable(cs, row, on)
  PROVE  KeyOf(cs, row, on) \in Seq(Values) /\ DOMAIN KeyOf(cs, row, on) = DOMAIN on
<1>1. DOMAIN on = 1..Len(on) /\ Len(on) \in Nat
  BY LenProperties
<1>2. \A k \in 1..Len(on) : row[Position(cs, on[k])].val \in Values
  <2>1. TAKE k \in 1..Len(on)
  <2>2. Position(cs, on[k]) \in DOMAIN row
    BY <1>1 DEF Indexable, Has
  <2>3. row[Position(cs, on[k])] \in Cell
    BY <2>2, LenProperties, ElementOfSeq DEF Row
  <2>4. QED
    BY <2>3 DEF Cell
<1>3. [k \in 1..Len(on) |-> row[Position(cs, on[k])].val] \in Seq(Values)
  <2> DEFINE e(k) == row[Position(cs, on[k])].val
  <2>1. \A k \in 1..Len(on) : e(k) \in Values
    BY <1>2
  <2> HIDE DEF e
  <2>2. [k \in 1..Len(on) |-> e(k)] \in Seq(Values)
    BY <1>1, <2>1, IsASeq
  <2>3. QED
    BY <2>2 DEF e
<1>4. QED
  BY <1>1, <1>3 DEF KeyOf

LEMMA RebuiltType ==
  ASSUME NEW cs, NEW rs \in Seq(Row), NEW on \in Seq(Names)
  PROVE  /\ Rebuilt(cs, rs, on) \subseteq [key : Seq(Values), pos : Nat]
         /\ \A e \in Rebuilt(cs, rs, on) : DOMAIN e.key = DOMAIN on
<1>1. ASSUME NEW e \in Rebuilt(cs, rs, on)
      PROVE  e \in [key : Seq(Values), pos : Nat] /\ DOMAIN e.key = DOMAIN on
  <2>1. PICK p \in DOMAIN rs : Indexable(cs, rs[p], on) /\ e = Entry(cs, rs[p], on, p)
    BY DEF Rebuilt
  <2>2. p \in Nat /\ rs[p] \in Row
    BY LenProperties, ElementOfSeq
  <2>3. QED
    BY <2>1, <2>2, KeyType DEF Entry
<1>2. QED
  BY <1>1

\* The indexes of a rebuilt table: typed, over the same columns, current.
CurrentFor(cs, rs, ix, names) ==
  /\ ix \in [Indexes -> Index]
  /\ \A i \in Indexes :
       /\ ix[i].on \in Seq(names)
       /\ \A e \in ix[i].entries : DOMAIN e.key = DOMAIN ix[i].on
       /\ ix[i].on # <<>> => ix[i].entries = Rebuilt(cs, rs, ix[i].on)

LEMMA ReindexedIs ==
  ASSUME NEW cs \in Seq(Column), NEW rs \in Seq(Row), NEW ix \in [Indexes -> Index],
         NEW names, \A i \in Indexes : ix[i].on \in Seq(names)
  PROVE  CurrentFor(cs, rs, Reindexed(cs, rs, ix), names)
<1>1. ASSUME NEW j \in Indexes
      PROVE  /\ Reindexed(cs, rs, ix)[j] \in Index
             /\ Reindexed(cs, rs, ix)[j].on = ix[j].on
             /\ ix[j].on # <<>> =>
                  Reindexed(cs, rs, ix)[j].entries = Rebuilt(cs, rs, ix[j].on)
             /\ \A e \in Reindexed(cs, rs, ix)[j].entries : DOMAIN e.key = DOMAIN ix[j].on
  <2>1. ix[j] \in Index /\ ix[j].on \in Seq(Names)
    BY DEF Index
  <2>2. /\ Rebuilt(cs, rs, ix[j].on) \subseteq [key : Seq(Values), pos : Nat]
        /\ \A e \in Rebuilt(cs, rs, ix[j].on) : DOMAIN e.key = DOMAIN ix[j].on
    BY <2>1, RebuiltType
  <2>3. QED
    BY <2>1, <2>2 DEF Reindexed, Index
<1>2. Reindexed(cs, rs, ix) \in [Indexes -> Index]
  BY <1>1 DEF Reindexed
<1>3. QED
  BY <1>1, <1>2 DEF CurrentFor

\* A new row adds its entry, if it has one.
LEMMA RebuiltAppend ==
  ASSUME NEW cs, NEW rs \in Seq(Row), NEW row \in Row, NEW on
  PROVE  Rebuilt(cs, Append(rs, row), on) =
           IF Indexable(cs, row, on)
             THEN Rebuilt(cs, rs, on) \cup {Entry(cs, row, on, Len(rs) + 1)}
             ELSE Rebuilt(cs, rs, on)
<1> DEFINE r == Append(rs, row)
           n == Len(rs) + 1
<1>1. /\ Len(rs) \in Nat /\ DOMAIN rs = 1..Len(rs) /\ DOMAIN r = 1..n
      /\ r[n] = row /\ \A p \in DOMAIN rs : r[p] = rs[p]
  BY AppendProperties, LenProperties
<1>2. DOMAIN r = DOMAIN rs \cup {n} /\ n \notin DOMAIN rs
  BY <1>1
<1> HIDE DEF r, n
<1>3. Rebuilt(cs, r, on) =
        IF Indexable(cs, row, on)
          THEN Rebuilt(cs, rs, on) \cup {Entry(cs, row, on, n)}
          ELSE Rebuilt(cs, rs, on)
  BY <1>1, <1>2, Zenon DEF Rebuilt
<1>4. QED
  BY <1>3 DEF r, n

----------------------------------------------------------------------------
(* The inductive invariant                                                 *)

Statement ==
  [row : Row, at : Nat, made : 0..MaxMade, val : Values \cup {<<>>},
   where : Conditions]

\* What a statement has read is used as what it is; during DROP COLUMN the
\* rows are one cell too wide at most, and the cell's position is in range.
StatementsTyped ==
  /\ stmt \in [Clients -> Statement]
  /\ \A c \in Clients : pc[c] = "update" =>
       stmt[c].made \in 1..MaxMade /\ stmt[c].val \in Values
  /\ \A c \in Clients : pc[c] = "slice" =>
       /\ stmt[c].at \in 1..(Len(cols) + 1)
       /\ \A p \in DOMAIN rows : Len(rows[p]) <= Len(cols) + 1

TypeInv == TypeOK /\ StatementsTyped

IInv == TypeInv /\ IndexesCurrent

\* What an UPDATE under way has read of its condition: one of the workload's,
\* and, while ALTER TABLE is kept apart, over columns that are there.
WheresFit ==
  \A c \in Clients : pc[c] = "update" =>
    /\ stmt[c].where \in work.wheres
    /\ Apart => Known(stmt[c].where)

LEMMA BlankType == Blank \in Statement
  BY EmptySeq, BoundsAssumption DEF Blank, Statement, Row, Conditions

\* No step changes the workload.
LEMMA WorkSame ==
  ASSUME work' = work
  PROVE  (Whole' <=> Whole) /\ (Apart' <=> Apart) /\ (KeysLeftAlone' <=> KeysLeftAlone)
  BY DEF Whole, Apart, KeysLeftAlone

LEMMA Typed ==
  ASSUME TypeInv
  PROVE  /\ cols \in Seq(Column) /\ Len(cols) \in Nat /\ DOMAIN cols = 1..Len(cols)
         /\ \A j \in DOMAIN cols : cols[j].name \in Names /\ cols[j].made \in 1..MaxMade
         /\ DistinctNames(cols)
         /\ rows \in Seq(Row) /\ Len(rows) \in Nat /\ DOMAIN rows = 1..Len(rows)
         /\ \A p \in DOMAIN rows : /\ rows[p] \in Row /\ Len(rows[p]) \in Nat
                                   /\ DOMAIN rows[p] = 1..Len(rows[p])
         /\ \A c \in Clients : stmt[c] \in Statement /\ pc[c] \in Steps
         /\ \A i \in Indexes : idx[i] \in Index /\ idx[i].on \in Seq(ColNames)
         /\ ColNames \subseteq Names
<1>1. cols \in Seq(Column) /\ rows \in Seq(Row) /\ DistinctNames(cols)
  BY DEF TypeInv, TypeOK, DistinctNames
<1>2. \A j \in DOMAIN cols : cols[j] \in Column
  BY <1>1, LenProperties, ElementOfSeq
<1>3. \A p \in DOMAIN rows : rows[p] \in Row
  BY <1>1, LenProperties, ElementOfSeq
<1>4. \A p \in DOMAIN rows : Len(rows[p]) \in Nat /\ DOMAIN rows[p] = 1..Len(rows[p])
  BY <1>3, LenProperties DEF Row
<1>5. \A j \in DOMAIN cols : cols[j].name \in Names /\ cols[j].made \in 1..MaxMade
  BY <1>2 DEF Column
<1>6. \A c \in Clients : stmt[c] \in Statement /\ pc[c] \in Steps
  BY DEF TypeInv, TypeOK, StatementsTyped
<1>7. \A i \in Indexes : idx[i] \in Index /\ idx[i].on \in Seq(ColNames)
  BY DEF TypeInv, TypeOK
<1>8. ColNames \subseteq Names
  BY <1>5 DEF ColNames
<1>9. QED
  BY <1>1, <1>3, <1>4, <1>5, <1>6, <1>7, <1>8, LenProperties

LEMMA InitInv == Init => IInv
<1> SUFFICES ASSUME Init PROVE IInv
  OBVIOUS
<1>1. PICK n \in Names, m \in Names :
        /\ n # m /\ work \in Works
        /\ cols = <<[name |-> n, made |-> 1], [name |-> m, made |-> 2]>>
        /\ key \in {n, m, NoKey}
  BY DEF Init
<1>2. n \in Names /\ m \in Names /\ n # m
  BY <1>1
<1>3. [name |-> n, made |-> 1] \in Column /\ [name |-> m, made |-> 2] \in Column
  BY <1>2, BoundsAssumption DEF Column
<1>4. cols \in Seq(Column)
  BY <1>1, <1>3
<1>5. \A j, k \in DOMAIN cols : cols[j].name = cols[k].name => j = k
  BY <1>1, <1>2
<1>6. rows = <<>> /\ rows \in Seq(Row) /\ DOMAIN rows = {}
  BY EmptySeq, LenProperties DEF Init
<1>7. idx \in [Indexes -> Index] /\ \A i \in Indexes : idx[i] = NoIndex
  BY EmptySeq DEF Init, NoIndex, Index
<1>8. TypeOK
  <2>1. \A i \in Indexes : /\ idx[i].on \in Seq(ColNames)
                           /\ \A e \in idx[i].entries : DOMAIN e.key = DOMAIN idx[i].on
    <3>1. NoIndex.on \in Seq(ColNames) /\ NoIndex.entries = {}
      BY EmptySeq DEF NoIndex
    <3>2. QED
      BY <1>7, <3>1
  <2>2. /\ made \in 0..MaxMade /\ key \in Names \cup {NoKey}
        /\ down \in BOOLEAN /\ pc \in [Clients -> Steps]
    <3>1. made = 2 /\ down = FALSE /\ pc = [c \in Clients |-> "idle"]
      BY DEF Init
    <3>2. key \in {n, m, NoKey} /\ n \in Names /\ m \in Names
      BY <1>1, <1>2
    <3>3. made \in 0..MaxMade
      BY <3>1, BoundsAssumption
    <3>4. down \in BOOLEAN /\ pc \in [Clients -> Steps]
      BY <3>1 DEF Steps
    <3>5. QED
      BY <3>2, <3>3, <3>4
  <2>3. \A p \in DOMAIN rows :
          Len(rows[p]) <= Len(cols) \/ \E c \in Clients : pc[c] = "slice"
    BY <1>6
  <2>4. QED
    BY <1>1, <1>4, <1>5, <1>6, <1>7, <2>1, <2>2, <2>3, Zenon DEF TypeOK
<1>9. StatementsTyped
  BY <1>6, BlankType DEF Init, StatementsTyped
<1>10. IndexesCurrent
  BY <1>7 DEF IndexesCurrent, NoIndex
<1>11. QED
  BY <1>8, <1>9, <1>10 DEF IInv, TypeInv

\* A client's step that changes neither columns nor rows nor indexes.
LEMMA QuietStep ==
  ASSUME IInv, work' = work, NEW c \in Clients, UNCHANGED table, down' \in BOOLEAN,
         NEW s \in Steps \ ({"rebuild"} \cup Altering),
         NEW what \in Statement, Goto(c, s), Keep(c, what),
         pc[c] \notin {"rebuild"} \cup Altering,
         s = "update" => what.made \in 1..MaxMade /\ what.val \in Values
  PROVE  IInv'
<1>1. /\ pc' \in [Clients -> Steps] /\ stmt' \in [Clients -> Statement]
      /\ pc'[c] = s /\ stmt'[c] = what
      /\ \A d \in Clients \ {c} : pc'[d] = pc[d] /\ stmt'[d] = stmt[d]
  BY DEF IInv, TypeInv, TypeOK, StatementsTyped, Goto, Keep
<1>2. (\E d \in Clients : pc[d] = "slice") => \E d \in Clients : pc'[d] = "slice"
  BY <1>1 DEF Altering
<1>3. Rebuilding => Rebuilding'
  BY <1>1 DEF Rebuilding
<1>4. TypeOK'
  <2>1. /\ cols' = cols /\ made' = made /\ key' = key /\ rows' = rows /\ idx' = idx
        /\ ColNames' = ColNames
    BY DEF table, ColNames
  <2>2. TypeOK
    BY DEF IInv, TypeInv
  <2>3. /\ work' \in Works /\ cols' \in Seq(Column)
        /\ \A j, k \in DOMAIN cols' : cols'[j].name = cols'[k].name => j = k
        /\ made' \in 0..MaxMade /\ key' \in Names \cup {NoKey} /\ rows' \in Seq(Row)
    BY <2>1, <2>2 DEF TypeOK
  <2>4. \A p \in DOMAIN rows' :
          Len(rows'[p]) <= Len(cols') \/ \E d \in Clients : pc'[d] = "slice"
    BY <1>2, <2>1, <2>2 DEF TypeOK
  <2>5. /\ idx' \in [Indexes -> Index]
        /\ \A i \in Indexes :
             /\ idx'[i].on \in Seq(ColNames')
             /\ \A e \in idx'[i].entries : DOMAIN e.key = DOMAIN idx'[i].on
    BY <2>1, <2>2 DEF TypeOK
  <2>6. QED
    BY <1>1, <2>3, <2>4, <2>5, Zenon DEF TypeOK
<1>5. StatementsTyped'
  BY <1>1 DEF IInv, TypeInv, StatementsTyped, table, Altering
<1>6. IndexesCurrent'
  BY <1>3, WorkSame DEF IInv, IndexesCurrent, table
<1>7. QED
  BY <1>4, <1>5, <1>6 DEF IInv, TypeInv

LEMMA PanicInv ==
  ASSUME IInv, work' = work, Panic
  PROVE  IInv'
<1>1. UNCHANGED <<cols, made, key, rows, idx, pc, stmt>> /\ down' \in BOOLEAN
  BY DEF Panic, table
<1>2. TypeOK'
  BY <1>1 DEF IInv, TypeInv, TypeOK, ColNames
<1>3. StatementsTyped'
  BY <1>1 DEF IInv, TypeInv, StatementsTyped
<1>4. IndexesCurrent'
  BY <1>1, WorkSame DEF IInv, IndexesCurrent, Rebuilding
<1>5. QED
  BY <1>2, <1>3, <1>4 DEF IInv, TypeInv

LEMMA BeginInsertInv ==
  ASSUME IInv, work' = work, NEW c \in Clients, NEW vals \in [1..Len(cols) -> Values],
         BeginInsert(c, vals)
  PROVE  IInv'
<1> DEFINE e(j) == [made |-> cols[j].made, val |-> vals[j]]
           row == [j \in DOMAIN cols |-> [made |-> cols[j].made, val |-> vals[j]]]
           what == [Blank EXCEPT !.row = row]
<1>1. \A j \in 1..Len(cols) : e(j) \in Cell
  BY Typed DEF IInv, Cell
<1>2. row \in Row
  <2> HIDE DEF e
  <2>1. [j \in 1..Len(cols) |-> e(j)] \in Seq(Cell)
    BY <1>1, Typed, IsASeq DEF IInv
  <2>2. QED
    BY <2>1, Typed DEF e, IInv, Row
<1> HIDE DEF row
<1>3. what \in Statement
  BY <1>2, BlankType DEF Statement
<1>4. QED
  BY <1>3, QuietStep DEF BeginInsert, Begin, Steps, Altering, IInv, TypeInv, TypeOK, row

LEMMA BeginUpdateInv ==
  ASSUME IInv, work' = work, NEW c \in Clients, NEW n \in Names, NEW v \in Values,
         NEW w \in work.wheres, BeginUpdate(c, n, v, w)
  PROVE  IInv'
<1> DEFINE at == Position(cols, n)
           what == [Blank EXCEPT !.at = at, !.made = cols[at].made, !.val = v, !.where = w]
<1>1. at \in DOMAIN cols /\ at \in Nat
  <2>1. n \in ColNames
    BY Zenon DEF BeginUpdate
  <2>2. cols \in Seq(Column) /\ DOMAIN cols \subseteq Nat
    BY Typed DEF IInv
  <2>3. QED
    BY <2>1, <2>2, PositionOfName DEF ColNames
<1>2. cols[at].made \in 1..MaxMade
  BY <1>1, Typed DEF IInv
<1>3. what \in Statement /\ what.made \in 1..MaxMade /\ what.val \in Values
  <2>1. cols[at].made \in 0..MaxMade
    BY <1>2, BoundsAssumption
  <2> HIDE DEF at
  <2>2. what.made = cols[at].made /\ what.val = v
    BY BlankType DEF Statement
  <2>3. what \in Statement
    <3>1. w \in Conditions
      BY WorksAssumption DEF IInv, TypeInv, TypeOK
    <3>2. QED
      BY <1>1, <2>1, <3>1, BlankType DEF Statement
  <2>4. QED
    BY <1>2, <2>2, <2>3
<1>4. Keep(c, what) /\ Goto(c, "update") /\ UNCHANGED <<table, down>>
  BY DEF BeginUpdate
<1> HIDE DEF what
<1>5. QED
  BY <1>3, <1>4, QuietStep DEF BeginUpdate, Begin, Steps, Altering, IInv, TypeInv, TypeOK

LEMMA BeginDeleteInv ==
  ASSUME IInv, work' = work, NEW c \in Clients, NEW w \in work.wheres, BeginDelete(c, w)
  PROVE  IInv'
<1> DEFINE what == [Blank EXCEPT !.where = w]
<1>1. what \in Statement
  <2>1. w \in Conditions
    BY WorksAssumption DEF IInv, TypeInv, TypeOK
  <2>2. QED
    BY <2>1, BlankType DEF Statement
<1>2. QED
  BY <1>1, QuietStep DEF BeginDelete, Begin, Steps, Altering, IInv, TypeInv, TypeOK

LEMMA RefuseInv ==
  ASSUME IInv, work' = work, NEW c \in Clients, Refuse(c), pc[c] \in {"update", "delete"}
  PROVE  IInv'
  BY BlankType, QuietStep
  DEF Refuse, Finish, Steps, Altering, IInv, TypeInv, TypeOK

----------------------------------------------------------------------------
(* Steps that change rows                                                  *)

\* What the end of a statement does to the clients.
LEMMA FinishIs ==
  ASSUME IInv, NEW c \in Clients, Finish(c)
  PROVE  /\ pc' \in [Clients -> Steps] /\ stmt' \in [Clients -> Statement]
         /\ pc'[c] = "idle"
         /\ \A d \in Clients : d # c => pc'[d] = pc[d] /\ stmt'[d] = stmt[d]
  BY BlankType DEF IInv, TypeInv, TypeOK, StatementsTyped, Finish, Goto, Keep, Steps

LEMMA InsertRowInv ==
  ASSUME IInv, work' = work, NEW c \in Clients, InsertRow(c)
  PROVE  IInv'
<1> DEFINE row == stmt[c].row
<1>1. row \in Row
  BY Typed DEF IInv, Statement
<1>2. /\ pc' \in [Clients -> Steps] /\ stmt' \in [Clients -> Statement]
      /\ pc'[c] = "idle" /\ pc[c] = "insert"
      /\ \A d \in Clients : d # c => pc'[d] = pc[d] /\ stmt'[d] = stmt[d]
      /\ UNCHANGED <<cols, made, key, down>>
  BY FinishIs DEF InsertRow, At
<1>3. Rebuilding => Rebuilding'
  BY <1>2 DEF Rebuilding, Altering
<1>4. (\E d \in Clients : pc[d] = "slice") => \E d \in Clients : pc'[d] = "slice"
  BY <1>2
<1>5. CASE UNCHANGED <<rows, idx>>
  <2>1. TypeOK'
    BY <1>2, <1>4, <1>5 DEF IInv, TypeInv, TypeOK, ColNames
  <2>2. StatementsTyped'
    BY <1>2, <1>5 DEF IInv, TypeInv, StatementsTyped
  <2>3. IndexesCurrent'
    BY <1>2, <1>3, <1>5, WorkSame DEF IInv, IndexesCurrent
  <2>4. QED
    BY <2>1, <2>2, <2>3 DEF IInv, TypeInv
<1>6. CASE /\ Len(row) = Len(cols)
           /\ rows' = Append(rows, row)
           /\ idx' = Grown(idx, row, Len(rows) + 1)
  <2>1. /\ rows' \in Seq(Row) /\ DOMAIN rows' = 1..(Len(rows) + 1)
        /\ \A p \in 1..Len(rows) : rows'[p] = rows[p]
        /\ rows'[Len(rows) + 1] = row
    <3>1. rows \in Seq(Row) /\ Len(rows) \in Nat
      BY Typed DEF IInv
    <3>2. QED
      BY <1>1, <1>6, <3>1, AppendProperties, LenProperties
  <2>2. \A p \in DOMAIN rows' : p \in DOMAIN rows \/ rows'[p] = row
    BY <2>1, Typed DEF IInv
  <2>3. ASSUME NEW i \in Indexes
        PROVE  /\ idx'[i] \in Index /\ idx'[i].on = idx[i].on
               /\ idx[i].on # <<>> /\ idx[i].entries = Rebuilt(cols, rows, idx[i].on)
                    => idx'[i].entries = Rebuilt(cols, rows', idx[i].on)
               /\ \A e \in idx'[i].entries : DOMAIN e.key = DOMAIN idx[i].on
    <3> DEFINE on == idx[i].on
               e == Entry(cols, row, on, Len(rows) + 1)
    <3>1. /\ idx[i] \in Index /\ on \in Seq(Names) /\ Len(rows) \in Nat
          /\ \A x \in idx[i].entries : DOMAIN x.key = DOMAIN on
      BY Typed DEF IInv, TypeInv, TypeOK, Index
    <3>2. Indexable(cols, row, on) =>
            e \in [key : Seq(Values), pos : Nat] /\ DOMAIN e.key = DOMAIN on
      BY <1>1, <3>1, KeyType DEF Entry
    <3>3. /\ idx'[i].on = on
          /\ idx'[i].entries = IF on # <<>> /\ Indexable(cols, row, on)
                                 THEN idx[i].entries \cup {e} ELSE idx[i].entries
          /\ idx'[i] = [idx[i] EXCEPT !.entries = idx'[i].entries]
      BY <1>6, <3>1 DEF Grown, Index
    <3> HIDE DEF e
    <3>4. idx'[i] \in Index
      BY <3>1, <3>2, <3>3 DEF Index
    <3>5. Rebuilt(cols, rows', on) =
            IF Indexable(cols, row, on) THEN Rebuilt(cols, rows, on) \cup {e}
            ELSE Rebuilt(cols, rows, on)
      BY <1>1, <1>6, RebuiltAppend, Typed DEF IInv, e
    <3>6. QED
      BY <3>1, <3>2, <3>3, <3>4, <3>5
  <2>4. idx' \in [Indexes -> Index]
    <3>1. \E f : idx' = [i \in Indexes |-> f[i]]
      <4> DEFINE f == [i \in Indexes |-> idx'[i]]
      <4>1. idx' = [i \in Indexes |-> f[i]]
        BY <1>6 DEF Grown
      <4>2. QED
        BY <4>1
    <3>2. QED
      BY <2>3, <3>1
  <2>5. TypeOK'
    <3>1. \A p \in DOMAIN rows' :
            Len(rows'[p]) <= Len(cols) \/ \E d \in Clients : pc'[d] = "slice"
      <4>1. \A p \in DOMAIN rows :
              Len(rows[p]) <= Len(cols) \/ \E d \in Clients : pc[d] = "slice"
        BY DEF IInv, TypeInv, TypeOK
      <4>2. Len(row) <= Len(cols)
        BY <1>6, Typed DEF IInv
      <4>3. \A p \in DOMAIN rows : rows'[p] = rows[p]
        BY <2>1, Typed DEF IInv
      <4>4. QED
        BY <1>4, <2>2, <4>1, <4>2, <4>3
    <3>2. \A i \in Indexes : idx'[i].on = idx[i].on
      BY <2>3
    <3>3. QED
      <4>1. ColNames' = ColNames
        BY <1>2 DEF ColNames
      <4>2. \A i \in Indexes :
              idx'[i].on \in Seq(ColNames)
              /\ \A e \in idx'[i].entries : DOMAIN e.key = DOMAIN idx'[i].on
        BY <2>3, Typed DEF IInv
      <4>3. QED
        BY <1>2, <2>1, <2>4, <3>1, <4>1, <4>2 DEF IInv, TypeInv, TypeOK
  <2>6. StatementsTyped'
    BY <1>2, <1>6, <2>1, <2>2, Typed DEF IInv, TypeInv, StatementsTyped
  <2>7. IndexesCurrent'
    BY <1>2, <1>3, <2>3, WorkSame DEF IInv, IndexesCurrent
  <2>8. QED
    BY <2>5, <2>6, <2>7 DEF IInv, TypeInv
<1>7. QED
  BY <1>5, <1>6 DEF InsertRow

\* A step after which the rebuild is due.
LEMMA ChangedInv ==
  ASSUME IInv, work' = work, NEW c \in Clients, Changed(c), rows' \in Seq(Row), pc[c] # "slice",
         \A p \in DOMAIN rows' : \E q \in DOMAIN rows : Len(rows'[p]) = Len(rows[q])
  PROVE  IInv'
<1>1. /\ pc' \in [Clients -> Steps] /\ stmt' \in [Clients -> Statement]
      /\ pc'[c] = "rebuild"
      /\ \A d \in Clients : d # c => pc'[d] = pc[d] /\ stmt'[d] = stmt[d]
      /\ UNCHANGED <<cols, made, key, idx, down>>
  BY BlankType
  DEF IInv, TypeInv, TypeOK, StatementsTyped, Changed, Goto, Keep, Steps
<1>2. (\E d \in Clients : pc[d] = "slice") => \E d \in Clients : pc'[d] = "slice"
  BY <1>1
<1>3. TypeOK'
  BY <1>1, <1>2 DEF IInv, TypeInv, TypeOK, ColNames
<1>4. StatementsTyped'
  BY <1>1 DEF IInv, TypeInv, StatementsTyped
<1>5. IndexesCurrent'
  BY <1>1 DEF IndexesCurrent, Rebuilding
<1>6. QED
  BY <1>3, <1>4, <1>5 DEF IInv, TypeInv

\* As long as no UPDATE stops midway, a condition that fails has selected no
\* row before.
LEMMA FailsAtOnce ==
  ASSUME IInv, WheresFit, Whole, NEW c \in Clients, pc[c] = "update",
         Failing(stmt[c].where) # {}
  PROVE  Selected(stmt[c].where) = {}
<1> DEFINE w == stmt[c].where
<1>1. w \in work.wheres /\ (Apart => Known(w))
  BY DEF WheresFit
<1> HIDE DEF w
<1>2. w # Everywhere /\ ~Known(w)
  BY DEF Failing, Known, w
<1>3. Len(w) = 1 /\ w \in Seq(Comparison)
  <2>1. \A where \in work.wheres : where = Everywhere \/ Len(where) = 1
    BY <1>1, <1>2, Zenon DEF Whole
  <2>2. w \in Conditions
    BY <1>1, WorksAssumption DEF IInv, TypeInv, TypeOK
  <2>3. QED
    BY <1>1, <1>2, <2>1, <2>2 DEF Conditions
<1>4. DOMAIN w = 1..1
  BY <1>3, LenProperties
<1>5. w[1].name \notin ColNames
  BY <1>2, <1>4 DEF Known
<1>6. Failing(w) = DOMAIN rows
  BY <1>2, <1>4, <1>5 DEF Failing
<1>7. \A p \in DOMAIN rows : ~(p < p)
  BY Typed DEF IInv
<1>8. QED
  BY <1>6, <1>7 DEF Selected, w

\* A step that ends a statement midway; if it has changed rows, some UPDATE
\* may stop midway.
LEMMA AbandonedInv ==
  ASSUME IInv, work' = work, NEW c \in Clients, Abandoned(c), rows' \in Seq(Row),
         pc[c] = "update", Whole => rows' = rows,
         \A p \in DOMAIN rows' : \E q \in DOMAIN rows : Len(rows'[p]) = Len(rows[q])
  PROVE  IInv'
<1>1. /\ pc' \in [Clients -> Steps] /\ stmt' \in [Clients -> Statement]
      /\ pc'[c] = "idle"
      /\ \A d \in Clients : d # c => pc'[d] = pc[d] /\ stmt'[d] = stmt[d]
      /\ UNCHANGED <<cols, made, key, idx, down>>
  BY FinishIs DEF Abandoned
<1>2. (\E d \in Clients : pc[d] = "slice") => \E d \in Clients : pc'[d] = "slice"
  BY <1>1
<1>3. Rebuilding => Rebuilding'
  BY <1>1 DEF Rebuilding, Altering
<1>4. TypeOK'
  BY <1>1, <1>2 DEF IInv, TypeInv, TypeOK, ColNames
<1>5. StatementsTyped'
  BY <1>1 DEF IInv, TypeInv, StatementsTyped
<1>6. IndexesCurrent'
  BY <1>1, <1>3, WorkSame DEF IInv, IndexesCurrent
<1>7. QED
  BY <1>4, <1>5, <1>6 DEF IInv, TypeInv

LEMMA UpdateRowsInv ==
  ASSUME IInv, WheresFit, work' = work, NEW c \in Clients, UpdateRows(c)
  PROVE  IInv'
<1> DEFINE s == stmt[c]
           hit == Selected(s.where)
           cell == [made |-> s.made, val |-> s.val]
           new(p) == IF p \in hit THEN [rows[p] EXCEPT ![s.at] = cell] ELSE rows[p]
<1>1. pc[c] = "update"
  BY DEF UpdateRows, At
<1>3. CASE Panic
  BY <1>3, PanicInv
<1>4. CASE /\ \A p \in hit : s.at \in DOMAIN rows[p]
           /\ rows' = [p \in DOMAIN rows |-> new(p)]
           /\ \/ Changed(c)
              \/ Failing(s.where) # {} /\ Abandoned(c)
  <2>1. cell \in Cell
    BY <1>1 DEF IInv, TypeInv, StatementsTyped, Cell
  <2>2. \A p \in DOMAIN rows : new(p) \in Row /\ Len(new(p)) = Len(rows[p])
    <3>1. TAKE p \in DOMAIN rows
    <3>2. rows[p] \in Seq(Cell) /\ DOMAIN rows[p] = 1..Len(rows[p])
      BY Typed DEF IInv, Row
    <3>3. CASE p \in hit
      <4>1. s.at \in 1..Len(rows[p])
        BY <1>4, <3>2, <3>3
      <4> HIDE DEF cell
      <4>2. /\ [rows[p] EXCEPT ![s.at] = cell] \in Seq(Cell)
            /\ Len([rows[p] EXCEPT ![s.at] = cell]) = Len(rows[p])
        BY <2>1, <3>2, <4>1, ExceptSeq
      <4>3. QED
        BY <3>3, <4>2 DEF Row
    <3>4. CASE p \notin hit
      BY <3>2, <3>4 DEF Row
    <3>5. QED
      BY <3>3, <3>4
  <2> HIDE DEF new
  <2>3. rows' \in Seq(Row) /\ DOMAIN rows' = DOMAIN rows
    <3>1. DOMAIN rows = 1..Len(rows) /\ Len(rows) \in Nat
      BY Typed DEF IInv
    <3>2. [p \in 1..Len(rows) |-> new(p)] \in Seq(Row)
      BY <2>2, <3>1, IsASeq
    <3>3. QED
      BY <1>4, <3>1, <3>2
  <2>4. \A p \in DOMAIN rows' : Len(rows'[p]) = Len(rows[p])
    BY <1>4, <2>2, <2>3
  <2>5. CASE Changed(c)
    BY <1>1, <2>3, <2>4, <2>5, ChangedInv
  <2>6. CASE Failing(s.where) # {} /\ Abandoned(c)
    <3>1. ASSUME Whole PROVE rows' = rows
      <4>1. hit = {}
        BY <1>1, <2>6, <3>1, FailsAtOnce
      <4>2. \A p \in DOMAIN rows : new(p) = rows[p]
        BY <4>1 DEF new
      <4>3. rows = [p \in DOMAIN rows |-> rows[p]]
        BY Typed DEF IInv
      <4>4. QED
        BY <1>4, <4>2, <4>3
    <3>2. QED
      BY <1>1, <2>3, <2>4, <2>6, <3>1, AbandonedInv
  <2>7. QED
    BY <1>4, <2>5, <2>6
<1>5. QED
  BY <1>3, <1>4 DEF UpdateRows

LEMMA DeleteRowsInv ==
  ASSUME IInv, work' = work, NEW c \in Clients, DeleteRows(c)
  PROVE  IInv'
<1>1. pc[c] = "delete"
  BY DEF DeleteRows, At
<1>2. CASE Refuse(c)
  BY <1>1, <1>2, RefuseInv
<1>3. CASE Panic
  BY <1>3, PanicInv
<1>4. CASE KeepRows(DOMAIN rows \ Selected(stmt[c].where)) /\ Changed(c)
  <2>0. PICK n \in 0..Len(rows) :
          \E from \in [1..n -> DOMAIN rows \ Selected(stmt[c].where)] :
            rows' = [p \in 1..n |-> rows[from[p]]]
    BY <1>4 DEF KeepRows
  <2>1. PICK from \in [1..n -> DOMAIN rows] : rows' = [p \in 1..n |-> rows[from[p]]]
    BY <2>0
  <2> DEFINE new(p) == rows[from[p]]
  <2>2. n \in Nat /\ \A p \in 1..n : new(p) \in Row
    BY <2>0, <2>1, Typed DEF IInv
  <2> HIDE DEF new
  <2>3. [p \in 1..n |-> new(p)] \in Seq(Row)
    BY <2>2, IsASeq
  <2>4. rows' \in Seq(Row) /\ DOMAIN rows' = 1..n /\ \A p \in 1..n : rows'[p] = rows[from[p]]
    BY <2>1, <2>3 DEF new
  <2>5. \A p \in DOMAIN rows' : \E q \in DOMAIN rows : Len(rows'[p]) = Len(rows[q])
    BY <2>1, <2>4
  <2>6. QED
    BY <1>1, <1>4, <2>4, <2>5, ChangedInv
<1>5. QED
  BY <1>2, <1>3, <1>4 DEF DeleteRows

----------------------------------------------------------------------------
(* Steps that change indexes and columns                                   *)

LEMMA RebuildInv ==
  ASSUME IInv, work' = work, NEW c \in Clients, Rebuild(c)
  PROVE  IInv'
<1>1. /\ pc' \in [Clients -> Steps] /\ stmt' \in [Clients -> Statement]
      /\ pc'[c] = "idle" /\ pc[c] # "slice"
      /\ \A d \in Clients : d # c => pc'[d] = pc[d] /\ stmt'[d] = stmt[d]
      /\ UNCHANGED <<cols, made, key, rows, down>>
      /\ idx' = Reindexed(cols, rows, idx)
  BY FinishIs DEF Rebuild, At
<1>2. (\E d \in Clients : pc[d] = "slice") => \E d \in Clients : pc'[d] = "slice"
  BY <1>1
<1>3. idx \in [Indexes -> Index] /\ rows \in Seq(Row)
      /\ \A i \in Indexes : idx[i].on \in Seq(ColNames)
  BY DEF IInv, TypeInv, TypeOK
<1>4. CurrentFor(cols, rows, idx', ColNames)
  BY <1>1, <1>3, ReindexedIs, Typed DEF IInv
<1>5. TypeOK'
  <2>1. ColNames' = ColNames
    BY <1>1 DEF ColNames
  <2>2. QED
    BY <1>1, <1>2, <1>4, <2>1 DEF IInv, TypeInv, TypeOK, CurrentFor
<1>6. StatementsTyped'
  BY <1>1 DEF IInv, TypeInv, StatementsTyped
<1>7. IndexesCurrent'
  BY <1>1, <1>4 DEF IndexesCurrent, CurrentFor
<1>8. QED
  BY <1>5, <1>6, <1>7 DEF IInv, TypeInv

LEMMA CreateIndexInv ==
  ASSUME IInv, work' = work, NEW c \in Clients, NEW i \in Indexes, NEW on \in ColumnLists,
         CreateIndex(c, i, on)
  PROVE  IInv'
<1> DEFINE ix == [idx EXCEPT ![i].on = on]
<1>1. on \in Seq(ColNames)
  <2>1. CASE \E n \in ColNames : on = <<n>>
    BY <2>1
  <2>2. CASE on \in ColNames \X ColNames
    <3>1. PICK m \in ColNames, n \in ColNames : on = <<m, n>>
      BY <2>2
    <3>2. QED
      BY <3>1
  <2>3. QED
    BY <2>1, <2>2 DEF ColumnLists
<1>2. idx \in [Indexes -> Index] /\ rows \in Seq(Row)
      /\ \A j \in Indexes : idx[j].on \in Seq(ColNames)
  BY DEF IInv, TypeInv, TypeOK
<1>3. on \in Seq(Names)
  BY <1>1, Typed, SeqMonotonic DEF IInv
<1>4. ix \in [Indexes -> Index] /\ \A j \in Indexes : ix[j].on \in Seq(ColNames)
  <2>1. [idx[i] EXCEPT !.on = on] \in Index /\ [idx[i] EXCEPT !.on = on].on = on
    BY <1>2, <1>3 DEF Index
  <2>2. ix = [idx EXCEPT ![i] = [idx[i] EXCEPT !.on = on]]
    OBVIOUS
  <2>3. QED
    BY <1>1, <1>2, <2>1, <2>2
<1> HIDE DEF ix
<1>5. /\ idx' = Reindexed(cols, rows, ix)
      /\ UNCHANGED <<cols, made, key, rows, down, pc, stmt>>
  BY DEF CreateIndex, ix
<1>6. CurrentFor(cols, rows, idx', ColNames)
  BY <1>2, <1>4, <1>5, ReindexedIs, Typed DEF IInv
<1>7. TypeOK'
  <2>1. ColNames' = ColNames
    BY <1>5 DEF ColNames
  <2>2. QED
    BY <1>5, <1>6, <2>1 DEF IInv, TypeInv, TypeOK, CurrentFor
<1>8. StatementsTyped'
  BY <1>5 DEF IInv, TypeInv, StatementsTyped
<1>9. IndexesCurrent'
  BY <1>5, <1>6 DEF IndexesCurrent, CurrentFor
<1>10. QED
  BY <1>7, <1>8, <1>9 DEF IInv, TypeInv

LEMMA DropIndexInv ==
  ASSUME IInv, work' = work, NEW c \in Clients, NEW i \in Indexes, DropIndex(c, i)
  PROVE  IInv'
<1>1. /\ NoIndex \in Index /\ NoIndex.on \in Seq(ColNames)
      /\ NoIndex.entries = {} /\ NoIndex.on = <<>>
  BY EmptySeq DEF NoIndex, Index
<1>2. /\ idx' = [idx EXCEPT ![i] = NoIndex] /\ idx \in [Indexes -> Index]
      /\ UNCHANGED <<cols, made, key, rows, down, pc, stmt>>
  BY DEF DropIndex, IInv, TypeInv, TypeOK
<1>3. \A j \in Indexes : idx'[j] = idx[j] \/ idx'[j] = NoIndex
  BY <1>2
<1>4. TypeOK'
  <2>1. ColNames' = ColNames
    BY <1>2 DEF ColNames
  <2>2. idx' \in [Indexes -> Index]
    BY <1>1, <1>2
  <2>3. QED
    BY <1>1, <1>2, <1>3, <2>1, <2>2 DEF IInv, TypeInv, TypeOK
<1>5. StatementsTyped'
  BY <1>2 DEF IInv, TypeInv, StatementsTyped
<1>6. IndexesCurrent'
  BY <1>1, <1>2, <1>3, WorkSame DEF IInv, IndexesCurrent, Rebuilding
<1>7. QED
  BY <1>4, <1>5, <1>6 DEF IInv, TypeInv

\* Columns at the same positions give the same entries.
LEMMA SameEntries ==
  ASSUME NEW cs, NEW ds, NEW rs, NEW on,
         \A k \in DOMAIN on : Position(cs, on[k]) = Position(ds, on[k])
  PROVE  Rebuilt(cs, rs, on) = Rebuilt(ds, rs, on)
<1>1. \A row : Indexable(cs, row, on) <=> Indexable(ds, row, on)
  BY DEF Indexable, Has
<1>2. \A row : KeyOf(cs, row, on) = KeyOf(ds, row, on)
  BY DEF KeyOf
<1>3. \A row, p : Entry(cs, row, on, p) = Entry(ds, row, on, p)
  BY <1>2 DEF Entry
<1>4. QED
  BY <1>1, <1>3, Zenon DEF Rebuilt

LEMMA AddColumnInv ==
  ASSUME IInv, work' = work, NEW c \in Clients, NEW n \in Names, NEW keyed \in BOOLEAN,
         AddColumn(c, n, keyed)
  PROVE  IInv'
<1> DEFINE col == [name |-> n, made |-> made + 1]
<1>0. UNCHANGED <<rows, idx, down, pc, stmt>> /\ key' \in {key, n}
  BY DEF AddColumn
<1>1. col \in Column /\ made' \in 0..MaxMade
  BY BoundsAssumption DEF AddColumn, IInv, TypeInv, TypeOK, Column
<1>2. /\ cols' \in Seq(Column) /\ Len(cols') = Len(cols) + 1
      /\ DOMAIN cols' = 1..(Len(cols) + 1)
      /\ \A j \in 1..Len(cols) : cols'[j] = cols[j]
      /\ cols'[Len(cols) + 1] = col
  <2> HIDE DEF col
  <2>1. cols' = Append(cols, col)
    BY DEF AddColumn, col
  <2>2. QED
    BY <1>1, <2>1, Typed, AppendProperties, LenProperties DEF IInv
<1>3. DOMAIN cols \subseteq DOMAIN cols' /\ \A j \in DOMAIN cols : cols'[j] = cols[j]
  BY <1>2, Typed DEF IInv
<1>4. \A j \in DOMAIN cols' : j \in DOMAIN cols \/ (j = Len(cols) + 1 /\ cols'[j].name = n)
  BY <1>2, Typed DEF IInv
<1>5. DistinctNames(cols')
  BY <1>3, <1>4, Typed DEF AddColumn, ColNames, DistinctNames, IInv
<1>6. ColNames \subseteq ColNames'
  BY <1>3 DEF ColNames
<1>7. \A m \in ColNames : Position(cols', m) = Position(cols, m)
  <2>1. TAKE m \in ColNames
  <2>2. PICK j \in DOMAIN cols : cols[j].name = m
    BY DEF ColNames
  <2>3. Position(cols, m) = j
    BY <2>2, PositionFound, Typed DEF IInv
  <2>4. Position(cols', m) = j
    BY <1>3, <1>5, <2>2, PositionFound
  <2>5. QED
    BY <2>3, <2>4
<1>8. TypeOK'
  <2>1. \A i \in Indexes : idx'[i].on \in Seq(ColNames')
    BY <1>0, <1>6, Typed, SeqMonotonic DEF IInv
  <2>2. \A p \in DOMAIN rows :
          Len(rows[p]) <= Len(cols') \/ \E d \in Clients : pc[d] = "slice"
    BY <1>2, Typed DEF IInv, TypeInv, TypeOK
  <2>3. \A j, k \in DOMAIN cols' : cols'[j].name = cols'[k].name => j = k
    BY <1>5 DEF DistinctNames
  <2>4. QED
    BY <1>0, <1>1, <1>2, <2>1, <2>2, <2>3 DEF IInv, TypeInv, TypeOK
<1>9. StatementsTyped'
  <2>1. Len(cols) \in Nat /\ Len(cols') = Len(cols) + 1
        /\ \A p \in DOMAIN rows : Len(rows[p]) \in Nat
    BY <1>2, Typed DEF IInv
  <2>2. QED
    BY <1>0, <2>1 DEF IInv, TypeInv, StatementsTyped
<1>10. IndexesCurrent'
  <2>1. ASSUME NEW i \in Indexes
        PROVE  Rebuilt(cols', rows, idx[i].on) = Rebuilt(cols, rows, idx[i].on)
    <3>1. \A k \in DOMAIN idx[i].on : idx[i].on[k] \in ColNames
      BY Typed, LenProperties, ElementOfSeq DEF IInv
    <3>2. \A k \in DOMAIN idx[i].on :
            Position(cols', idx[i].on[k]) = Position(cols, idx[i].on[k])
      BY <1>7, <3>1
    <3>3. QED
      BY <3>2, SameEntries
  <2>2. QED
    BY <1>0, <2>1, WorkSame DEF IInv, IndexesCurrent, Rebuilding
<1>11. QED
  BY <1>8, <1>9, <1>10 DEF IInv, TypeInv

LEMMA DropColumnInv ==
  ASSUME IInv, work' = work, NEW c \in Clients, NEW n \in Names, DropColumn(c, n)
  PROVE  IInv'
<1> DEFINE at == Position(cols, n)
           what == [Blank EXCEPT !.at = at]
<1>1. at \in 1..Len(cols) /\ cols[at].name = n /\ Len(cols) \in Nat
  BY Typed, PositionOfName DEF DropColumn, ColNames, IInv
<1>2. what \in Statement /\ what.at = at
  BY <1>1, BlankType DEF Statement
<1>3. /\ pc' \in [Clients -> Steps] /\ stmt' \in [Clients -> Statement]
      /\ pc'[c] = "slice" /\ stmt'[c] = what
      /\ \A d \in Clients : d # c => pc'[d] = pc[d] /\ stmt'[d] = stmt[d]
      /\ \A d \in Clients : pc[d] # "slice"
      /\ UNCHANGED <<made, key, rows, down>>
  BY <1>2 DEF DropColumn, BeginAlter, Begin, CatalogFree, Altering, Goto, Keep, Steps,
              IInv, TypeInv, TypeOK, StatementsTyped
<1> HIDE DEF what, at
<1>4. /\ cols' \in Seq(Column) /\ Len(cols') = Len(cols) - 1
      /\ DOMAIN cols' = 1..(Len(cols) - 1)
      /\ \A j \in 1..(Len(cols) - 1) : cols'[j] = IF j < at THEN cols[j] ELSE cols[j + 1]
  <2>1. cols' = RemoveAt(cols, at)
    BY DEF DropColumn, at
  <2>2. cols \in Seq(Column)
    BY Typed DEF IInv
  <2>3. /\ RemoveAt(cols, at) \in Seq(Column)
        /\ Len(RemoveAt(cols, at)) = Len(cols) - 1
        /\ \A j \in 1..(Len(cols) - 1) :
             RemoveAt(cols, at)[j] = IF j < at THEN cols[j] ELSE cols[j + 1]
    BY <1>1, <2>2, RemoveAtProperties
  <2>4. QED
    BY <2>1, <2>3, LenProperties
<1>5. \A j, k \in DOMAIN cols' : cols'[j].name = cols'[k].name => j = k
  <2>1. TAKE j, k \in DOMAIN cols'
  <2>2. HAVE cols'[j].name = cols'[k].name
  <2> DEFINE f(x) == IF x < at THEN x ELSE x + 1
  <2>3. /\ f(j) \in DOMAIN cols /\ cols'[j] = cols[f(j)]
        /\ f(k) \in DOMAIN cols /\ cols'[k] = cols[f(k)]
    BY <1>1, <1>4, Typed DEF IInv
  <2>4. f(j) = f(k)
    <3> HIDE DEF f
    <3>1. QED
      BY <2>2, <2>3, Typed DEF DistinctNames, IInv
  <2>5. QED
    BY <1>1, <1>4, <2>4
<1>6. ColNames \ {n} \subseteq ColNames'
  <2>1. SUFFICES ASSUME NEW m \in ColNames, m # n PROVE m \in ColNames'
    OBVIOUS
  <2>2. PICK j \in DOMAIN cols : cols[j].name = m
    BY DEF ColNames
  <2>3. j \in 1..Len(cols) /\ j # at
    BY <1>1, <2>1, <2>2, Typed DEF IInv
  <2>4. \E k \in DOMAIN cols' : cols'[k] = cols[j]
    <3>1. CASE j < at
      BY <1>1, <1>4, <2>3, <3>1
    <3>2. CASE ~(j < at)
      <4>1. /\ j - 1 \in 1..(Len(cols) - 1) /\ ~(j - 1 < at) /\ (j - 1) + 1 = j
        BY <1>1, <2>3, <3>2
      <4>2. QED
        BY <1>4, <4>1
    <3>3. QED
      BY <3>1, <3>2
  <2>5. QED
    BY <2>2, <2>4 DEF ColNames
<1>7. ASSUME NEW i \in Indexes
      PROVE  /\ idx'[i] \in Index /\ idx'[i].on \in Seq(ColNames')
             /\ \A e \in idx'[i].entries : DOMAIN e.key = DOMAIN idx'[i].on
  <2>0. idx'[i] = IF \E k \in DOMAIN idx[i].on : idx[i].on[k] = n THEN NoIndex ELSE idx[i]
    BY DEF DropColumn
  <2>1. CASE idx'[i] = NoIndex
    <3>1. NoIndex \in Index /\ NoIndex.on \in Seq(ColNames') /\ NoIndex.entries = {}
      BY EmptySeq DEF NoIndex, Index
    <3>2. QED
      BY <2>1, <3>1
  <2>2. CASE idx'[i] = idx[i] /\ \A k \in DOMAIN idx[i].on : idx[i].on[k] # n
    <3>1. idx[i].on \in Seq(ColNames) /\ idx[i] \in Index
      BY Typed DEF IInv
    <3>2. \A k \in 1..Len(idx[i].on) : idx[i].on[k] \in ColNames'
      BY <1>6, <2>2, <3>1, LenProperties, ElementOfSeq
    <3>3. idx[i].on \in [1..Len(idx[i].on) -> ColNames'] /\ Len(idx[i].on) \in Nat
      BY <3>1, <3>2, LenProperties
    <3>4. idx[i].on \in Seq(ColNames')
      BY <3>3, SeqDef
    <3>5. QED
      BY <2>2, <3>1, <3>4 DEF IInv, TypeInv, TypeOK
  <2>3. QED
    BY <2>0, <2>1, <2>2
<1>8. TypeOK'
  <2>1. idx' \in [Indexes -> Index]
    <3>1. DOMAIN idx' = Indexes /\ idx' = [i \in DOMAIN idx' |-> idx'[i]]
      BY DEF DropColumn
    <3>2. QED
      BY <1>7, <3>1
  <2>2. QED
    BY <1>3, <1>4, <1>5, <1>7, <2>1 DEF IInv, TypeInv, TypeOK
<1>9. StatementsTyped'
  <2>1. \A p \in DOMAIN rows : Len(rows[p]) <= Len(cols)
    BY <1>3 DEF IInv, TypeInv, TypeOK
  <2>2. (Len(cols) - 1) + 1 = Len(cols) /\ Len(cols') + 1 = Len(cols)
    BY <1>1, <1>4
  <2>3. QED
    BY <1>1, <1>2, <1>3, <2>1, <2>2 DEF IInv, TypeInv, StatementsTyped
<1>10. IndexesCurrent'
  BY <1>3 DEF IndexesCurrent, Rebuilding, Altering
<1>11. QED
  BY <1>8, <1>9, <1>10 DEF IInv, TypeInv

LEMMA SliceRowsInv ==
  ASSUME IInv, work' = work, NEW c \in Clients, SliceRows(c)
  PROVE  IInv'
<1> DEFINE at == stmt[c].at
           new(p) == IF at \in DOMAIN rows[p] THEN RemoveAt(rows[p], at) ELSE rows[p]
<1>1. /\ pc' \in [Clients -> Steps] /\ stmt' \in [Clients -> Statement]
      /\ pc'[c] = "idle"
      /\ \A d \in Clients : d # c => pc'[d] = pc[d] /\ stmt'[d] = stmt[d]
      /\ UNCHANGED <<cols, made, key, down>>
  BY FinishIs DEF SliceRows
<1>2. /\ at \in 1..(Len(cols) + 1) /\ Len(cols) \in Nat
      /\ \A p \in DOMAIN rows : Len(rows[p]) <= Len(cols) + 1
  BY Typed DEF SliceRows, At, IInv, TypeInv, StatementsTyped
<1> HIDE DEF at
<1>3. ASSUME NEW p \in DOMAIN rows
      PROVE  new(p) \in Row /\ Len(new(p)) \in Nat /\ Len(new(p)) <= Len(cols)
  <2>1. rows[p] \in Seq(Cell) /\ Len(rows[p]) \in Nat /\ DOMAIN rows[p] = 1..Len(rows[p])
    BY Typed DEF IInv, Row
  <2>2. CASE at \in DOMAIN rows[p]
    <3>1. at \in 1..Len(rows[p])
      BY <2>1, <2>2
    <3>2. /\ RemoveAt(rows[p], at) \in Seq(Cell)
          /\ Len(RemoveAt(rows[p], at)) = Len(rows[p]) - 1
      BY <2>1, <3>1, RemoveAtProperties
    <3>3. QED
      BY <1>2, <2>1, <2>2, <3>1, <3>2 DEF Row
  <2>3. CASE at \notin DOMAIN rows[p]
    BY <1>2, <2>1, <2>3 DEF Row
  <2>4. QED
    BY <2>2, <2>3
<1>4. /\ rows' \in Seq(Row) /\ DOMAIN rows' = DOMAIN rows
      /\ \A p \in DOMAIN rows : Len(rows'[p]) \in Nat /\ Len(rows'[p]) <= Len(cols)
  <2>1. rows' = [p \in DOMAIN rows |-> new(p)]
    BY DEF SliceRows, at
  <2>2. DOMAIN rows = 1..Len(rows) /\ Len(rows) \in Nat
    BY Typed DEF IInv
  <2> HIDE DEF new
  <2>3. [p \in 1..Len(rows) |-> new(p)] \in Seq(Row)
    BY <1>3, <2>2, IsASeq
  <2>4. QED
    BY <1>3, <2>1, <2>2, <2>3
<1>5. CurrentFor(cols, rows', idx', ColNames)
  <2>1. idx' = Reindexed(cols, rows', idx)
    BY DEF SliceRows
  <2>2. idx \in [Indexes -> Index] /\ \A i \in Indexes : idx[i].on \in Seq(ColNames)
    BY DEF IInv, TypeInv, TypeOK
  <2>3. QED
    BY <1>4, <2>1, <2>2, ReindexedIs, Typed DEF IInv
<1>6. TypeOK'
  <2>1. ColNames' = ColNames
    BY <1>1 DEF ColNames
  <2>2. QED
    BY <1>1, <1>4, <1>5, <2>1 DEF IInv, TypeInv, TypeOK, CurrentFor
<1>7. StatementsTyped'
  <2>1. \A p \in DOMAIN rows' : Len(rows'[p]) <= Len(cols) + 1
    BY <1>2, <1>4
  <2>2. QED
    BY <1>1, <2>1 DEF IInv, TypeInv, StatementsTyped
<1>8. IndexesCurrent'
  BY <1>1, <1>5 DEF IndexesCurrent, CurrentFor
<1>9. QED
  BY <1>6, <1>7, <1>8 DEF IInv, TypeInv

LEMMA RenameColumnInv ==
  ASSUME IInv, work' = work, NEW c \in Clients, NEW m \in Names, NEW n \in Names,
         RenameColumn(c, m, n)
  PROVE  IInv'
<1> DEFINE at == Position(cols, m)
           col == [cols[at] EXCEPT !.name = n]
           to(x) == IF x = m THEN n ELSE x
<1>1. at \in 1..Len(cols) /\ cols[at].name = m /\ n \notin ColNames
  BY Typed, PositionOfName DEF RenameColumn, ColNames, IInv
<1>2. /\ pc' \in [Clients -> Steps] /\ pc'[c] = "rename" /\ pc[c] = "idle"
      /\ \A d \in Clients : d # c => pc'[d] = pc[d]
      /\ UNCHANGED <<made, key, rows, down, stmt>>
  BY DEF RenameColumn, BeginAlter, Begin, Goto, Steps, Altering, IInv, TypeInv, TypeOK
<1>3. col \in Column /\ col.name = n /\ cols \in Seq(Column)
  <2>1. cols \in Seq(Column)
    BY Typed DEF IInv
  <2>2. cols[at] \in Column
    BY <1>1, <2>1, ElementOfSeq
  <2>3. QED
    BY <2>1, <2>2 DEF Column
<1>4. cols' = [cols EXCEPT ![at] = col]
  BY DEF RenameColumn
<1> HIDE DEF at, col
<1>5. /\ cols' \in Seq(Column) /\ Len(cols') = Len(cols) /\ DOMAIN cols' = DOMAIN cols
      /\ \A j \in DOMAIN cols : cols'[j] = IF j = at THEN col ELSE cols[j]
  <2>1. /\ cols' \in Seq(Column) /\ Len(cols') = Len(cols)
        /\ \A j \in 1..Len(cols) : cols'[j] = IF j = at THEN col ELSE cols[j]
    BY <1>1, <1>3, <1>4, ExceptSeq
  <2>2. QED
    BY <1>3, <2>1, LenProperties
<1>6. \A j, k \in DOMAIN cols' : cols'[j].name = cols'[k].name => j = k
  BY <1>1, <1>3, <1>5, Typed DEF DistinctNames, ColNames, IInv
<1>7. \A x \in ColNames : to(x) \in ColNames'
  <2>1. TAKE x \in ColNames
  <2>2. PICK j \in DOMAIN cols : cols[j].name = x
    BY DEF ColNames
  <2>3. cols'[j].name = to(x)
    <3>1. at \in DOMAIN cols
      BY <1>1, Typed DEF IInv
    <3>2. j = at <=> x = m
      BY <1>1, <2>2, <3>1, Typed DEF DistinctNames, IInv
    <3>3. QED
      BY <1>3, <1>5, <2>2, <3>2
  <2>4. QED
    BY <1>5, <2>2, <2>3 DEF ColNames
<1>8. ASSUME NEW i \in Indexes
      PROVE  /\ idx'[i] \in Index /\ idx'[i].on \in Seq(ColNames')
             /\ \A e \in idx'[i].entries : DOMAIN e.key = DOMAIN idx'[i].on
  <2> DEFINE on == idx[i].on
             new(k) == to(on[k])
  <2>1. /\ idx[i] \in Index /\ on \in Seq(ColNames) /\ Len(on) \in Nat
        /\ DOMAIN on = 1..Len(on) /\ \A k \in 1..Len(on) : on[k] \in ColNames
        /\ \A e \in idx[i].entries : DOMAIN e.key = DOMAIN on
    BY Typed, LenProperties, ElementOfSeq DEF IInv, TypeInv, TypeOK
  <2>2. idx'[i] = [idx[i] EXCEPT !.on = [k \in DOMAIN on |-> new(k)]]
    BY DEF RenameColumn
  <2>3. \A k \in 1..Len(on) : new(k) \in ColNames' /\ new(k) \in Names
    BY <1>7, <2>1, Typed DEF IInv
  <2> HIDE DEF new, on
  <2>4. [k \in 1..Len(on) |-> new(k)] \in Seq(ColNames')
    BY <2>1, <2>3, IsASeq
  <2>5. [k \in 1..Len(on) |-> new(k)] \in Seq(Names)
    BY <2>1, <2>3, IsASeq
  <2>6. /\ idx'[i].on = [k \in 1..Len(on) |-> new(k)]
        /\ idx'[i].entries = idx[i].entries /\ idx'[i] \in Index
    BY <2>1, <2>2, <2>5 DEF Index
  <2>7. QED
    BY <2>1, <2>4, <2>6
<1>9. TypeOK'
  <2>1. idx' \in [Indexes -> Index]
    <3>1. DOMAIN idx' = Indexes /\ idx' = [i \in DOMAIN idx' |-> idx'[i]]
      BY DEF RenameColumn
    <3>2. QED
      BY <1>8, <3>1
  <2>2. \A p \in DOMAIN rows :
          Len(rows[p]) <= Len(cols') \/ \E d \in Clients : pc'[d] = "slice"
    <3>1. (\E d \in Clients : pc[d] = "slice") => \E d \in Clients : pc'[d] = "slice"
      BY <1>2
    <3>2. QED
      BY <1>5, <3>1 DEF IInv, TypeInv, TypeOK
  <2>3. QED
    BY <1>2, <1>5, <1>6, <1>8, <2>1, <2>2 DEF IInv, TypeInv, TypeOK
<1>10. StatementsTyped'
  BY <1>2, <1>5 DEF IInv, TypeInv, StatementsTyped
<1>11. IndexesCurrent'
  BY <1>2 DEF IndexesCurrent, Rebuilding, Altering
<1>12. QED
  BY <1>9, <1>10, <1>11 DEF IInv, TypeInv

LEMMA NextInv == IInv /\ WheresFit /\ [Next]_vars => IInv'
<1> SUFFICES ASSUME IInv, WheresFit, [Next]_vars PROVE IInv'
  OBVIOUS
<1>1. ASSUME work' = work, NEW c \in Clients, Start(c) PROVE IInv'
  BY <1>1, BeginInsertInv, BeginUpdateInv, BeginDeleteInv, CreateIndexInv,
     DropIndexInv, AddColumnInv, DropColumnInv, RenameColumnInv DEF Start
<1>2. ASSUME work' = work, NEW c \in Clients, Continue(c) PROVE IInv'
  BY <1>2, InsertRowInv, UpdateRowsInv, DeleteRowsInv, RebuildInv, SliceRowsInv
  DEF Continue
<1>3. CASE UNCHANGED vars
  <2>1. UNCHANGED <<work, cols, made, key, rows, idx, down, pc, stmt>>
    BY <1>3 DEF vars
  <2>2. ColNames' = ColNames
    BY <2>1 DEF ColNames
  <2>3. TypeOK' /\ StatementsTyped'
    BY <2>1, <2>2 DEF IInv, TypeInv, TypeOK, StatementsTyped
  <2>4. IndexesCurrent'
    BY <2>1, WorkSame DEF IInv, IndexesCurrent, Rebuilding
  <2>5. QED
    BY <2>3, <2>4 DEF IInv, TypeInv
<1>4. QED
  BY <1>1, <1>2, <1>3 DEF Next

\* An UPDATE that has begun keeps its condition, and while ALTER TABLE is kept
\* apart the columns do not change under it.
LEMMA WheresInit == Init => WheresFit
  BY DEF Init, WheresFit

LEMMA WheresNext == IInv /\ WheresFit /\ [Next]_vars => WheresFit'
<1> SUFFICES ASSUME IInv, WheresFit, [Next]_vars PROVE WheresFit'
  OBVIOUS
<1>0. pc \in [Clients -> Steps] /\ stmt \in [Clients -> Statement]
  BY DEF IInv, TypeInv, TypeOK, StatementsTyped
<1>1. ASSUME NEW c \in Clients, work' = work, cols' = cols,
             \A d \in Clients : d # c => pc'[d] = pc[d] /\ stmt'[d] = stmt[d],
             pc'[c] = "update" => /\ stmt'[c].where \in work.wheres
                                  /\ Known(stmt'[c].where)
      PROVE  WheresFit'
  <2>1. ColNames' = ColNames
    BY <1>1 DEF ColNames
  <2>2. QED
    BY <1>1, <2>1, WorkSame DEF WheresFit, Known
<1>2. ASSUME NEW c \in Clients, work' = work, stmt' = stmt \/ pc'[c] = "slice",
             \A d \in Clients : d # c => pc'[d] = pc[d] /\ stmt'[d] = stmt[d],
             pc'[c] # "update", Apart => \A d \in Clients : pc[d] = "idle"
      PROVE  WheresFit'
  BY <1>2, WorkSame DEF WheresFit
<1>3. ASSUME work' = work, NEW c \in Clients, Start(c) PROVE WheresFit'
  <2>1. CASE \E vals \in [1..Len(cols) -> Values] : BeginInsert(c, vals)
    BY <1>0, <1>1, <1>3, <2>1 DEF BeginInsert, Goto, Keep, table
  <2>2. ASSUME NEW n \in Names, NEW v \in Values, NEW w \in work.wheres,
               BeginUpdate(c, n, v, w)
        PROVE  WheresFit'
    <3> DEFINE at == Position(cols, n)
    <3>1. stmt'[c] = [Blank EXCEPT !.at = at, !.made = cols[at].made, !.val = v, !.where = w]
      BY <1>0, <2>2 DEF BeginUpdate, Keep
    <3> HIDE DEF at
    <3>2. stmt'[c].where = w
      BY <3>1 DEF Blank
    <3>3. QED
      BY <1>0, <1>1, <1>3, <2>2, <3>2 DEF BeginUpdate, Goto, Keep, table
  <2>3. CASE \E w \in work.wheres : BeginDelete(c, w)
    BY <1>0, <1>1, <1>3, <2>3 DEF BeginDelete, Goto, Keep, table
  <2>4. CASE \E i \in Indexes : DropIndex(c, i) \/ \E on \in ColumnLists : CreateIndex(c, i, on)
    <3>1. UNCHANGED <<cols, pc, stmt>> /\ pc[c] = "idle"
      BY <2>4 DEF DropIndex, CreateIndex, BeginAlter, Begin
    <3>2. QED
      BY <1>1, <1>3, <3>1
  <2>5. ASSUME NEW n \in Names, NEW keyed \in BOOLEAN, AddColumn(c, n, keyed)
        PROVE  WheresFit'
    <3>1. UNCHANGED <<pc, stmt>> /\ BeginAlter(c, "add")
      BY <2>5 DEF AddColumn
    <3>2. QED
      BY <1>2, <1>3, <3>1 DEF BeginAlter, Begin, Apart
  <2>6. ASSUME NEW n \in Names, DropColumn(c, n)
        PROVE  WheresFit'
    <3>1. BeginAlter(c, "drop column") /\ Goto(c, "slice")
          /\ \A d \in Clients : d # c => stmt'[d] = stmt[d]
      BY <1>0, <2>6 DEF DropColumn, Keep
    <3>2. QED
      BY <1>0, <1>2, <1>3, <3>1 DEF BeginAlter, Goto, Apart
  <2>7. ASSUME NEW m \in Names, NEW n \in Names, RenameColumn(c, m, n)
        PROVE  WheresFit'
    <3>1. BeginAlter(c, "rename") /\ Goto(c, "rename") /\ stmt' = stmt
      BY <2>7 DEF RenameColumn
    <3>2. QED
      BY <1>0, <1>2, <1>3, <3>1 DEF BeginAlter, Goto, Apart
  <2>8. QED
    BY <1>3, <2>1, <2>2, <2>3, <2>4, <2>5, <2>6, <2>7 DEF Start
<1>4. ASSUME work' = work, NEW c \in Clients, Continue(c) PROVE WheresFit'
  <2>1. CASE Panic
    BY <1>4, <2>1, WorkSame DEF Panic, table, WheresFit, Known, ColNames
  <2>2. CASE cols' = cols /\ (Finish(c) \/ (Goto(c, "rebuild") /\ Keep(c, Blank)))
    BY <1>0, <1>1, <1>4, <2>2 DEF Finish, Goto, Keep
  <2>3. QED
    BY <1>4, <2>1, <2>2
    DEF Continue, InsertRow, UpdateRows, DeleteRows, Rebuild, SliceRows, Refuse,
        Abandoned, Changed, table
<1>5. CASE UNCHANGED vars
  BY <1>5, WorkSame DEF vars, WheresFit, Known, ColNames
<1>6. QED
  BY <1>3, <1>4, <1>5 DEF Next

\* Where every row is full, a current index and a scan find the same rows.
LEMMA LookupsMeans == IInv => LookupsAgree
<1> SUFFICES ASSUME IInv, NEW i \in Indexes, NEW v \in Values,
                    Whole, Full, idx[i].on # <<>>, ~Rebuilding
             PROVE  Found(i, v) = Scanned(idx[i].on[1], v)
  BY DEF LookupsAgree
<1> DEFINE on == idx[i].on
<1>1. /\ on \in Seq(ColNames) /\ on # <<>>
      /\ idx[i].entries = Rebuilt(cols, rows, on)
  BY DEF IInv, TypeInv, TypeOK, IndexesCurrent
<1> HIDE DEF on
<1>2. DOMAIN on = 1..Len(on) /\ 1 \in DOMAIN on /\ \A k \in DOMAIN on : on[k] \in ColNames
  BY <1>1, LenProperties, EmptySeq, ElementOfSeq
<1>3. \A p \in DOMAIN rows, k \in DOMAIN on : Has(cols, rows[p], on[k])
  <2> SUFFICES ASSUME NEW p \in DOMAIN rows, NEW k \in DOMAIN on
               PROVE  Has(cols, rows[p], on[k])
    OBVIOUS
  <2>1. cols \in Seq(Column) /\ DOMAIN cols = 1..Len(cols)
    BY Typed DEF IInv
  <2>2. Position(cols, on[k]) \in DOMAIN cols
    BY <1>2, <2>1, PositionOfName DEF ColNames
  <2>3. DOMAIN rows[p] = DOMAIN cols
    BY <2>1, Typed DEF IInv, Full
  <2>4. QED
    BY <2>2, <2>3 DEF Has
<1>4. \A p \in DOMAIN rows : Indexable(cols, rows[p], on)
  BY <1>3 DEF Indexable
<1>5. idx[i].entries = {Entry(cols, rows[p], on, p) : p \in DOMAIN rows}
  BY <1>1, <1>4 DEF Rebuilt
<1>6. \A p \in DOMAIN rows :
        /\ Entry(cols, rows[p], on, p).pos = p
        /\ Entry(cols, rows[p], on, p).key[1] = rows[p][Position(cols, on[1])].val
  BY <1>2 DEF Entry, KeyOf
<1>7. Found(i, v) = {p \in DOMAIN rows : rows[p][Position(cols, on[1])].val = v}
  <2> DEFINE E(p) == Entry(cols, rows[p], on, p)
  <2>1. Found(i, v) = {e.pos : e \in {d \in {E(p) : p \in DOMAIN rows} : d.key[1] = v}}
    BY <1>5 DEF Found
  <2>2. \A p \in DOMAIN rows :
          E(p).pos = p /\ E(p).key[1] = rows[p][Position(cols, on[1])].val
    BY <1>6
  <2> HIDE DEF E
  <2>3. QED
    BY <2>1, <2>2
<1>8. Scanned(on[1], v) = {p \in DOMAIN rows : rows[p][Position(cols, on[1])].val = v}
  BY <1>2, <1>3 DEF Scanned
<1>9. QED
  BY <1>7, <1>8 DEF on

----------------------------------------------------------------------------
(* Cells and keys, while ALTER TABLE is kept apart                         *)

\* Where a row has its cell for column j: one further for the columns behind
\* the one DROP COLUMN has taken from the columns and not yet from the rows.
Place(j) == IF \E c \in Clients : pc[c] = "slice" /\ stmt[c].at <= j THEN j + 1 ELSE j

AlterAlone == \A c, d \in Clients : pc[c] \in Altering /\ d # c => pc[d] = "idle"

\* What a statement has read of the columns is still so: the position it is
\* going to set, and the row it is going to insert.
StatementsFit ==
  \A c \in Clients :
    /\ pc[c] = "update" => /\ stmt[c].at \in DOMAIN cols
                           /\ cols[stmt[c].at].name \in work.named
                           /\ cols[stmt[c].at].made = stmt[c].made
    /\ pc[c] = "insert" => /\ Len(stmt[c].row) = Len(cols)
                           /\ \A j \in DOMAIN cols : stmt[c].row[j].made = cols[j].made

CellsPlaced ==
  \A p \in DOMAIN rows, j \in DOMAIN cols :
    Place(j) \in DOMAIN rows[p] => rows[p][Place(j)].made = cols[j].made

KeyPlace == Place(Position(cols, key))

KeyPlaced ==
  KeysLeftAlone /\ key # NoKey =>
    /\ key \in work.keys /\ key \in ColNames
    /\ \A p, q \in DOMAIN rows :
         /\ KeyPlace \in DOMAIN rows[p] /\ KeyPlace \in DOMAIN rows[q]
         /\ rows[p][KeyPlace].val = rows[q][KeyPlace].val
         => p = q

PlacedInv == IInv /\ AlterAlone /\ StatementsFit /\ CellsPlaced /\ KeyPlaced

LEMMA PlacedInit == Init => PlacedInv
<1> SUFFICES ASSUME Init PROVE PlacedInv
  OBVIOUS
<1>1. IInv
  BY InitInv
<1>2. rows = <<>> /\ DOMAIN rows = {} /\ pc = [c \in Clients |-> "idle"]
  BY LenProperties, EmptySeq DEF Init
<1>3. AlterAlone /\ StatementsFit /\ CellsPlaced
  BY <1>2 DEF AlterAlone, StatementsFit, CellsPlaced, Altering
<1>4. KeyPlaced
  <2>1. PICK n \in Names, m \in Names :
          /\ cols = <<[name |-> n, made |-> 1], [name |-> m, made |-> 2]>>
          /\ key \in (work.keys \cap {n, m}) \cup {NoKey}
    BY DEF Init
  <2>2. 1 \in DOMAIN cols /\ cols[1].name = n /\ 2 \in DOMAIN cols /\ cols[2].name = m
    BY <2>1
  <2>3. n \in ColNames /\ m \in ColNames
    BY <2>2 DEF ColNames
  <2>4. QED
    BY <1>2, <2>1, <2>3 DEF KeyPlaced
<1>5. QED
  BY <1>1, <1>3, <1>4 DEF PlacedInv

\* A step that leaves columns and rows, and where the cells are.
LEMMA SamePlaces ==
  ASSUME PlacedInv, UNCHANGED <<work, cols, key, rows>>,
         \A d \in Clients : /\ pc'[d] = "slice" <=> pc[d] = "slice"
                            /\ pc[d] = "slice" => stmt'[d] = stmt[d]
  PROVE  CellsPlaced' /\ KeyPlaced'
<1>1. \A j : Place(j)' = Place(j)
  BY DEF Place
<1>2. KeyPlace' = KeyPlace
  BY DEF KeyPlace, Place
<1>3. CellsPlaced'
  BY <1>1 DEF PlacedInv, CellsPlaced
<1>4. KeyPlaced'
  BY <1>2, WorkSame DEF PlacedInv, KeyPlaced, ColNames
<1>5. QED
  BY <1>3, <1>4

\* A step of one client that leaves the columns, what the others have read,
\* and the catalog's lock.
LEMMA OthersFit ==
  ASSUME PlacedInv, work' = work, NEW c \in Clients, cols' = cols,
         \A d \in Clients : d # c => pc'[d] = pc[d] /\ stmt'[d] = stmt[d],
         pc'[c] \notin Altering, pc'[c] # "idle" => CatalogFree
  PROVE  /\ AlterAlone'
         /\ pc'[c] \notin {"insert", "update"} => StatementsFit'
  BY DEF PlacedInv, AlterAlone, StatementsFit, CatalogFree

LEMMA PlacedBeginInsert ==
  ASSUME Apart, PlacedInv, work' = work, NEW c \in Clients, NEW vals \in [1..Len(cols) -> Values],
         BeginInsert(c, vals)
  PROVE  PlacedInv'
<1> DEFINE row == [j \in DOMAIN cols |-> [made |-> cols[j].made, val |-> vals[j]]]
<1>1. IInv'
  BY BeginInsertInv DEF PlacedInv
<1>2. /\ pc'[c] = "insert" /\ pc[c] = "idle" /\ CatalogFree
      /\ \A d \in Clients : d # c => pc'[d] = pc[d] /\ stmt'[d] = stmt[d]
      /\ UNCHANGED <<cols, key, rows>>
  BY DEF BeginInsert, Begin, Apart, Goto, Keep, table,
         PlacedInv, IInv, TypeInv, TypeOK, StatementsTyped
<1>3. stmt'[c].row = row
  <2>1. stmt'[c] = [Blank EXCEPT !.row = row]
    BY DEF BeginInsert, Keep, PlacedInv, IInv, TypeInv, StatementsTyped
  <2>2. QED
    BY <2>1 DEF Blank
<1>4. AlterAlone' /\ CellsPlaced' /\ KeyPlaced'
  BY <1>2, OthersFit, SamePlaces DEF Altering
<1>5. StatementsFit'
  <2>1. DOMAIN cols = 1..Len(cols) /\ Len(cols) \in Nat
    BY Typed DEF PlacedInv, IInv
  <2>2. Len(row) = Len(cols) /\ \A j \in DOMAIN cols : row[j].made = cols[j].made
    BY <2>1
  <2> HIDE DEF row
  <2>3. QED
    BY <1>2, <1>3, <2>2 DEF PlacedInv, StatementsFit
<1>6. QED
  BY <1>1, <1>4, <1>5 DEF PlacedInv

LEMMA PlacedBeginUpdate ==
  ASSUME Apart, PlacedInv, work' = work, NEW c \in Clients, NEW n \in Names, NEW v \in Values,
         NEW w \in work.wheres, BeginUpdate(c, n, v, w)
  PROVE  PlacedInv'
<1> DEFINE at == Position(cols, n)
<1>1. IInv'
  BY BeginUpdateInv DEF PlacedInv
<1>2. /\ pc'[c] = "update" /\ pc[c] = "idle" /\ CatalogFree
      /\ \A d \in Clients : d # c => pc'[d] = pc[d] /\ stmt'[d] = stmt[d]
      /\ UNCHANGED <<cols, key, rows>>
  BY DEF BeginUpdate, Begin, Apart, Goto, Keep, table,
         PlacedInv, IInv, TypeInv, TypeOK, StatementsTyped
<1>3. at \in DOMAIN cols /\ cols[at].name = n /\ n \in work.named
  BY Typed, PositionOfName DEF BeginUpdate, ColNames, PlacedInv, IInv
<1>4. stmt'[c].at = at /\ stmt'[c].made = cols[at].made
  <2>1. stmt'[c] = [Blank EXCEPT !.at = at, !.made = cols[at].made, !.val = v, !.where = w]
    BY DEF BeginUpdate, Keep, PlacedInv, IInv, TypeInv, StatementsTyped
  <2> HIDE DEF at
  <2>2. QED
    BY <2>1 DEF Blank
<1>5. AlterAlone' /\ CellsPlaced' /\ KeyPlaced'
  BY <1>2, OthersFit, SamePlaces DEF Altering
<1>6. StatementsFit'
  <2> HIDE DEF at
  <2>1. QED
    BY <1>2, <1>3, <1>4 DEF PlacedInv, StatementsFit
<1>7. QED
  BY <1>1, <1>5, <1>6 DEF PlacedInv

LEMMA PlacedBeginDelete ==
  ASSUME Apart, PlacedInv, work' = work, NEW c \in Clients, NEW w \in work.wheres, BeginDelete(c, w)
  PROVE  PlacedInv'
<1>1. IInv'
  BY BeginDeleteInv DEF PlacedInv
<1>2. /\ pc'[c] = "delete" /\ pc[c] = "idle" /\ CatalogFree
      /\ \A d \in Clients : d # c => pc'[d] = pc[d] /\ stmt'[d] = stmt[d]
      /\ UNCHANGED <<cols, key, rows>>
  BY DEF BeginDelete, Begin, Apart, Goto, Keep, table,
         PlacedInv, IInv, TypeInv, TypeOK, StatementsTyped
<1>3. AlterAlone' /\ StatementsFit' /\ CellsPlaced' /\ KeyPlaced'
  BY <1>2, OthersFit, SamePlaces DEF Altering
<1>4. QED
  BY <1>1, <1>3 DEF PlacedInv

\* A statement that ends and leaves the table, or the server that does.
LEMMA PlacedEnd ==
  ASSUME PlacedInv, IInv', work' = work, NEW c \in Clients, UNCHANGED <<cols, key, rows>>,
         UNCHANGED <<pc, stmt>> \/ (Finish(c) /\ pc[c] # "slice")
  PROVE  PlacedInv'
<1>1. CASE UNCHANGED <<pc, stmt>>
  <2>1. AlterAlone' /\ StatementsFit'
    BY <1>1 DEF PlacedInv, AlterAlone, StatementsFit
  <2>2. CellsPlaced' /\ KeyPlaced'
    BY <1>1, SamePlaces
  <2>3. QED
    BY <2>1, <2>2 DEF PlacedInv
<1>2. CASE Finish(c) /\ pc[c] # "slice"
  <2>1. pc'[c] = "idle" /\ \A d \in Clients : d # c => pc'[d] = pc[d] /\ stmt'[d] = stmt[d]
    BY <1>2, FinishIs DEF PlacedInv
  <2>2. AlterAlone' /\ StatementsFit' /\ CellsPlaced' /\ KeyPlaced'
    BY <1>2, <2>1, OthersFit, SamePlaces DEF Altering
  <2>3. QED
    BY <2>2 DEF PlacedInv
<1>3. QED
  BY <1>1, <1>2

\* The key's column, if left alone, has a position, and it is not that of a
\* column an UPDATE may set.
LEMMA KeyPosition ==
  ASSUME PlacedInv, KeysLeftAlone, key # NoKey
  PROVE  /\ Position(cols, key) \in DOMAIN cols
         /\ cols[Position(cols, key)].name = key
         /\ key \in work.keys /\ key \notin work.named
<1>1. key \in work.keys /\ key \in ColNames
  BY DEF PlacedInv, KeyPlaced
<1>2. key \notin work.named
  BY <1>1 DEF KeysLeftAlone
<1>3. cols \in Seq(Column)
  BY Typed DEF PlacedInv, IInv
<1>4. QED
  BY <1>1, <1>2, <1>3, PositionOfName DEF ColNames

LEMMA PlacedInsertRow ==
  ASSUME PlacedInv, work' = work, NEW c \in Clients, InsertRow(c)
  PROVE  PlacedInv'
<1> DEFINE row == stmt[c].row
<1>1. IInv'
  BY InsertRowInv DEF PlacedInv
<1>2. /\ pc'[c] = "idle" /\ pc[c] = "insert"
      /\ \A d \in Clients : d # c => pc'[d] = pc[d] /\ stmt'[d] = stmt[d]
      /\ UNCHANGED <<cols, key>>
  BY FinishIs DEF InsertRow, At, PlacedInv
<1>3. AlterAlone' /\ StatementsFit'
  BY <1>2, OthersFit DEF Altering
<1>4. \A d \in Clients : pc[d] # "slice" /\ pc'[d] # "slice"
  BY <1>2 DEF PlacedInv, AlterAlone, Altering
<1>5. CASE rows' = rows
  BY <1>1, <1>2, <1>3, <1>4, <1>5, SamePlaces DEF PlacedInv
<1>6. CASE Len(row) = Len(cols) /\ ~Duplicate(row) /\ rows' = Append(rows, row)
  <2>1. /\ DOMAIN rows' = 1..(Len(rows) + 1) /\ DOMAIN rows = 1..Len(rows) /\ Len(rows) \in Nat
        /\ \A p \in 1..Len(rows) : rows'[p] = rows[p]
        /\ rows'[Len(rows) + 1] = row
    <3>1. rows \in Seq(Row) /\ row \in Row
      BY Typed DEF PlacedInv, IInv, Statement
    <3>2. QED
      BY <1>6, <3>1, AppendProperties, LenProperties
  <2>2. \A p \in DOMAIN rows' : (p \in DOMAIN rows /\ rows'[p] = rows[p])
                                \/ (p = Len(rows) + 1 /\ rows'[p] = row)
    BY <2>1
  <2>3. \A j : Place(j) = j /\ Place(j)' = j
    BY <1>4 DEF Place
  <2>4. \A j \in DOMAIN cols : row[j].made = cols[j].made
    BY <1>2 DEF PlacedInv, StatementsFit
  <2>5. CellsPlaced'
    BY <1>2, <2>2, <2>3, <2>4 DEF PlacedInv, CellsPlaced
  <2>6. ASSUME KeysLeftAlone, key # NoKey
        PROVE  \A p \in DOMAIN rows :
                 Position(cols, key) \in DOMAIN rows[p] =>
                   rows[p][Position(cols, key)].val # row[Position(cols, key)].val
    <3>1. Position(cols, key) \in DOMAIN row
      <4>1. Position(cols, key) \in 1..Len(cols)
        BY <2>6, KeyPosition, Typed DEF PlacedInv, IInv
      <4>2. row \in Seq(Cell)
        BY Typed DEF PlacedInv, IInv, Statement, Row
      <4>3. DOMAIN row = 1..Len(row)
        BY <4>2, LenProperties
      <4>4. QED
        BY <1>6, <4>1, <4>3
    <3>2. QED
      BY <1>6, <3>1 DEF Duplicate, Has
  <2>7. KeyPlaced'
    <3>1. KeyPlace = Position(cols, key) /\ KeyPlace' = Position(cols, key)
      BY <1>2, <2>3 DEF KeyPlace, Place
    <3>2. ColNames' = ColNames
      BY <1>2 DEF ColNames
    <3> HIDE DEF row
    <3>3. QED
      BY <1>2, <2>2, <2>6, <3>1, <3>2, WorkSame DEF PlacedInv, KeyPlaced
  <2>8. QED
    BY <1>1, <1>3, <2>5, <2>7 DEF PlacedInv
<1>7. QED
  BY <1>5, <1>6 DEF InsertRow

\* A change of rows: every row comes from one of the old rows, which has the
\* same key and as many cells, under their columns.
LEMMA PlacedChanged ==
  ASSUME PlacedInv, IInv', work' = work, NEW c \in Clients,
         Changed(c) \/ Abandoned(c), pc[c] \in {"update", "delete"},
         NEW from \in [DOMAIN rows' -> DOMAIN rows],
         \A p, q \in DOMAIN rows' : from[p] = from[q] => p = q,
         \A p \in DOMAIN rows' :
           /\ DOMAIN rows'[p] = DOMAIN rows[from[p]]
           /\ \A j \in DOMAIN cols : j \in DOMAIN rows'[p] =>
                \/ rows'[p][j] = rows[from[p]][j]
                \/ rows'[p][j].made = cols[j].made /\ cols[j].name \in work.named
  PROVE  PlacedInv'
<1>1. /\ pc'[c] \in {"rebuild", "idle"} /\ UNCHANGED <<cols, key>>
      /\ \A d \in Clients : d # c => pc'[d] = pc[d] /\ stmt'[d] = stmt[d]
  BY DEF Changed, Abandoned, Finish, Goto, Keep, PlacedInv, IInv, TypeInv, TypeOK, StatementsTyped
<1>2. CatalogFree /\ \A d \in Clients : pc[d] # "slice" /\ pc'[d] # "slice"
  BY <1>1 DEF PlacedInv, AlterAlone, CatalogFree, Altering
<1>3. AlterAlone' /\ StatementsFit'
  BY <1>1, <1>2, OthersFit DEF Altering
<1>4. \A j : Place(j) = j /\ Place(j)' = j
  BY <1>2 DEF Place
<1>5. CellsPlaced'
  BY <1>1, <1>4 DEF PlacedInv, CellsPlaced
<1>6. KeyPlaced'
  <2>1. KeyPlace = Position(cols, key) /\ KeyPlace' = Position(cols, key)
    BY <1>1, <1>4 DEF KeyPlace, Place
  <2>2. ColNames' = ColNames
    BY <1>1 DEF ColNames
  <2>3. ASSUME KeysLeftAlone, key # NoKey, NEW p \in DOMAIN rows',
               Position(cols, key) \in DOMAIN rows'[p]
        PROVE  rows'[p][Position(cols, key)] = rows[from[p]][Position(cols, key)]
    BY <2>3, KeyPosition
  <2>4. QED
    BY <1>1, <2>1, <2>2, <2>3, WorkSame DEF PlacedInv, KeyPlaced
<1>7. QED
  BY <1>3, <1>5, <1>6 DEF PlacedInv

LEMMA PlacedUpdateRows ==
  ASSUME PlacedInv, WheresFit, work' = work, NEW c \in Clients, UpdateRows(c)
  PROVE  PlacedInv'
<1> DEFINE s == stmt[c]
           hit == Selected(s.where)
           cell == [made |-> s.made, val |-> s.val]
<1>1. IInv' /\ pc[c] = "update"
  BY UpdateRowsInv DEF UpdateRows, At, PlacedInv
<1>3. CASE Panic
  BY <1>1, <1>3, PlacedEnd DEF Panic, table
<1>4. CASE /\ rows' = [p \in DOMAIN rows |->
                         IF p \in hit THEN [rows[p] EXCEPT ![s.at] = cell] ELSE rows[p]]
           /\ Changed(c) \/ Abandoned(c)
  <2>1. cols[s.at].made = s.made /\ cols[s.at].name \in work.named
    BY <1>1 DEF PlacedInv, StatementsFit
  <2> DEFINE from == [p \in DOMAIN rows' |-> p]
  <2> HIDE DEF hit, cell
  <2>2. DOMAIN rows' = DOMAIN rows /\ from \in [DOMAIN rows' -> DOMAIN rows]
    BY <1>4
  <2>3. cell.made = s.made
    BY DEF cell
  <2>4. ASSUME NEW p \in DOMAIN rows'
        PROVE  /\ DOMAIN rows'[p] = DOMAIN rows[from[p]]
               /\ \A j \in DOMAIN cols : j \in DOMAIN rows'[p] =>
                    \/ rows'[p][j] = rows[from[p]][j]
                    \/ rows'[p][j].made = cols[j].made /\ cols[j].name \in work.named
    <3>1. rows'[p] = IF p \in hit THEN [rows[p] EXCEPT ![s.at] = cell] ELSE rows[p]
      BY <1>4, <2>2
    <3>2. rows[p] = [j \in DOMAIN rows[p] |-> rows[p][j]]
      BY <2>2, Typed DEF PlacedInv, IInv, Row
    <3>3. DOMAIN rows'[p] = DOMAIN rows[p]
      BY <3>1, <3>2
    <3>4. \A j \in DOMAIN rows[p] : rows'[p][j] = rows[p][j] \/ (j = s.at /\ rows'[p][j] = cell)
      BY <3>1, <3>2
    <3>5. QED
      BY <2>1, <2>3, <3>3, <3>4
  <2>5. \A p, q \in DOMAIN rows' : from[p] = from[q] => p = q
    OBVIOUS
  <2> HIDE DEF from
  <2>6. QED
    BY <1>1, <1>4, <2>2, <2>4, <2>5, PlacedChanged
<1>5. QED
  BY <1>3, <1>4 DEF UpdateRows

LEMMA PlacedDeleteRows ==
  ASSUME PlacedInv, work' = work, NEW c \in Clients, DeleteRows(c)
  PROVE  PlacedInv'
<1>1. IInv' /\ pc[c] = "delete"
  BY DeleteRowsInv DEF DeleteRows, At, PlacedInv
<1>2. CASE Refuse(c)
  BY <1>1, <1>2, PlacedEnd DEF Refuse, table
<1>3. CASE Panic
  BY <1>1, <1>3, PlacedEnd DEF Panic, table
<1>4. CASE KeepRows(DOMAIN rows \ Selected(stmt[c].where)) /\ Changed(c)
  <2>1. PICK n \in 0..Len(rows) :
          \E from \in [1..n -> DOMAIN rows \ Selected(stmt[c].where)] :
            /\ \A p, q \in 1..n : p < q => from[p] < from[q]
            /\ rows' = [p \in 1..n |-> rows[from[p]]]
    BY <1>4 DEF KeepRows
  <2>2. PICK from \in [1..n -> DOMAIN rows] :
          /\ \A p, q \in 1..n : p < q => from[p] < from[q]
          /\ rows' = [p \in 1..n |-> rows[from[p]]]
    BY <2>1
  <2>3. DOMAIN rows' = 1..n /\ \A p \in 1..n : rows'[p] = rows[from[p]]
    BY <2>2
  <2>4. \A p, q \in DOMAIN rows' : from[p] = from[q] => p = q
    <3>1. DOMAIN rows = 1..Len(rows) /\ Len(rows) \in Nat
      BY Typed DEF PlacedInv, IInv
    <3>2. \A p \in 1..n : from[p] \in Nat
      BY <2>2, <3>1
    <3>3. QED
      BY <2>2, <2>3, <3>1, <3>2
  <2>5. QED
    BY <1>1, <1>4, <2>2, <2>3, <2>4, PlacedChanged
<1>5. QED
  BY <1>2, <1>3, <1>4 DEF DeleteRows

LEMMA PlacedRebuild ==
  ASSUME PlacedInv, work' = work, NEW c \in Clients, Rebuild(c)
  PROVE  PlacedInv'
  BY RebuildInv, PlacedEnd DEF Rebuild, At, PlacedInv

LEMMA PlacedIndex ==
  ASSUME PlacedInv, work' = work, NEW c \in Clients, NEW i \in Indexes,
         DropIndex(c, i) \/ \E on \in ColumnLists : CreateIndex(c, i, on)
  PROVE  PlacedInv'
<1>1. IInv'
  BY CreateIndexInv, DropIndexInv DEF PlacedInv
<1>2. UNCHANGED <<cols, key, rows, pc, stmt>>
  BY DEF CreateIndex, DropIndex
<1>3. QED
  BY <1>1, <1>2, PlacedEnd

LEMMA PlacedAddColumn ==
  ASSUME Apart, PlacedInv, work' = work, NEW c \in Clients, NEW n \in Names, NEW keyed \in BOOLEAN,
         AddColumn(c, n, keyed)
  PROVE  PlacedInv'
<1> DEFINE col == [name |-> n, made |-> made + 1]
<1>1. IInv'
  BY AddColumnInv DEF PlacedInv
<1>2. UNCHANGED <<rows, pc, stmt>> /\ \A d \in Clients : pc[d] = "idle"
  BY DEF AddColumn, BeginAlter, Apart
<1>3. AlterAlone' /\ StatementsFit'
  BY <1>2 DEF AlterAlone, StatementsFit, Altering
<1>4. /\ DOMAIN cols = 1..Len(cols) /\ Len(cols) \in Nat
      /\ DOMAIN cols' = 1..(Len(cols) + 1)
      /\ \A j \in 1..Len(cols) : cols'[j] = cols[j]
      /\ cols'[Len(cols) + 1].name = n
  <2> HIDE DEF col
  <2>1. cols' = Append(cols, col)
    BY DEF AddColumn, col
  <2>2. cols \in Seq(Column) /\ DOMAIN cols = 1..Len(cols) /\ Len(cols) \in Nat
    BY Typed DEF PlacedInv, IInv
  <2>3. col \in Column
    BY BoundsAssumption DEF AddColumn, PlacedInv, IInv, TypeInv, TypeOK, Column, col
  <2>4. col.name = n
    BY DEF col
  <2>5. QED
    BY <2>1, <2>2, <2>3, <2>4, AppendProperties, LenProperties
<1>5. \A j : Place(j) = j /\ Place(j)' = j
  BY <1>2 DEF Place
<1>6. \A p \in DOMAIN rows : \A j \in DOMAIN rows[p] : j \in DOMAIN cols
  <2>1. \A p \in DOMAIN rows : Len(rows[p]) <= Len(cols)
    BY <1>2 DEF PlacedInv, IInv, TypeInv, TypeOK
  <2>2. \A p \in DOMAIN rows : Len(rows[p]) \in Nat /\ DOMAIN rows[p] = 1..Len(rows[p])
    BY Typed DEF PlacedInv, IInv
  <2>3. QED
    BY <1>4, <2>1, <2>2
<1>7. CellsPlaced'
  BY <1>2, <1>4, <1>5, <1>6 DEF PlacedInv, CellsPlaced
<1>8. DistinctNames(cols')
  BY <1>1 DEF IInv, TypeInv, TypeOK, DistinctNames
<1>9. KeyPlaced'
  <2>1. CASE key' = key
    <3>1. SUFFICES ASSUME KeysLeftAlone, key # NoKey PROVE KeyPlaced'
      BY <2>1, WorkSame DEF KeyPlaced
    <3> DEFINE k == Position(cols, key)
    <3>2. k \in DOMAIN cols /\ cols[k].name = key /\ key \in work.keys
      BY <3>1, KeyPosition
    <3> HIDE DEF k
    <3>3. k \in DOMAIN cols' /\ cols'[k].name = key
      BY <1>4, <3>2
    <3>4. Position(cols', key) = k /\ key \in ColNames'
      BY <1>8, <3>3, PositionFound DEF ColNames
    <3>5. KeyPlace = k /\ KeyPlace' = k
      BY <1>5, <2>1, <3>4 DEF KeyPlace, Place, k
    <3>6. QED
      BY <1>2, <2>1, <3>1, <3>2, <3>4, <3>5 DEF PlacedInv, KeyPlaced
  <2>2. CASE key' = n /\ n \in work.keys
    <3>1. Len(cols) + 1 \in DOMAIN cols'
      BY <1>4
    <3>2. Position(cols', n) = Len(cols) + 1 /\ n \in ColNames'
      BY <1>4, <1>8, <3>1, PositionFound DEF ColNames
    <3>3. KeyPlace' = Len(cols) + 1
      BY <1>5, <2>2, <3>2 DEF KeyPlace, Place
    <3>4. \A p \in DOMAIN rows' : KeyPlace' \notin DOMAIN rows'[p]
      BY <1>2, <1>4, <1>6, <3>3
    <3>5. QED
      BY <2>2, <3>2, <3>4 DEF KeyPlaced
  <2>3. QED
    BY <2>1, <2>2 DEF AddColumn
<1>10. QED
  BY <1>1, <1>3, <1>7, <1>9 DEF PlacedInv

LEMMA PlacedDropColumn ==
  ASSUME Apart, PlacedInv, work' = work, NEW c \in Clients, NEW n \in Names, DropColumn(c, n)
  PROVE  PlacedInv'
<1> DEFINE at == Position(cols, n)
<1>1. IInv'
  BY DropColumnInv DEF PlacedInv
<1>0. /\ BeginAlter(c, "drop column") /\ n \in ColNames \ {key} /\ cols' = RemoveAt(cols, at)
      /\ Keep(c, [Blank EXCEPT !.at = at]) /\ Goto(c, "slice") /\ UNCHANGED <<rows, key>>
  BY Zenon DEF DropColumn
<1>2. /\ pc'[c] = "slice" /\ \A d \in Clients : d # c => pc'[d] = "idle"
      /\ \A d \in Clients : pc[d] = "idle"
      /\ UNCHANGED <<rows, key>>
  <2> HIDE DEF at
  <2>1. QED
    BY <1>0 DEF BeginAlter, Apart, Goto, PlacedInv, IInv, TypeInv, TypeOK
<1>3. stmt'[c].at = at
  <2> HIDE DEF at
  <2>1. stmt'[c] = [Blank EXCEPT !.at = at]
    BY <1>0 DEF Keep, PlacedInv, IInv, TypeInv, StatementsTyped
  <2>2. QED
    BY <2>1 DEF Blank
<1>4. AlterAlone' /\ StatementsFit'
  BY <1>2 DEF AlterAlone, StatementsFit, Altering
<1>5. /\ DOMAIN cols = 1..Len(cols) /\ Len(cols) \in Nat /\ at \in 1..Len(cols)
      /\ cols[at].name = n /\ n # key
      /\ DOMAIN cols' = 1..(Len(cols) - 1)
      /\ \A j \in 1..(Len(cols) - 1) : cols'[j] = IF j < at THEN cols[j] ELSE cols[j + 1]
  <2>1. cols \in Seq(Column) /\ DOMAIN cols = 1..Len(cols) /\ Len(cols) \in Nat
    BY Typed DEF PlacedInv, IInv
  <2>2. at \in 1..Len(cols) /\ cols[at].name = n /\ n # key
    BY <1>0, <2>1, PositionOfName DEF ColNames
  <2> HIDE DEF at
  <2>3. QED
    BY <1>0, <2>1, <2>2, RemoveAtProperties, LenProperties
<1> HIDE DEF at
<1>6. \A j \in Nat : Place(j) = j /\ Place(j)' = IF j < at THEN j ELSE j + 1
  BY <1>2, <1>3, <1>5 DEF Place
<1>7. \A j \in DOMAIN cols' : j \in Nat /\ Place(j)' \in DOMAIN cols /\ cols'[j] = cols[Place(j)']
  <2>1. SUFFICES ASSUME NEW j \in DOMAIN cols'
                 PROVE  j \in Nat /\ Place(j)' \in DOMAIN cols /\ cols'[j] = cols[Place(j)']
    OBVIOUS
  <2>2. j \in 1..(Len(cols) - 1) /\ at \in Nat
    BY <1>5
  <2> DEFINE i == IF j < at THEN j ELSE j + 1
  <2>3. i \in DOMAIN cols /\ cols'[j] = cols[i]
    BY <1>5, <2>2
  <2>4. j \in Nat /\ Place(j)' = i
    BY <1>6, <2>2
  <2>5. QED
    BY <2>3, <2>4
<1>8. CellsPlaced'
  <2>1. SUFFICES ASSUME NEW p \in DOMAIN rows, NEW j \in DOMAIN cols', Place(j)' \in DOMAIN rows[p]
                 PROVE  rows[p][Place(j)'].made = cols'[j].made
    BY <1>2 DEF CellsPlaced
  <2> DEFINE i == Place(j)'
  <2>2. i \in DOMAIN cols /\ i \in Nat /\ cols'[j] = cols[i]
    BY <1>5, <1>7
  <2>3. Place(i) = i
    BY <1>6, <2>2
  <2> HIDE DEF i
  <2>4. rows[p][i].made = cols[i].made
    BY <2>1, <2>2, <2>3 DEF PlacedInv, CellsPlaced, i
  <2>5. QED
    BY <2>2, <2>4 DEF i
<1>9. KeyPlaced'
  <2>1. SUFFICES ASSUME KeysLeftAlone, key # NoKey PROVE KeyPlaced'
    BY <1>2, WorkSame DEF KeyPlaced
  <2>2. PICK k \in DOMAIN cols : k = Position(cols, key) /\ cols[k].name = key /\ key \in work.keys
    BY <2>1, KeyPosition
  <2>3. k \in 1..Len(cols) /\ k # at
    BY <1>5, <2>2
  <2>4. PICK j \in 1..(Len(cols) - 1) : (IF j < at THEN j ELSE j + 1) = k
    <3>1. CASE k < at
      BY <1>5, <2>3, <3>1
    <3>2. CASE k > at
      <4>1. k - 1 \in 1..(Len(cols) - 1) /\ ~(k - 1 < at) /\ (k - 1) + 1 = k
        BY <1>5, <2>3, <3>2
      <4>2. QED
        BY <4>1
    <3>3. QED
      BY <1>5, <2>3, <3>1, <3>2
  <2>5. Place(j)' = k /\ j \in DOMAIN cols' /\ cols'[j].name = key
    <3>1. j \in DOMAIN cols' /\ j \in Nat
      BY <1>5, <2>4
    <3>2. Place(j)' = IF j < at THEN j ELSE j + 1
      BY <1>6, <3>1
    <3>3. Place(j)' = k
      BY <2>4, <3>2
    <3>4. cols'[j] = cols[Place(j)']
      BY <1>7, <3>1
    <3>5. QED
      BY <2>2, <3>1, <3>3, <3>4
  <2>6. DistinctNames(cols')
    BY <1>1 DEF IInv, TypeInv, TypeOK, DistinctNames
  <2>7. Position(cols', key) = j /\ key \in ColNames'
    BY <2>5, <2>6, PositionFound DEF ColNames
  <2>8. KeyPlace' = k /\ KeyPlace = k
    <3>1. Place(k) = k
      BY <1>6, <2>3
    <3>2. Position(cols, key)' = j
      BY <1>2, <2>7
    <3>3. KeyPlace' = Place(j)'
      BY <3>2 DEF KeyPlace, Place
    <3>4. KeyPlace = Place(k)
      BY <2>2 DEF KeyPlace
    <3>5. QED
      BY <2>5, <3>1, <3>3, <3>4
  <2>9. QED
    BY <1>2, <2>1, <2>2, <2>7, <2>8 DEF PlacedInv, KeyPlaced
<1>10. QED
  BY <1>1, <1>4, <1>8, <1>9 DEF PlacedInv

LEMMA PlacedSliceRows ==
  ASSUME PlacedInv, work' = work, NEW c \in Clients, SliceRows(c)
  PROVE  PlacedInv'
<1> DEFINE at == stmt[c].at
<1>1. IInv'
  BY SliceRowsInv DEF PlacedInv
<1>2. /\ pc'[c] = "idle" /\ pc[c] = "slice" /\ UNCHANGED <<cols, key>>
      /\ \A d \in Clients : d # c => pc'[d] = pc[d] /\ stmt'[d] = stmt[d] /\ pc[d] = "idle"
  BY FinishIs DEF SliceRows, At, PlacedInv, AlterAlone, Altering
<1>3. AlterAlone' /\ StatementsFit'
  BY <1>2, OthersFit DEF Altering
<1>4. at \in Nat /\ at >= 1
  BY <1>2, Typed DEF PlacedInv, IInv, TypeInv, StatementsTyped
<1>5. \A j \in Nat : Place(j) = (IF j < at THEN j ELSE j + 1) /\ Place(j)' = j
  BY <1>2, <1>4 DEF Place
<1>6. rows' = [p \in DOMAIN rows |->
                 IF at \in DOMAIN rows[p] THEN RemoveAt(rows[p], at) ELSE rows[p]]
  BY DEF SliceRows
<1> HIDE DEF at
<1>7. ASSUME NEW p \in DOMAIN rows, NEW j \in Nat, j \in DOMAIN rows'[p]
      PROVE  Place(j) \in DOMAIN rows[p] /\ rows'[p][j] = rows[p][Place(j)]
  <2>1. /\ rows[p] \in Seq(Cell) /\ Len(rows[p]) \in Nat /\ DOMAIN rows[p] = 1..Len(rows[p])
    BY Typed DEF PlacedInv, IInv, Row
  <2>2. CASE at \in DOMAIN rows[p]
    <3>1. rows'[p] = RemoveAt(rows[p], at) /\ at \in 1..Len(rows[p])
      BY <1>6, <2>1, <2>2
    <3>2. /\ DOMAIN rows'[p] = 1..(Len(rows[p]) - 1)
          /\ \A i \in 1..(Len(rows[p]) - 1) :
               rows'[p][i] = IF i < at THEN rows[p][i] ELSE rows[p][i + 1]
      BY <2>1, <3>1, RemoveAtProperties, LenProperties
    <3>3. j \in 1..(Len(rows[p]) - 1)
      BY <1>7, <3>2
    <3>4. Place(j) = IF j < at THEN j ELSE j + 1
      BY <1>5, <1>7
    <3>5. Place(j) \in 1..Len(rows[p])
      BY <2>1, <3>1, <3>3, <3>4
    <3>6. QED
      BY <2>1, <3>2, <3>3, <3>4, <3>5
  <2>3. CASE at \notin DOMAIN rows[p]
    <3>1. rows'[p] = rows[p] /\ j \in 1..Len(rows[p]) /\ j < at
      BY <1>4, <1>6, <1>7, <2>1, <2>3
    <3>2. QED
      BY <1>5, <1>7, <3>1
  <2>4. QED
    BY <2>2, <2>3
<1>8. DOMAIN rows' = DOMAIN rows /\ \A j \in DOMAIN cols : j \in Nat
  BY <1>6, Typed DEF PlacedInv, IInv
<1>9. CellsPlaced'
  BY <1>2, <1>5, <1>7, <1>8 DEF PlacedInv, CellsPlaced
<1>10. KeyPlaced'
  <2>1. SUFFICES ASSUME KeysLeftAlone, key # NoKey PROVE KeyPlaced'
    BY <1>2, WorkSame DEF KeyPlaced
  <2> DEFINE k == Position(cols, key)
  <2>2. k \in Nat /\ key \in work.keys
    BY <1>8, <2>1, KeyPosition
  <2>3. KeyPlace' = k /\ KeyPlace = Place(k)
    <3>1. Position(cols, key)' = k
      BY <1>2
    <3> HIDE DEF k
    <3>2. k \in Nat
      BY <2>2
    <3>3. KeyPlace' = k
      BY <1>2, <3>1 DEF KeyPlace, Place
    <3>4. KeyPlace = Place(k)
      BY DEF KeyPlace, k
    <3>5. QED
      BY <3>3, <3>4
  <2>4. ColNames' = ColNames
    BY <1>2 DEF ColNames
  <2> HIDE DEF k
  <2>5. QED
    BY <1>2, <1>7, <1>8, <2>1, <2>2, <2>3, <2>4 DEF PlacedInv, KeyPlaced
<1>11. QED
  BY <1>1, <1>3, <1>9, <1>10 DEF PlacedInv

LEMMA PlacedRenameColumn ==
  ASSUME Apart, PlacedInv, work' = work, NEW c \in Clients, NEW m \in Names, NEW n \in Names,
         RenameColumn(c, m, n)
  PROVE  PlacedInv'
<1> DEFINE at == Position(cols, m)
<1>1. IInv'
  BY RenameColumnInv DEF PlacedInv
<1>2. /\ pc'[c] = "rename" /\ \A d \in Clients : d # c => pc'[d] = "idle"
      /\ \A d \in Clients : pc[d] = "idle"
      /\ UNCHANGED <<rows, key, stmt>>
  BY DEF RenameColumn, BeginAlter, Apart, Goto, PlacedInv, IInv, TypeInv, TypeOK
<1>3. AlterAlone' /\ StatementsFit'
  BY <1>2 DEF AlterAlone, StatementsFit, Altering
<1>4. at \in DOMAIN cols /\ cols[at].name = m /\ m \in work.named
  <2>1. m \in ColNames /\ m \in work.named
    BY DEF RenameColumn
  <2>2. cols \in Seq(Column)
    BY Typed DEF PlacedInv, IInv
  <2>3. QED
    BY <2>1, <2>2, PositionOfName DEF ColNames
<1>5. cols' = [cols EXCEPT ![at].name = n]
  BY DEF RenameColumn
<1> HIDE DEF at
<1>6. /\ DOMAIN cols' = DOMAIN cols
      /\ \A j \in DOMAIN cols : cols'[j].made = cols[j].made /\ (j # at => cols'[j] = cols[j])
  <2>1. cols = [j \in DOMAIN cols |-> cols[j]] /\ cols[at] \in Column
    BY <1>4, Typed, ElementOfSeq DEF PlacedInv, IInv
  <2>2. QED
    BY <1>4, <1>5, <2>1 DEF Column
<1>7. \A j : Place(j) = j /\ Place(j)' = j
  BY <1>2 DEF Place
<1>8. CellsPlaced'
  BY <1>2, <1>6, <1>7 DEF PlacedInv, CellsPlaced
<1>9. KeyPlaced'
  <2>1. SUFFICES ASSUME KeysLeftAlone, key # NoKey PROVE KeyPlaced'
    BY <1>2, WorkSame DEF KeyPlaced
  <2> DEFINE k == Position(cols, key)
  <2>2. k \in DOMAIN cols /\ cols[k].name = key /\ key \notin work.named
    BY <2>1, KeyPosition
  <2> HIDE DEF k
  <2>3. k \in DOMAIN cols' /\ cols'[k].name = key
    <3>1. k # at
      BY <1>4, <2>2
    <3>2. QED
      BY <1>6, <2>2, <3>1
  <2>4. DistinctNames(cols')
    BY <1>1 DEF IInv, TypeInv, TypeOK, DistinctNames
  <2>5. Position(cols', key) = k /\ key \in ColNames'
    BY <2>3, <2>4, PositionFound DEF ColNames
  <2>6. KeyPlace = k /\ KeyPlace' = k
    <3>1. Position(cols, key)' = k
      BY <1>2, <2>5
    <3>2. QED
      BY <1>7, <3>1 DEF KeyPlace, Place, k
  <2>7. QED
    BY <1>2, <2>1, <2>2, <2>5, <2>6 DEF PlacedInv, KeyPlaced
<1>10. QED
  BY <1>1, <1>3, <1>8, <1>9 DEF PlacedInv

LEMMA PlacedNext == Apart /\ PlacedInv /\ WheresFit /\ [Next]_vars => PlacedInv'
<1> SUFFICES ASSUME Apart, PlacedInv, WheresFit, [Next]_vars PROVE PlacedInv'
  OBVIOUS
<1>1. ASSUME work' = work, NEW c \in Clients, Start(c) PROVE PlacedInv'
  <2>1. CASE \E i \in Indexes : DropIndex(c, i) \/ \E on \in ColumnLists : CreateIndex(c, i, on)
    BY <1>1, <2>1, PlacedIndex
  <2>2. QED
    BY <1>1, <2>1, PlacedBeginInsert, PlacedBeginUpdate, PlacedBeginDelete,
       PlacedAddColumn, PlacedDropColumn, PlacedRenameColumn DEF Start
<1>2. ASSUME work' = work, NEW c \in Clients, Continue(c) PROVE PlacedInv'
  BY <1>2, PlacedInsertRow, PlacedUpdateRows, PlacedDeleteRows, PlacedRebuild,
     PlacedSliceRows DEF Continue
<1>3. CASE UNCHANGED vars
  <2>1. UNCHANGED <<work, cols, key, rows, pc, stmt>>
    BY <1>3 DEF vars
  <2>2. IInv'
    BY <1>3, NextInv DEF PlacedInv
  <2>3. AlterAlone' /\ StatementsFit'
    BY <2>1 DEF PlacedInv, AlterAlone, StatementsFit
  <2>4. CellsPlaced' /\ KeyPlaced'
    BY <2>1, SamePlaces
  <2>5. QED
    BY <2>2, <2>3, <2>4 DEF PlacedInv
<1>4. QED
  BY <1>1, <1>2, <1>3 DEF Next

LEMMA PlacedMeans == Apart /\ PlacedInv => CellsInPlace /\ KeysUnique
<1> SUFFICES ASSUME PlacedInv PROVE CellsInPlace /\ KeysUnique
  OBVIOUS
<1>1. CASE \E c \in Clients : pc[c] = "slice"
  BY <1>1 DEF CellsInPlace, KeysUnique
<1>2. CASE \A c \in Clients : pc[c] # "slice"
  <2>1. \A j : Place(j) = j
    BY <1>2 DEF Place
  <2>2. CellsInPlace
    BY <2>1 DEF PlacedInv, CellsPlaced, CellsInPlace
  <2>3. CASE key # NoKey
    BY <2>1, <2>2, <2>3 DEF PlacedInv, KeyPlaced, KeyPlace, KeysUnique, Has
  <2>4. CASE key = NoKey
    <3>1. Position(cols, NoKey) = 0
      BY NoKeyAssumption, Typed DEF PlacedInv, IInv, Position
    <3>2. \A p \in DOMAIN rows : 0 \notin DOMAIN rows[p]
      BY Typed DEF PlacedInv, IInv
    <3>3. QED
      BY <2>2, <2>4, <3>1, <3>2 DEF KeysUnique, Has
  <2>5. QED
    BY <2>3, <2>4
<1>3. QED
  BY <1>1, <1>2

----------------------------------------------------------------------------
(* The theorems                                                            *)

RowsInv == IInv /\ WheresFit /\ (Apart => PlacedInv)

LEMMA RowsInvHolds == Spec => []RowsInv
<1>1. Init => RowsInv
  BY InitInv, WheresInit, PlacedInit DEF RowsInv
<1>2. RowsInv /\ [Next]_vars => RowsInv'
  <2> SUFFICES ASSUME RowsInv, [Next]_vars PROVE RowsInv'
    OBVIOUS
  <2>1. IInv' /\ WheresFit'
    BY NextInv, WheresNext DEF RowsInv
  <2>2. Apart' <=> Apart
    BY WorkSame DEF Next, vars
  <2>3. QED
    BY <2>1, <2>2, PlacedNext DEF RowsInv
<1>3. QED
  BY <1>1, <1>2, PTL DEF Spec

\* Columns, rows, keys and indexes keep their types, and no row is wider
\* than the table once DROP COLUMN has sliced the rows (table.go,
\* catalog_tables.go), for any workload of any number of clients.
THEOREM TypeCorrect == Spec => []TypeOK
<1>1. RowsInv => TypeOK
  BY DEF RowsInv, IInv, TypeInv
<1>2. QED
  BY <1>1, RowsInvHolds, PTL

\* Every index holds exactly the entries of the rows whenever no statement is
\* before its rebuild (rebuildIndexesLocked, indexRowLocked), as long as no
\* UPDATE stops midway: ALTER TABLE runs by itself, or the statements on the
\* rows have conditions of one comparison, however they interleave with it.
THEOREM IndexesStayCurrent == Spec => []IndexesCurrent
<1>1. RowsInv => IndexesCurrent
  BY DEF RowsInv, IInv
<1>2. QED
  BY <1>1, RowsInvHolds, PTL

\* With or without an index, an equality finds the same rows (SelectWhere of
\* table.go), whenever no rebuild is due and no row is short, as long as no
\* UPDATE stops midway: any columns in an index, any number of clients.
THEOREM LookupsStayRight == Spec => []LookupsAgree
<1>1. RowsInv => LookupsAgree
  BY LookupsMeans DEF RowsInv
<1>2. QED
  BY <1>1, RowsInvHolds, PTL

\* While ALTER TABLE is kept apart from the other statements, every cell of
\* every row is under the column it was written for (performUpdate,
\* DropColumn, insertRowWithValidation), however columns come and go.
THEOREM CellsStayInPlace == Spec => []CellsInPlace
<1>1. RowsInv => CellsInPlace
  BY PlacedMeans DEF RowsInv, CellsInPlace
<1>2. QED
  BY <1>1, RowsInvHolds, PTL

\* While ALTER TABLE is kept apart and no UPDATE sets and no RENAME names a
\* column declared as a key, no two rows have the same primary key: the check
\* of INSERT under the table's lock (table.go) is enough for any number of
\* clients that made their rows before, and the key stays in its column.
THEOREM KeysStayUnique == Spec => []KeysUnique
<1>1. RowsInv => KeysUnique
  BY PlacedMeans DEF RowsInv, KeysUnique
<1>2. QED
  BY <1>1, RowsInvHolds, PTL
=============================================================================
