------------------------------ MODULE TableRows ------------------------------
(***************************************************************************)
(* The contents of one table in memory: its columns, its rows and its      *)
(* indexes, under the statements that change them.                         *)
(*                                                                         *)
(* A row is a sequence of cells, matched with the columns by POSITION; the *)
(* primary key and the indexes name their columns.  ALTER TABLE ADD COLUMN *)
(* leaves the rows there are as they are, so a row may be shorter than     *)
(* the columns.  Every column gets a number when it is made and a cell     *)
(* remembers the number of the column it was written for.                  *)
(*                                                                         *)
(* UPDATE and DELETE change the rows in one region under the table's lock  *)
(* and rebuild the indexes in another; an UPDATE whose condition fails at  *)
(* some row stops there, with the rows before it changed and no rebuild.   *)
(* ALTER TABLE changes the columns under the catalog's lock only, which no *)
(* statement that has its *Table already takes.  Only INSERT looks for     *)
(* duplicates of the key: UPDATE may set it and RENAME COLUMN may take its *)
(* name away.                                                              *)
(***************************************************************************)
EXTENDS Naturals, Sequences, FiniteSets, SequencesExt

CONSTANTS
  Clients,     \* sessions
  Names,       \* column names
  Values,      \* cell values, as the strings they compare by
  Indexes,     \* index names
  NoKey,       \* "the table has no primary key"
  Everywhere,  \* "no WHERE clause"
  Works,       \* the workloads
  MaxRows,     \* bound on the rows of the table
  MaxMade      \* bound on the columns ever made

Kinds == {"insert", "update", "delete", "create index", "drop index",
          "add", "drop column", "rename"}

\* A condition: comparisons of a column with a value, joined by OR.
Comparison == [name : Names, val : Values]
Conditions == {Everywhere} \cup Seq(Comparison)

\* A workload: the kinds of statement its clients issue, whether they keep
\* ALTER TABLE apart from other statements, their conditions, the columns they
\* declare as keys, and those their UPDATEs set and their RENAMEs rename.
ASSUME WorksAssumption ==
  \A w \in Works : /\ w.kinds \subseteq Kinds /\ w.alone \in BOOLEAN
                   /\ w.wheres \subseteq Conditions
                   /\ w.keys \subseteq Names /\ w.named \subseteq Names
ASSUME NoKeyAssumption == NoKey \notin Names
ASSUME BoundsAssumption == MaxRows \in Nat /\ MaxMade \in Nat /\ MaxMade >= 2

VARIABLES
  work,  \* the workload
  cols,  \* Table.Columns: sequence of [name, made]
  made,  \* the number of the last column made
  key,   \* the column the PRIMARY KEY constraint names, or NoKey
  rows,  \* Table.Rows: sequence of sequences of [made, val]
  idx,   \* Table.Indexes: name -> columns (none: no such index), entries
  down,  \* whether a panic has ended the server
  pc,    \* what each client does next
  stmt   \* what its statement has read so far

vars == <<work, cols, made, key, rows, idx, down, pc, stmt>>

----------------------------------------------------------------------------
(* Columns, rows and index entries                                         *)

ColNames == {cols[j].name : j \in DOMAIN cols}

\* columnIndex, findColumnIndex; 0 when there is no such column.
Position(cs, n) ==
  IF \E j \in DOMAIN cs : cs[j].name = n
    THEN CHOOSE j \in DOMAIN cs : cs[j].name = n
    ELSE 0

Has(cs, row, n) == Position(cs, n) \in DOMAIN row

\* A row without the column does not match.
Holds(cs, row, what) ==
  Has(cs, row, what.name) /\ row[Position(cs, what.name)].val = what.val

\* evalWhere on one row.
Matches(cs, row, where) ==
  where = Everywhere \/ \E k \in DOMAIN where : Holds(cs, row, where[k])

\* indexRowLocked: a row that lacks an indexed column gets no entry.
Indexable(cs, row, on) == \A k \in DOMAIN on : Has(cs, row, on[k])

\* makeCompositeIndexKey
KeyOf(cs, row, on) == [k \in DOMAIN on |-> row[Position(cs, on[k])].val]

Entry(cs, row, on, p) == [key |-> KeyOf(cs, row, on), pos |-> p]

\* rebuildIndexesLocked, for one index.
Rebuilt(cs, rs, on) ==
  {Entry(cs, rs[p], on, p) : p \in {q \in DOMAIN rs : Indexable(cs, rs[q], on)}}

Reindexed(cs, rs, ix) ==
  [i \in Indexes |-> [ix[i] EXCEPT !.entries =
     IF ix[i].on = <<>> THEN {} ELSE Rebuilt(cs, rs, ix[i].on)]]

NoIndex == [on |-> <<>>, entries |-> {}]

----------------------------------------------------------------------------
Altering == {"slice", "rename"}        \* steps that hold the catalog's lock
Steps == {"idle", "insert", "update", "delete", "rebuild"} \cup Altering

\* What a statement has read: the row to insert; the position, number and
\* new value of the column to set; the condition; the key column.
Blank == [row |-> <<>>, at |-> 0, made |-> 0, val |-> <<>>, where |-> Everywhere]

Column == [name : Names, made : 1..MaxMade]
Cell == [made : 1..MaxMade, val : Values]
Row == Seq(Cell)
Index == [on : Seq(Names), entries : SUBSET [key : Seq(Values), pos : Nat]]

\* Types; in particular no row is wider than the table.
TypeOK ==
  /\ work \in Works
  /\ cols \in Seq(Column)
  /\ \A j, k \in DOMAIN cols : cols[j].name = cols[k].name => j = k
  /\ made \in 0..MaxMade
  /\ key \in Names \cup {NoKey}
  /\ rows \in Seq(Row)
  /\ \A p \in DOMAIN rows :
       Len(rows[p]) <= Len(cols) \/ \E c \in Clients : pc[c] = "slice"
  /\ idx \in [Indexes -> Index]
  /\ \A i \in Indexes :
       /\ idx[i].on \in Seq(ColNames)
       /\ \A e \in idx[i].entries : DOMAIN e.key = DOMAIN idx[i].on
  /\ down \in BOOLEAN
  /\ pc \in [Clients -> Steps]

\* CREATE TABLE: the columns and the key it was given, no rows, no indexes.
Init ==
  /\ work \in Works
  /\ \E n, m \in Names :
       /\ n # m
       /\ cols = <<[name |-> n, made |-> 1], [name |-> m, made |-> 2]>>
       /\ key \in (work.keys \cap {n, m}) \cup {NoKey}
  /\ made = 2
  /\ rows = <<>>
  /\ idx = [i \in Indexes |-> NoIndex]
  /\ down = FALSE
  /\ pc = [c \in Clients |-> "idle"]
  /\ stmt = [c \in Clients |-> Blank]

Goto(c, step) == pc' = [pc EXCEPT ![c] = step]
Keep(c, what) == stmt' = [stmt EXCEPT ![c] = what]
Finish(c) == Goto(c, "idle") /\ Keep(c, Blank)

table == <<cols, made, key, rows, idx>>

\* The catalog's write lock is free.
CatalogFree == \A d \in Clients : pc[d] \notin Altering

Begin(c, kind) ==
  /\ ~down
  /\ pc[c] = "idle"
  /\ kind \in work.kinds
  /\ work.alone => CatalogFree

\* ALTER TABLE, CREATE INDEX and DROP INDEX take the catalog's lock.
BeginAlter(c, kind) ==
  /\ Begin(c, kind)
  /\ CatalogFree
  /\ work.alone => \A d \in Clients : pc[d] = "idle"

\* The statement goes on.
At(c, step) == ~down /\ pc[c] = step

\* An index out of range, which nothing recovers: the server is gone.
Panic == down' = TRUE /\ UNCHANGED <<table, pc, stmt>>

----------------------------------------------------------------------------
(* INSERT                                                                  *)

\* buildInsertValues, before the table's lock: a value for every column.
BeginInsert(c, vals) ==
  /\ Begin(c, "insert")
  /\ cols # <<>>
  /\ Len(rows) + Cardinality({d \in Clients : pc[d] = "insert"}) < MaxRows
  /\ LET row == [j \in DOMAIN cols |-> [made |-> cols[j].made, val |-> vals[j]]]
     IN Keep(c, [Blank EXCEPT !.row = row])
  /\ Goto(c, "insert")
  /\ UNCHANGED <<table, down>>

\* Mutant: rows from before an ADD COLUMN are not looked at.
DuplicateOfFull(row) ==
  /\ Has(cols, row, key)
  /\ \E p \in DOMAIN rows :
       /\ Len(rows[p]) = Len(cols)
       /\ rows[p][Position(cols, key)].val = row[Position(cols, key)].val

\* A row with the same value of the primary key.
Duplicate(row) ==
  /\ Has(cols, row, key)
  /\ \E p \in DOMAIN rows :
       /\ Has(cols, rows[p], key)
       /\ rows[p][Position(cols, key)].val = row[Position(cols, key)].val

Grown(ix, row, p) ==
  [i \in Indexes |-> [ix[i] EXCEPT !.entries =
     IF ix[i].on # <<>> /\ Indexable(cols, row, ix[i].on)
       THEN @ \cup {Entry(cols, row, ix[i].on, p)} ELSE @]]

\* insertRowWithValidation, under the table's lock: width and key are
\* checked, the row appended and indexed.
InsertRow(c) ==
  LET row == stmt[c].row IN
  /\ At(c, "insert")
  /\ IF Len(row) = Len(cols) /\ ~Duplicate(row)
       THEN /\ rows' = Append(rows, row)
            /\ idx' = Grown(idx, row, Len(rows) + 1)
       ELSE UNCHANGED <<rows, idx>>
  /\ Finish(c)
  /\ UNCHANGED <<cols, made, key, down>>

----------------------------------------------------------------------------
(* UPDATE and DELETE                                                       *)

Known(where) == where # Everywhere => \A k \in DOMAIN where : where[k].name \in ColNames

\* executeUpdate: any column, the key's too; its position, before the table's
\* lock.
BeginUpdate(c, n, val, where) ==
  /\ Begin(c, "update")
  /\ n \in ColNames \cap work.named /\ Known(where)
  /\ LET at == Position(cols, n) IN
     Keep(c, [Blank EXCEPT !.at = at, !.made = cols[at].made, !.val = val,
                           !.where = where])
  /\ Goto(c, "update")
  /\ UNCHANGED <<table, down>>

\* The rows at which a condition is an error: a column of it is gone by now
\* and no comparison before that one holds.
Failing(where) ==
  {p \in DOMAIN rows :
     /\ where # Everywhere
     /\ \E k \in DOMAIN where : /\ where[k].name \notin ColNames
                                /\ \A j \in 1..(k - 1) : ~Holds(cols, rows[p], where[j])}

\* The rows a condition selects, up to the first at which it fails.
Selected(where) ==
  {p \in DOMAIN rows : /\ \A q \in Failing(where) : p < q
                      /\ Matches(cols, rows[p], where)}

\* An error that leaves the table as it was.
Refuse(c) == Finish(c) /\ UNCHANGED <<table, down>>

\* An error on the way: the rows changed so far stay, no rebuild follows.
Abandoned(c) == Finish(c) /\ UNCHANGED <<cols, made, key, idx, down>>

\* After a change of the rows: the rebuild is due.
Changed(c) ==
  /\ Goto(c, "rebuild") /\ Keep(c, Blank)
  /\ UNCHANGED <<cols, made, key, idx, down>>

\* performUpdate, under the table's lock, row by row.
UpdateRows(c) ==
  LET s == stmt[c]
      hit == Selected(s.where)
      cell == [made |-> s.made, val |-> s.val] IN
  /\ At(c, "update")
  /\ IF \E p \in hit : s.at \notin DOMAIN rows[p] THEN Panic
     ELSE /\ rows' = [p \in DOMAIN rows |->
                        IF p \in hit THEN [rows[p] EXCEPT ![s.at] = cell] ELSE rows[p]]
          /\ IF Failing(s.where) = {} THEN Changed(c) ELSE Abandoned(c)

\* executeDelete
BeginDelete(c, where) ==
  /\ Begin(c, "delete")
  /\ Known(where)
  /\ Keep(c, [Blank EXCEPT !.where = where])
  /\ Goto(c, "delete")
  /\ UNCHANGED <<table, down>>

\* The rows at the given positions, in their order.
KeepRows(kept) ==
  \E n \in 0..Len(rows) : \E from \in [1..n -> kept] :
    /\ \A p, q \in 1..n : p < q => from[p] < from[q]
    /\ kept = {from[p] : p \in 1..n}
    /\ rows' = [p \in 1..n |-> rows[from[p]]]

\* performDelete, under the table's lock: the key of every row to go is read
\* to look for references to it, then, unless the condition fails, they go.
DeleteRows(c) ==
  LET where == stmt[c].where
      hit == Selected(where) IN
  /\ At(c, "delete")
  /\ IF key \in ColNames /\ \E p \in hit : ~Has(cols, rows[p], key) THEN Panic
     ELSE IF Failing(where) # {} THEN Refuse(c)
     ELSE KeepRows(DOMAIN rows \ hit) /\ Changed(c)

\* RebuildIndexes, in a region of its own: the last step of UPDATE, DELETE
\* and RENAME COLUMN on the rows.
Rebuild(c) ==
  /\ At(c, "rebuild") \/ At(c, "rename")
  /\ idx' = Reindexed(cols, rows, idx)
  /\ Finish(c)
  /\ UNCHANGED <<cols, made, key, rows, down>>

----------------------------------------------------------------------------
(* CREATE INDEX, DROP INDEX: under the catalog's and the table's lock.     *)

CreateIndex(c, i, on) ==
  /\ BeginAlter(c, "create index")
  /\ idx[i] = NoIndex
  /\ idx' = Reindexed(cols, rows, [idx EXCEPT ![i].on = on])
  /\ UNCHANGED <<cols, made, key, rows, down, pc, stmt>>

DropIndex(c, i) ==
  /\ BeginAlter(c, "drop index")
  /\ idx[i] # NoIndex
  /\ idx' = [idx EXCEPT ![i] = NoIndex]
  /\ UNCHANGED <<cols, made, key, rows, down, pc, stmt>>

\* The lists of distinct columns an index may be made on; two at most.
ColumnLists ==
  {<<n>> : n \in ColNames} \cup {on \in ColNames \X ColNames : on[1] # on[2]}

----------------------------------------------------------------------------
(* ALTER TABLE                                                             *)

\* AddColumn, AddColumnWithConstraint: the rows stay as they are.
AddColumn(c, n, keyed) ==
  /\ BeginAlter(c, "add")
  /\ n \notin ColNames
  /\ keyed => n \in work.keys /\ key = NoKey
  /\ made < MaxMade
  /\ made' = made + 1
  /\ cols' = Append(cols, [name |-> n, made |-> made + 1])
  /\ key' = IF keyed THEN n ELSE key
  /\ UNCHANGED <<rows, idx, down, pc, stmt>>

\* DropColumn: a key stays; the column and the indexes over it go ...
DropColumn(c, n) ==
  /\ BeginAlter(c, "drop column")
  /\ n \in ColNames \ {key}
  /\ cols' = RemoveAt(cols, Position(cols, n))
  /\ idx' = [i \in Indexes |->
               IF \E k \in DOMAIN idx[i].on : idx[i].on[k] = n THEN NoIndex ELSE idx[i]]
  /\ Keep(c, [Blank EXCEPT !.at = Position(cols, n)])
  /\ Goto(c, "slice")
  /\ UNCHANGED <<made, key, rows, down>>

\* Mutant: only rows as wide as the table was lose their cell.
SliceRowsFull(c) ==
  /\ At(c, "slice")
  /\ rows' = [p \in DOMAIN rows |->
                IF Len(rows[p]) > Len(cols) THEN RemoveAt(rows[p], stmt[c].at)
                ELSE rows[p]]
  /\ idx' = Reindexed(cols, rows', idx)
  /\ Finish(c)
  /\ UNCHANGED <<cols, made, key, down>>

\* ... then, under the table's lock, the cells at its position.
SliceRows(c) ==
  /\ At(c, "slice")
  /\ rows' = [p \in DOMAIN rows |->
                IF stmt[c].at \in DOMAIN rows[p] THEN RemoveAt(rows[p], stmt[c].at)
                ELSE rows[p]]
  /\ idx' = Reindexed(cols, rows', idx)
  /\ Finish(c)
  /\ UNCHANGED <<cols, made, key, down>>

\* Mutant: the indexes keep the old name.
RenameColumnAlone(c, m, n) ==
  /\ BeginAlter(c, "rename")
  /\ m \in ColNames \cap work.named /\ n \notin ColNames
  /\ cols' = [cols EXCEPT ![Position(cols, m)].name = n]
  /\ Goto(c, "rename")
  /\ UNCHANGED <<made, key, rows, idx, down, stmt>>

\* RenameColumn: the column and, in every index, its name; the constraints,
\* the key's too, keep the old one.  The rebuild follows under the table's lock.
RenameColumn(c, m, n) ==
  /\ BeginAlter(c, "rename")
  /\ m \in ColNames \cap work.named /\ n \notin ColNames
  /\ cols' = [cols EXCEPT ![Position(cols, m)].name = n]
  /\ idx' = [i \in Indexes |-> [idx[i] EXCEPT !.on =
               [k \in DOMAIN @ |-> IF @[k] = m THEN n ELSE @[k]]]]
  /\ Goto(c, "rename")
  /\ UNCHANGED <<made, key, rows, down, stmt>>

----------------------------------------------------------------------------
Start(c) ==
  \/ \E vals \in [1..Len(cols) -> Values] : BeginInsert(c, vals)
  \/ \E n \in Names, v \in Values, w \in work.wheres : BeginUpdate(c, n, v, w)
  \/ \E w \in work.wheres : BeginDelete(c, w)
  \/ \E i \in Indexes : DropIndex(c, i) \/ \E on \in ColumnLists : CreateIndex(c, i, on)
  \/ \E n \in Names, keyed \in BOOLEAN : AddColumn(c, n, keyed)
  \/ \E n \in Names : DropColumn(c, n)
  \/ \E m, n \in Names : RenameColumn(c, m, n)

Continue(c) ==
  InsertRow(c) \/ UpdateRows(c) \/ DeleteRows(c) \/ Rebuild(c) \/ SliceRows(c)

Next == (\E c \in Clients : Start(c) \/ Continue(c)) /\ UNCHANGED work

Spec == Init /\ [][Next]_vars

----------------------------------------------------------------------------
(* Properties                                                              *)

\* Clients keep ALTER TABLE apart from other statements.
Apart == work.alone

\* No UPDATE stops midway: ALTER TABLE is kept apart, or every condition is
\* one comparison, which fails at the first row if at all.
Whole ==
  Apart \/ \A where \in work.wheres : where = Everywhere \/ Len(where) = 1

\* No UPDATE sets and no RENAME names a column that is declared as a key.
KeysLeftAlone == work.keys \cap work.named = {}

\* A statement is between its change of columns or rows and the rebuild.
Rebuilding == \E c \in Clients : pc[c] \in {"rebuild"} \cup Altering

\* "Indexes are kept consistent automatically during INSERT, UPDATE, DELETE,
\* RENAME COLUMN, DROP COLUMN" (INDEXING.md:24): as long as no UPDATE stops
\* midway, once no rebuild is due every index holds exactly the entries of
\* the rows as they are.
IndexesCurrent ==
  Whole => \A i \in Indexes : idx[i].on # <<>> =>
    idx[i].entries = Rebuilt(cols, rows, idx[i].on) \/ Rebuilding

\* SelectWhere by an index on the column, and by a scan.
Found(i, v) == {e.pos : e \in {d \in idx[i].entries : d.key[1] = v}}
Scanned(n, v) ==
  {p \in DOMAIN rows : Has(cols, rows[p], n) /\ rows[p][Position(cols, n)].val = v}

Full == \A p \in DOMAIN rows : Len(rows[p]) = Len(cols)

\* "When a matching index exists, the engine uses it to resolve row positions
\* instead of scanning all rows" (INDEXING.md:20): with or without an index,
\* an equality finds the same rows, as long as no row is short and no UPDATE
\* stops midway.
LookupsAgree ==
  Whole /\ Full /\ ~Rebuilding =>
    \A i \in Indexes, v \in Values :
      idx[i].on # <<>> => Found(i, v) = Scanned(idx[i].on[1], v)

\* A row's cells are those of the table's columns, in their order: however
\* columns come, go and change names, as long as ALTER TABLE is kept apart no
\* value turns up under another column.
CellsInPlace ==
  Apart => \A p \in DOMAIN rows, j \in DOMAIN cols :
    j \in DOMAIN rows[p] =>
      rows[p][j].made = cols[j].made \/ \E c \in Clients : pc[c] = "slice"

\* Where only INSERT gives the key's column its values, no two rows have the
\* same key: concurrent INSERTs included, and whatever ALTER TABLE, kept
\* apart, does to the other columns.
KeysUnique ==
  Apart /\ KeysLeftAlone => \A p, q \in DOMAIN rows :
    /\ Has(cols, rows[p], key) /\ Has(cols, rows[q], key)
    /\ rows[p][Position(cols, key)].val = rows[q][Position(cols, key)].val
    => p = q \/ \E c \in Clients : pc[c] = "slice"
=============================================================================
