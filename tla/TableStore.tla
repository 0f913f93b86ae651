----------------------------- MODULE TableStore -----------------------------
(***************************************************************************)
(* The tables of one database and their durable copies.  A statement       *)
(* changes a *Table in memory under the catalog's or the table's lock and  *)
(* then, in a lock region of its own (core.mu), saves the CONTENTS THE     *)
(* TABLE HAS BY THEN under the table's name.  A DROP, an ALTER or another  *)
(* save may come between the two.                                          *)
(*                                                                         *)
(* A table object is a name and a generation, counted by CREATE TABLE.  Of *)
(* its contents we keep: a version, raised by every change of rows, column *)
(* types or indexes; its optional columns; the tables its foreign keys     *)
(* name.                                                                   *)
(***************************************************************************)
EXTENDS Naturals

CONSTANTS
  Tables,      \* table names
  Columns,     \* names of columns that ALTER TABLE adds, drops and renames
  Clients,     \* sessions
  MaxGens,     \* bound on the generations of one name
  Works        \* workloads: the kinds of statement the clients issue, whether one
               \* at a time, and a bound on a table's version

Kinds == {"create", "write", "alter", "add", "drop column", "rename", "drop"}

ASSUME WorksAssumption ==
  Works \subseteq [kinds : SUBSET Kinds, alone : BOOLEAN, versions : Nat]
ASSUME BoundsAssumption == MaxGens \in Nat

Gens == 1..MaxGens
None == 0            \* no table of that name

VARIABLES
  tbl,    \* catalog.tables: name -> generation, None when absent
  last,   \* name -> the last generation created
  heap,   \* name -> generation -> contents in memory
  key,    \* "table:<schema>:<name>" in Pebble: name -> generation, contents
  pc,     \* what each client does next
  name,   \* the table its statement names
  at,     \* the *Table its statement holds: its name ...
  gen,    \* ... and its generation
  col,    \* the column change DropColumnData / RenameColumnData repeats
  wrote,  \* whether its write has changed a row yet
  todo,   \* dependents DROP TABLE ... CASCADE has still to save
  work    \* the workload, chosen at the start

held == <<at, gen>>
args == <<name, col, wrote, todo>>
vars == <<tbl, last, heap, key, pc, held, args, work>>

Blank == [ver |-> 0, cols |-> {}, refs |-> {}]
Contents == [ver : Nat, cols : SUBSET Columns, refs : SUBSET Tables]
Stored == [gen : 0..MaxGens, data : Contents]
Absent == [gen |-> None, data |-> Blank]
Changes == [old : SUBSET Columns, new : SUBSET Columns]

\* The steps that save a table, and where a statement goes on after them.
Saves == {"save", "saveAlter", "saveDependent"}
AfterSave(step) ==
  CASE step = "save" -> "idle"
    [] step = "saveAlter" -> "columns"
    [] step = "saveDependent" -> "dependents"

Steps == {"idle", "retrieve", "retrieveAlter", "write", "columns",
          "detach", "dependents", "drop", "delete"} \cup Saves

\* Types; in particular nothing refers to a generation not yet created.
TypeOK ==
  /\ work \in Works
  /\ last \in [Tables -> 0..MaxGens]
  /\ tbl \in [Tables -> 0..MaxGens]
  /\ \A t \in Tables : tbl[t] \in 0..last[t] /\ key[t].gen \in 0..last[t]
  /\ heap \in [Tables -> [Gens -> Contents]]
  /\ key \in [Tables -> Stored]
  /\ pc \in [Clients -> Steps]
  /\ name \in [Clients -> Tables]
  /\ at \in [Clients -> Tables]
  /\ gen \in [Clients -> 0..MaxGens]
  /\ col \in [Clients -> Changes]
  /\ wrote \in [Clients -> BOOLEAN]
  /\ todo \in [Clients -> SUBSET Tables]
  /\ \A c \in Clients :
       pc[c] \in Saves \cup {"write"} => gen[c] \in 1..last[at[c]]

Init ==
  /\ work \in Works
  /\ tbl = [t \in Tables |-> None]
  /\ last = [t \in Tables |-> None]
  /\ heap = [t \in Tables |-> [g \in Gens |-> Blank]]
  /\ key = [t \in Tables |-> Absent]
  /\ pc = [c \in Clients |-> "idle"]
  /\ name \in [Clients -> Tables]
  /\ at = name
  /\ gen = [c \in Clients |-> None]
  /\ col = [c \in Clients |-> [old |-> {}, new |-> {}]]
  /\ wrote = [c \in Clients |-> FALSE]
  /\ todo = [c \in Clients |-> {}]

Goto(c, step) == pc' = [pc EXCEPT ![c] = step]

Begin(c, kind, t) ==
  /\ kind \in work.kinds
  /\ work.alone => \A d \in Clients : pc[d] = "idle"
  /\ pc[c] = "idle"
  /\ name' = [name EXCEPT ![c] = t]

\* GetTable: the statement now holds the current table of that name.
Hold(c, t) ==
  /\ at' = [at EXCEPT ![c] = t]
  /\ gen' = [gen EXCEPT ![c] = tbl[t]]

----------------------------------------------------------------------------
(* CREATE TABLE                                                            *)

\* catalog.CreateTable; the referenced tables are not looked up.
CreateTable(c, t, refs) ==
  LET g == last[t] + 1 IN
  /\ Begin(c, "create", t)
  /\ tbl[t] = None /\ g <= MaxGens
  /\ last' = [last EXCEPT ![t] = g]
  /\ tbl' = [tbl EXCEPT ![t] = g]
  /\ heap' = [heap EXCEPT ![t][g] = [ver |-> 0, cols |-> {}, refs |-> refs]]
  /\ Goto(c, "retrieve")
  /\ UNCHANGED <<key, held, col, wrote, todo>>

\* catalog.GetTable by name before the save: it may find a later generation
\* by now, or none, which is an error.
Retrieve(c) ==
  LET t == name[c] IN
  /\ pc[c] \in {"retrieve", "retrieveAlter"}
  /\ Hold(c, t)
  /\ Goto(c, IF tbl[t] = None THEN "idle"
             ELSE IF pc[c] = "retrieve" THEN "save" ELSE "saveAlter")
  /\ UNCHANGED <<tbl, last, heap, key, args>>

\* saveTableWithSchema: under core.mu and the table's read lock, one synced
\* write under the table's own name of the contents it has now.
Store(t, g) == key' = [key EXCEPT ![t] = [gen |-> g, data |-> heap[t][g]]]

Save(c) ==
  /\ pc[c] \in Saves
  /\ Store(at[c], gen[c])
  /\ Goto(c, AfterSave(pc[c]))
  /\ UNCHANGED <<tbl, last, heap, held, args>>

----------------------------------------------------------------------------
(* INSERT, UPDATE, DELETE                                                  *)

\* executeInsert, -Update and -Delete look the table up once ...
Lookup(c, t) ==
  /\ Begin(c, "write", t)
  /\ tbl[t] # None
  /\ Hold(c, t)
  /\ wrote' = [wrote EXCEPT ![c] = FALSE]
  /\ Goto(c, "write")
  /\ UNCHANGED <<tbl, last, heap, key, col, todo>>

Bump(t, g) ==
  /\ heap[t][g].ver < work.versions
  /\ heap' = [heap EXCEPT ![t][g].ver = @ + 1]

\* ... change it, an INSERT row by row, each row under the table's lock ...
Write(c) ==
  /\ pc[c] = "write"
  /\ Bump(at[c], gen[c])
  /\ wrote' = [wrote EXCEPT ![c] = TRUE]
  /\ UNCHANGED <<tbl, last, key, pc, held, name, col, todo>>

\* Mutant: a write that is refused half way returns before it persists.
EndWriteUnsaved(c) ==
  /\ pc[c] = "write"
  /\ \E ok \in BOOLEAN : Goto(c, IF ok /\ wrote[c] THEN "save" ELSE "idle")
  /\ UNCHANGED <<tbl, last, heap, key, held, args>>

\* ... and, after the last row or the first refused one, save the changes.
EndWrite(c) ==
  /\ pc[c] = "write"
  /\ Goto(c, IF wrote[c] THEN "save" ELSE "idle")
  /\ UNCHANGED <<tbl, last, heap, key, held, args>>

----------------------------------------------------------------------------
(* ALTER TABLE, CREATE INDEX, DROP INDEX: one region under the catalog's   *)
(* write lock, then GetTable and a save.                                   *)

\* A change of a column's type or of the indexes.
Alter(c, t) ==
  /\ Begin(c, "alter", t)
  /\ tbl[t] # None
  /\ Bump(t, tbl[t])
  /\ Goto(c, "retrieve")
  /\ UNCHANGED <<tbl, last, key, held, col, wrote, todo>>

\* Replace the columns change.old by change.new.
Replaced(cols, change) == (cols \ change.old) \cup change.new

ChangeColumns(c, t, change) ==
  /\ tbl[t] # None
  /\ change.old \subseteq heap[t][tbl[t]].cols
  /\ change.new \cap heap[t][tbl[t]].cols = {}
  /\ heap' = [heap EXCEPT ![t][tbl[t]].cols = Replaced(@, change)]
  /\ col' = [col EXCEPT ![c] = change]
  /\ UNCHANGED <<tbl, last, key, held, wrote, todo>>

AddColumn(c, t, n) ==
  /\ Begin(c, "add", t)
  /\ ChangeColumns(c, t, [old |-> {}, new |-> {n}])
  /\ Goto(c, "retrieve")

DropColumn(c, t, n) ==
  /\ Begin(c, "drop column", t)
  /\ ChangeColumns(c, t, [old |-> {n}, new |-> {}])
  /\ Goto(c, "retrieveAlter")

RenameColumn(c, t, m, n) ==
  /\ Begin(c, "rename", t)
  /\ ChangeColumns(c, t, [old |-> {m}, new |-> {n}])
  /\ Goto(c, "retrieveAlter")

\* DropColumnData, RenameColumnData: after its save the statement repeats
\* the change on whatever contents lie under the key by then.
ColumnData(c) ==
  LET t == name[c] IN
  /\ pc[c] = "columns"
  /\ IF col[c].old \subseteq key[t].data.cols
       THEN key' = [key EXCEPT ![t].data.cols = Replaced(@, col[c])]
       ELSE UNCHANGED key
  /\ Goto(c, "idle")
  /\ UNCHANGED <<tbl, last, heap, held, args>>

----------------------------------------------------------------------------
(* DROP TABLE                                                              *)

\* FindForeignKeyDependents: other live tables with a foreign key to t.
Dependents(t) ==
  {s \in Tables \ {t} : tbl[s] # None /\ t \in heap[s][tbl[s]].refs}

\* Existence, and for RESTRICT no dependents; no lock is held afterwards.
DropCheck(c, t, cascade) ==
  /\ Begin(c, "drop", t)
  /\ tbl[t] # None
  /\ cascade \/ Dependents(t) = {}
  /\ Goto(c, IF cascade THEN "detach" ELSE "drop")
  /\ UNCHANGED <<tbl, last, heap, key, held, col, wrote, todo>>

\* Mutant: the dependents change in memory only.
DetachUnsaved(c) ==
  LET t == name[c] IN
  /\ pc[c] = "detach"
  /\ heap' = [s \in Tables |->
                IF s \in Dependents(t)
                  THEN [heap[s] EXCEPT ![tbl[s]].refs = @ \ {t}] ELSE heap[s]]
  /\ Goto(c, "dependents")
  /\ UNCHANGED <<tbl, last, key, held, args>>

\* CASCADE: RemoveForeignKeyReferencesToTable, under the catalog's lock.
Detach(c) ==
  LET t == name[c] IN
  /\ pc[c] = "detach"
  /\ heap' = [s \in Tables |->
                IF s \in Dependents(t)
                  THEN [heap[s] EXCEPT ![tbl[s]].refs = @ \ {t}] ELSE heap[s]]
  /\ todo' = [todo EXCEPT ![c] = Dependents(t)]
  /\ Goto(c, "dependents")
  /\ UNCHANGED <<tbl, last, key, held, name, col, wrote>>

\* The next dependent is found by its name and saved; one that is gone by
\* now is skipped.
RetrieveDependent(c, s) ==
  /\ pc[c] = "dependents" /\ s \in todo[c]
  /\ todo' = [todo EXCEPT ![c] = @ \ {s}]
  /\ Hold(c, s)
  /\ IF tbl[s] = None THEN UNCHANGED pc ELSE Goto(c, "saveDependent")
  /\ UNCHANGED <<tbl, last, heap, key, name, col, wrote>>

\* catalog.DropTable: whichever generation has the name now, or an error.
DropTable(c) ==
  LET t == name[c] IN
  /\ pc[c] = "drop" \/ (pc[c] = "dependents" /\ todo[c] = {})
  /\ tbl' = [tbl EXCEPT ![t] = None]
  /\ Goto(c, IF tbl[t] = None THEN "idle" ELSE "delete")
  /\ UNCHANGED <<last, heap, key, held, args>>

\* storage.DeleteTable: the key of that NAME.
DeleteTable(c) ==
  /\ pc[c] = "delete"
  /\ key' = [key EXCEPT ![name[c]] = Absent]
  /\ Goto(c, "idle")
  /\ UNCHANGED <<tbl, last, heap, held, args>>

----------------------------------------------------------------------------
\* Mutant: the restart forgets to hand the rows over (SetRows).
RestartUnloaded ==
  /\ tbl' = [t \in Tables |-> key[t].gen]
  /\ heap' = [t \in Tables |->
                IF key[t].gen = None THEN heap[t]
                ELSE [heap[t] EXCEPT ![key[t].gen] = [key[t].data EXCEPT !.ver = 0]]]
  /\ pc' = [c \in Clients |-> "idle"]
  /\ todo' = [c \in Clients |-> {}]
  /\ UNCHANGED <<last, key, held, name, col, wrote>>

(* A crash and the restart: loadDatabase rebuilds every table from its     *)
(* key.  A reloaded table keeps its generation: no statement has survived  *)
(* that could tell it from the one in memory before.                       *)
Restart ==
  /\ tbl' = [t \in Tables |-> key[t].gen]
  /\ heap' = [t \in Tables |->
                IF key[t].gen = None THEN heap[t]
                ELSE [heap[t] EXCEPT ![key[t].gen] = key[t].data]]
  /\ pc' = [c \in Clients |-> "idle"]
  /\ todo' = [c \in Clients |-> {}]
  /\ UNCHANGED <<last, key, held, name, col, wrote>>

----------------------------------------------------------------------------
Step(c) ==
  \/ Retrieve(c) \/ Save(c) \/ Write(c) \/ EndWrite(c) \/ ColumnData(c)
  \/ Detach(c) \/ DropTable(c) \/ DeleteTable(c)
  \/ \E s \in Tables : RetrieveDependent(c, s)

Start(c) ==
  \E t \in Tables :
    \/ \E refs \in SUBSET Tables : CreateTable(c, t, refs)
    \/ Lookup(c, t) \/ Alter(c, t)
    \/ \E n \in Columns : AddColumn(c, t, n) \/ DropColumn(c, t, n)
    \/ \E m, n \in Columns : RenameColumn(c, t, m, n)
    \/ \E cascade \in BOOLEAN : DropCheck(c, t, cascade)

Next ==
  /\ (\E c \in Clients : Step(c) \/ Start(c)) \/ Restart
  /\ UNCHANGED work

Spec == Init /\ [][Next]_vars

----------------------------------------------------------------------------
(* Properties                                                              *)

\* Client c is inside a statement that will still save, or delete, table t.
Owes(c, t) ==
  \/ name[c] = t /\ pc[c] \in {"retrieve", "retrieveAlter", "save",
                               "saveAlter", "columns", "delete"}
  \/ name[c] = t /\ pc[c] = "write" /\ wrote[c]
  \/ at[c] = t /\ pc[c] = "saveDependent"
  \/ t \in todo[c]

Durable(t) ==
  IF tbl[t] = None THEN key[t] = Absent
  ELSE key[t] = [gen |-> tbl[t], data |-> heap[t][tbl[t]]]

\* Schema changes "are persisted automatically on disk" (README.md:189) and
\* data outlives restarts (README.md:58): once no statement that will still
\* save a table is under way, memory and disk agree on it, so a restart then
\* neither loses, revives nor changes it.
DiskAgreesAtRest ==
  \A t \in Tables : Durable(t) \/ \E c \in Clients : Owes(c, t)

\* What a live table has on disk is never taken off or back by a step other
\* than its own DROP: no late save of an older generation, no late delete.
SavedStaysSaved ==
  [][\A t \in Tables : tbl[t] # None /\ key[t].gen = tbl[t] /\ tbl'[t] = tbl[t] =>
       key'[t].gen = tbl[t] /\ key'[t].data.ver >= key[t].data.ver]_vars
=============================================================================
