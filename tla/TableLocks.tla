----------------------------- MODULE TableLocks -----------------------------
(***************************************************************************)
(* The lock regions of SQL statements.  A statement is the sequence of     *)
(* lock calls its handler makes and of accesses to table rows in between:  *)
(* the catalog's lock (Catalog.mu), each table's own (Table.mu) and the    *)
(* store's (core.mu), all of them sync.RWMutex.  Statements of different   *)
(* clients interleave at every call.                                       *)
(*                                                                         *)
(* What a statement does with the data is left out; where it decides how   *)
(* the handler goes on (a referenced row found or not, a row still         *)
(* referenced or not) each outcome is a statement of its own.  One row is  *)
(* inserted, updated or deleted by a statement: another row would repeat   *)
(* the same calls.                                                         *)
(***************************************************************************)
EXTENDS Naturals, FiniteSets, Sequences, SequencesExt, ClientSet

CONSTANTS
  Tables,      \* tables of the database
  References,  \* foreign keys: table -> the tables whose key it references
  Keyed,       \* tables with a primary key
  Workload,    \* <<kind, table>> pairs: the statements clients issue
  Catalog,     \* the catalog's lock
  Store        \* the store's lock

StatementKinds ==
  {"insert", "update", "delete", "select", "createTable", "createIndex", "renameColumn",
   "dropColumn", "dropTable"}

ASSUME TablesAssumption == IsFiniteSet(Tables)
ASSUME WorkloadAssumption == Workload \subseteq StatementKinds \X Tables
ASSUME ReferencesAssumption == References \in [Tables -> SUBSET Keyed]
ASSUME KeyedAssumption == Keyed \subseteq Tables
ASSUME LocksAssumption == Catalog # Store /\ {Catalog, Store} \cap Tables = {}

Mutexes == Tables \cup {Catalog, Store}

VARIABLES
  plan,     \* what each client's statement has still to do
  pending,  \* lock -> the writer that has announced itself and still waits
  writer,   \* lock -> the writer that holds it
  readers   \* lock -> the readers that hold it

locks == <<pending, writer, readers>>
lockVars == <<plan, locks>>

----------------------------------------------------------------------------
(* The statements as sequences of calls                                    *)

Call(op, x) == <<[op |-> op, on |-> x]>>
Locked(m, body) == Call("Lock", m) \o body \o Call("Unlock", m)
RLocked(m, body) == Call("RLock", m) \o body \o Call("RUnlock", m)

\* One body after the other, for the tables of a sequence.
Each(Body(_), s) == FlattenSeq([i \in 1..Len(s) |-> Body(s[i])])

\* GetTable and GetAllTables look tables up under the catalog's read lock.
GetTable == RLocked(Catalog, <<>>)
GetAllTables == RLocked(Catalog, <<>>)

\* Mutant: the rows are encoded without the table's lock.
SaveUnlocked(t) == Locked(Store, Call("read", t))

\* saveTableWithSchema: encode the rows under both locks.
Save(t) == Locked(Store, RLocked(t, Call("read", t)))

\* insertRowWithValidation, all of it under the table's lock: each table
\* referenced is looked up and its rows are read WITHOUT its lock.
InsertRow(t, write) ==
  LET Check(r) == GetTable \o Call("read", r)
  IN Locked(t, Each(Check, SetToSeq(References[t])) \o write)

Insert(t) ==
  { GetTable \o InsertRow(t, Call("write", t)) \o Save(t),
    GetTable \o InsertRow(t, <<>>) }

\* validateForeignKey before the update, then the rows, the indexes, the save.
Update(t) ==
  LET Check(r) == GetTable \o RLocked(r, Call("read", r))
      Checks == Each(Check, SetToSeq(References[t]))
  IN { GetTable \o Checks \o Locked(t, Call("write", t))
         \o Locked(t, Call("write", t)) \o Save(t),
       GetTable \o Checks }

\* Mutant: the early return leaves the referencing table locked.
CheckReferencesLeaking(s, last) ==
  Call("RLock", s) \o Call("read", s) \o (IF last THEN <<>> ELSE Call("RUnlock", s))

\* One referencing table of CheckForeignKeyReferences; "last" when a
\* reference is found there and the check returns.
CheckReferences(s, last) == RLocked(s, Call("read", s))

\* Tables whose foreign keys name t.  CheckForeignKeyReferences compares
\* "schema.table" with "table", so t itself is not skipped.
Referencing(t) == {s \in Tables : t \in References[s]}

\* performDelete: for each row that goes from a table with a key, the check
\* of every referencing table, in map order, while the table's own lock is
\* held; the first reference found refuses.
Checked(t) ==
  LET Clear(s) == CheckReferences(s, FALSE)
  IN { GetAllTables \o Each(Clear, s) : s \in SetToSeqs(Referencing(t)) }

Refused(t) ==
  LET Clear(s) == CheckReferences(s, FALSE)
  IN { GetAllTables \o Each(Clear, Front(s)) \o CheckReferences(Last(s), TRUE) :
         s \in UNION {SetToSeqs(S) : S \in (SUBSET Referencing(t)) \ {{}}} }

Delete(t) ==
  { GetTable \o Locked(t, check \o Call("write", t)) \o Locked(t, Call("write", t)) \o Save(t) :
      check \in {<<>>} \cup (IF t \in Keyed THEN Checked(t) ELSE {}) }
  \cup { GetTable \o Locked(t, check) : check \in IF t \in Keyed THEN Refused(t) ELSE {} }

\* fetchRows: a scan or an index lookup, copying rows under the read lock.
Select(t) == { GetTable \o RLocked(t, Call("read", t)) }

\* CREATE TABLE, ADD COLUMN and ALTER COLUMN change the catalog only.
CreateTable(t) == { Locked(Catalog, <<>>) \o GetTable \o Save(t) }

\* CREATE INDEX and DROP INDEX lock the table inside the catalog's lock.
CreateIndex(t) == { Locked(Catalog, Locked(t, Call("write", t))) \o GetTable \o Save(t) }

\* RENAME COLUMN rebuilds the indexes there, and renames in the store.
RenameColumn(t) ==
  { Locked(Catalog, Locked(t, Call("write", t))) \o GetTable \o Save(t) \o Locked(Store, <<>>) }

\* Mutant: the foreign keys are checked with the catalog's lock held, what
\* the comment at catalog_tables.go:448 warns of.
DropColumnChecking(t) ==
  { Locked(Catalog, GetAllTables \o Locked(t, Call("write", t)))
      \o GetTable \o Save(t) \o Locked(Store, <<>>) }

\* DROP COLUMN checks the foreign keys before it locks the catalog.
DropColumn(t) ==
  { GetAllTables \o Locked(Catalog, Locked(t, Call("write", t)))
      \o GetTable \o Save(t) \o Locked(Store, <<>>) }

\* DROP TABLE: the dependents, the catalog, the store.
DropTable(t) == { GetTable \o GetAllTables \o Locked(Catalog, <<>>) \o Locked(Store, <<>>) }

Plans(kind, t) ==
  CASE kind = "insert" -> Insert(t)
    [] kind = "update" -> Update(t)
    [] kind = "delete" -> Delete(t)
    [] kind = "select" -> Select(t)
    [] kind = "createTable" -> CreateTable(t)
    [] kind = "createIndex" -> CreateIndex(t)
    [] kind = "renameColumn" -> RenameColumn(t)
    [] kind = "dropColumn" -> DropColumn(t)
    [] kind = "dropTable" -> DropTable(t)

----------------------------------------------------------------------------
(* sync.RWMutex: a writer announces itself, which stops new readers, and   *)
(* waits for the readers inside; writers come one at a time.               *)

LockInit ==
  /\ plan = [c \in Clients |-> <<>>]
  /\ pending = [m \in Mutexes |-> Nobody]
  /\ writer = [m \in Mutexes |-> Nobody]
  /\ readers = [m \in Mutexes |-> {}]

Start(c) ==
  /\ plan[c] = <<>>
  /\ \E w \in Workload : \E p \in Plans(w[1], w[2]) : plan' = [plan EXCEPT ![c] = p]
  /\ UNCHANGED locks

\* What client c calls next is op on x.
Calls(c, op, x) == plan[c] # <<>> /\ Head(plan[c]) = [op |-> op, on |-> x]
Return(c) == plan' = [plan EXCEPT ![c] = Tail(@)]

Announce(c, m) ==
  /\ Calls(c, "Lock", m)
  /\ pending[m] = Nobody /\ writer[m] = Nobody
  /\ pending' = [pending EXCEPT ![m] = c]
  /\ UNCHANGED <<plan, writer, readers>>

Lock(c, m) ==
  /\ Calls(c, "Lock", m)
  /\ pending[m] = c /\ readers[m] = {}
  /\ pending' = [pending EXCEPT ![m] = Nobody]
  /\ writer' = [writer EXCEPT ![m] = c]
  /\ Return(c)
  /\ UNCHANGED readers

Unlock(c, m) ==
  /\ Calls(c, "Unlock", m)
  /\ writer' = [writer EXCEPT ![m] = Nobody]
  /\ Return(c)
  /\ UNCHANGED <<pending, readers>>

RLock(c, m) ==
  /\ Calls(c, "RLock", m)
  /\ writer[m] = Nobody /\ pending[m] = Nobody
  /\ readers' = [readers EXCEPT ![m] = @ \cup {c}]
  /\ Return(c)
  /\ UNCHANGED <<pending, writer>>

RUnlock(c, m) ==
  /\ Calls(c, "RUnlock", m)
  /\ readers' = [readers EXCEPT ![m] = @ \ {c}]
  /\ Return(c)
  /\ UNCHANGED <<pending, writer>>

Access(c, t) ==
  /\ Calls(c, "read", t) \/ Calls(c, "write", t)
  /\ Return(c)
  /\ UNCHANGED locks

Step(c) ==
  \/ \E m \in Mutexes :
       Announce(c, m) \/ Lock(c, m) \/ Unlock(c, m) \/ RLock(c, m) \/ RUnlock(c, m)
  \/ \E t \in Tables : Access(c, t)

LockNext == \E c \in Clients : Start(c) \/ Step(c)

LockSpec == LockInit /\ [][LockNext]_lockVars

----------------------------------------------------------------------------
(* Properties                                                              *)

\* Whom client c waits for, itself included when it holds what it asks for.
WaitsFor(c) ==
  {d \in Clients : \E m \in Mutexes :
     \/ Calls(c, "RLock", m) /\ d \in {pending[m], writer[m]}
     \/ Calls(c, "Lock", m) /\ pending[m] # c /\ d \in {pending[m], writer[m]}
     \/ Calls(c, "Lock", m) /\ pending[m] = c /\ d \in readers[m]}

\* No statements wait for each other in a circle ("BEFORE acquiring lock to
\* avoid deadlock", catalog_tables.go:448): every group of waiting clients
\* has one that waits for nobody in it.
NoCircularWait ==
  \A S \in (SUBSET Clients) \ {{}} : \E c \in S : WaitsFor(c) \cap S = {}

\* When that is so: the locks have ranks, and every statement of the workload
\* takes the lock of lower rank inside that of higher rank.  Saving a table
\* locks it inside the store's lock; INSERT looks up a referenced table, and
\* DELETE the tables and the rows that refer to it, inside the table's lock;
\* index and column changes lock the table inside the catalog's lock.
Ranked(rank) ==
  /\ rank \in [Mutexes -> Nat]
  /\ \A kind \in StatementKinds, t \in Tables :
       <<kind, t>> \in Workload =>
         /\ kind \notin {"select", "dropTable"} => rank[t] < rank[Store]
         /\ kind = "insert" /\ References[t] # {} => rank[Catalog] < rank[t]
         /\ kind = "delete" /\ t \in Keyed =>
              \A m \in {Catalog} \cup Referencing(t) : rank[m] < rank[t]
         /\ kind \in {"createIndex", "renameColumn", "dropColumn"} => rank[t] < rank[Catalog]

\* "json.Marshal runs while the lock is held, preventing concurrent
\* mutations from racing with the serializer" (pebble_storage.go:797), and
\* the same for every statement that reads rows under the table's lock: no
\* row is written while a client inside the lock reads.
LockedReadsAreStable ==
  \A c, d \in Clients, t \in Tables :
    Calls(c, "read", t) /\ Calls(d, "write", t) =>
      c = d \/ (c \notin readers[t] /\ writer[Store] # c)

\* Whatever way a handler returns, it has given back every lock it took.
LocksReturned ==
  \A c \in Clients, m \in Mutexes :
    plan[c] = <<>> => c \notin readers[m] \cup {pending[m], writer[m]}
=============================================================================
