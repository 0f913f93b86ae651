------------------------- MODULE DatabaseLifecycle -------------------------
(***************************************************************************)
(* The life of a database in Focus: the cluster (name -> catalog), the     *)
(* metadata document and key space of the Pebble store, and the handler's  *)
(* registry of executors and job schedulers.                               *)
(*                                                                         *)
(* A client first resolves the executor of its session database            *)
(* (executeHandler.executorFor) and then runs in it a script of statements *)
(* (HandleQueryCtx, HandleScript), which ends after the last or at the     *)
(* first that fails: CREATE DATABASE, DROP DATABASE, or a statement that   *)
(* saves a table or another object through the executor's storage view.    *)
(* Every lock region of the code is one action; between two actions the    *)
(* other clients, the job schedulers and a crash may step in.              *)
(***************************************************************************)
EXTENDS Naturals, FiniteSets

CONSTANTS
  Names,         \* database names a client may create and drop
  Invalid,       \* those of them that databaseNameRe refuses (quoted identifiers)
  Default,       \* the default database ("postgres"), never dropped
  Clients,       \* sessions (wire connections or GUI requests)
  Free,          \* "nobody holds the handler lock"
  Works          \* workloads: the names and clients that take part, and bounds on
                 \* the catalogs ever allocated and on failed writes of the metadata

AllNames == Names \cup {Default}

ASSUME DefaultAssumption == Default \notin Names
ASSUME InvalidAssumption == Invalid \subseteq Names
ASSUME FreeAssumption == Free \notin Clients
ASSUME WorksAssumption ==
  Works \subseteq [names : SUBSET Names, clients : SUBSET Clients, catalogs : Nat, faults : Nat]

NoCat == 0         \* a nil *Catalog; catalogs are numbered by allocation

VARIABLES
  dbs,       \* Cluster.dbs: name -> catalog, NoCat when absent
  last,      \* the last catalog allocated
  meta,      \* keys of core.meta.Databases, in memory
  disk,      \* the databases of the last meta:schema document written
  tableKeys, \* name -> catalogs whose table data is under "db:<name>:table:"
  objKeys,   \* name -> catalogs whose views, procedures, triggers, jobs are
  execs,     \* executeHandler.execs: name -> catalog of the executor
  running,   \* <<name, catalog>> of the schedulers that are not cancelled
  late,      \* those cancelled in the middle of a job's statement, which goes on
  hmu,       \* holder of executeHandler.mu, or Free
  pc,        \* what each client does next
  db,        \* each client's session database
  cat,       \* the catalog of the executor the statement runs in
  arg,       \* the database CREATE / DROP DATABASE names
  todo,      \* names pruneExecutors has still to look at
  faults,    \* failed metadata writes so far
  work       \* the workload

store == <<meta, disk, tableKeys, objKeys, faults>>
registry == <<execs, running, late>>
local == <<db, cat, arg, todo>>
vars == <<dbs, last, store, registry, hmu, pc, local, work>>

Steps == {"idle", "register", "run", "persist", "create", "undo",
          "delete", "drop", "hook", "prune", "save"}

\* Types; in particular no name ever denotes a catalog not yet allocated.
TypeOK ==
  /\ last \in Nat
  /\ dbs \in [AllNames -> 0..last]
  /\ meta \in SUBSET AllNames
  /\ disk \in SUBSET AllNames
  /\ tableKeys \in [AllNames -> SUBSET (1..last)]
  /\ objKeys \in [AllNames -> SUBSET (1..last)]
  /\ execs \in [AllNames -> 0..last]
  /\ running \in SUBSET (AllNames \X (1..last))
  /\ late \in SUBSET (AllNames \X (1..last))
  /\ hmu \in Clients \cup {Free}
  /\ pc \in [Clients -> Steps]
  /\ db \in [Clients -> AllNames]
  /\ cat \in [Clients -> 0..last]
  /\ arg \in [Clients -> AllNames]
  /\ todo \in [Clients -> SUBSET AllNames]
  /\ faults \in Nat
  /\ work \in Works

(* A fresh data directory: only the default database, its executor and its *)
(* scheduler (newExecuteHandler starts every database of the cluster).     *)
Init ==
  /\ dbs = [n \in AllNames |-> IF n = Default THEN 1 ELSE NoCat]
  /\ last = 1
  /\ meta = {Default} /\ disk = {Default}
  /\ tableKeys = [n \in AllNames |-> {}]
  /\ objKeys = [n \in AllNames |-> {}]
  /\ execs = dbs
  /\ running = {<<Default, 1>>}
  /\ late = {}
  /\ hmu = Free
  /\ pc = [c \in Clients |-> "idle"]
  /\ db = [c \in Clients |-> Default]
  /\ cat = [c \in Clients |-> NoCat]
  /\ arg = [c \in Clients |-> Default]
  /\ todo = [c \in Clients |-> {}]
  /\ faults = 0
  /\ work \in Works

Goto(c, step) == pc' = [pc EXCEPT ![c] = step]

----------------------------------------------------------------------------
(* executeHandler: executors and schedulers, under h.mu                    *)

\* The scheduler of n's executor is cancelled.  executeJob looks at its
\* context before each statement of a job only: one that has begun goes on,
\* and its save is still to come.
MidStatement(n) ==
  late' \in {late, late \cup ({<<n, execs[n]>>} \cap running)}

\* Mutant: the lookup without h.mu, which the comment at handler.go:60 warns of.
ResolveUnlocked(c, n) ==
  /\ c \in work.clients
  /\ pc[c] = "idle"
  /\ dbs[n] # NoCat
  /\ db' = [db EXCEPT ![c] = n]
  /\ cat' = [cat EXCEPT ![c] = dbs[n]]
  /\ Goto(c, "register")
  /\ UNCHANGED <<dbs, last, store, registry, hmu, arg, todo>>

\* executorFor, first half: lock h.mu and look the session database up in
\* the cluster.  An unknown database is an error and changes nothing.
Resolve(c, n) ==
  /\ c \in work.clients
  /\ pc[c] = "idle" /\ hmu = Free
  /\ dbs[n] # NoCat
  /\ hmu' = c
  /\ db' = [db EXCEPT ![c] = n]
  /\ cat' = [cat EXCEPT ![c] = dbs[n]]
  /\ Goto(c, "register")
  /\ UNCHANGED <<dbs, last, store, registry, arg, todo>>

\* Mutant: the stale executor is replaced but its scheduler not cancelled.
RegisterLeaking(c) ==
  LET n == db[c] IN
  /\ pc[c] = "register"
  /\ execs' = [execs EXCEPT ![n] = cat[c]]
  /\ running' = running \cup {<<n, cat[c]>>}
  /\ hmu' = Free
  /\ UNCHANGED late
  /\ Goto(c, "run")
  /\ UNCHANGED <<dbs, last, store, local>>

\* executorFor, second half: reuse the executor of that catalog, or retire
\* the stale one with its scheduler and register a new pair; unlock h.mu.
Register(c) ==
  LET n == db[c] IN
  /\ pc[c] = "register"
  /\ IF execs[n] = cat[c]
       THEN UNCHANGED registry
       ELSE /\ execs' = [execs EXCEPT ![n] = cat[c]]
            /\ running' = (running \ {<<n, execs[n]>>}) \cup {<<n, cat[c]>>}
            /\ MidStatement(n)
  /\ hmu' = Free
  /\ Goto(c, "run")
  /\ UNCHANGED <<dbs, last, store, local>>

\* pruneExecutors, run by the drop hook outside the cluster lock: lock h.mu
\* and range over the registered executors ...
HookLock(c) ==
  /\ pc[c] = "hook" /\ hmu = Free
  /\ hmu' = c
  /\ todo' = [todo EXCEPT ![c] = {n \in AllNames : execs[n] # NoCat}]
  /\ Goto(c, "prune")
  /\ UNCHANGED <<dbs, last, store, registry, db, cat, arg>>

\* ... cancelling and forgetting each one whose NAME the cluster no longer
\* has (the catalog is not compared) ...
Prune(c, n) ==
  /\ pc[c] = "prune" /\ n \in todo[c]
  /\ todo' = [todo EXCEPT ![c] = @ \ {n}]
  /\ IF dbs[n] # NoCat
       THEN UNCHANGED registry
       ELSE /\ execs' = [execs EXCEPT ![n] = NoCat]
            /\ running' = running \ {<<n, execs[n]>>}
            /\ MidStatement(n)
  /\ UNCHANGED <<dbs, last, store, hmu, pc, db, cat, arg>>

\* Mutant: the unlock is forgotten.
PruneDoneLocked(c) ==
  /\ pc[c] = "prune" /\ todo[c] = {}
  /\ Goto(c, "run")
  /\ UNCHANGED <<dbs, last, store, registry, hmu, local>>

\* ... and unlock: the DROP DATABASE statement returns and the next one of
\* the script may run.
PruneDone(c) ==
  /\ pc[c] = "prune" /\ todo[c] = {}
  /\ hmu' = Free
  /\ Goto(c, "run")
  /\ UNCHANGED <<dbs, last, store, registry, local>>

----------------------------------------------------------------------------
(* The storage engine's database operations, each under core.mu            *)

\* saveMetadata: the whole document in one synced write, or an I/O error
\* that leaves the old one on disk.
SaveMetadata ==
  /\ disk' = meta'
  /\ UNCHANGED faults

Fault ==
  /\ faults < work.faults
  /\ faults' = faults + 1
  /\ UNCHANGED disk

\* CreateDatabase: register the name, then save.
StoreCreate(n) ==
  /\ meta' = meta \cup {n}
  /\ UNCHANGED <<tableKeys, objKeys>>

\* Mutant: the name goes and the keys stay.
StoreDeleteName(n) ==
  /\ meta' = meta \ {n}
  /\ UNCHANGED <<tableKeys, objKeys>>

\* DeleteDatabase: one range tombstone over the key space, forget, save.
StoreDelete(n) ==
  /\ tableKeys' = [tableKeys EXCEPT ![n] = {}]
  /\ objKeys' = [objKeys EXCEPT ![n] = {}]
  /\ meta' = meta \ {n}

\* The tombstone itself fails.
StoreDeleteFails == Fault /\ UNCHANGED <<meta, tableKeys, objKeys>>

----------------------------------------------------------------------------
(* CREATE DATABASE                                                         *)

\* Catalogs that statements past their existence check may still allocate.
Pending == {c \in Clients : pc[c] \in {"persist", "create"}}

\* The name must be new to the cluster (the bound keeps catalogs finite).
CreateCheck(c, n) ==
  /\ pc[c] = "run"
  /\ n \in work.names /\ dbs[n] = NoCat
  /\ last + Cardinality(Pending) < work.catalogs
  /\ arg' = [arg EXCEPT ![c] = n]
  /\ Goto(c, "persist")
  /\ UNCHANGED <<dbs, last, store, registry, hmu, db, cat, todo>>

\* storage.CreateDatabase; "already exists" in storage is not an error, any
\* other failure ends the statement (the name stays in the document held in
\* memory).
CreatePersist(c) ==
  LET n == arg[c] IN
  /\ pc[c] = "persist"
  /\ \/ /\ n \in meta
        /\ Goto(c, "create")
        /\ UNCHANGED store
     \/ /\ n \notin meta /\ StoreCreate(n) /\ SaveMetadata
        /\ Goto(c, "create")
     \/ /\ n \notin meta /\ StoreCreate(n) /\ Fault
        /\ Goto(c, "idle")
  /\ UNCHANGED <<dbs, last, registry, hmu, local>>

\* cl.CreateDatabase; when the name is not one for a database, or somebody
\* registered it meanwhile, undo.
CreateRegister(c) ==
  LET n == arg[c] IN
  /\ pc[c] = "create"
  /\ IF n \notin Invalid /\ dbs[n] = NoCat
       THEN /\ last' = last + 1
            /\ dbs' = [dbs EXCEPT ![n] = last + 1]
            /\ Goto(c, "run")
       ELSE /\ Goto(c, "undo")
            /\ UNCHANGED <<dbs, last>>
  /\ UNCHANGED <<store, registry, hmu, local>>

\* `_ = e.storage.DeleteDatabase(dbName)`: a failure is ignored.
CreateUndo(c) ==
  /\ pc[c] = "undo"
  /\ \/ StoreDelete(arg[c]) /\ (SaveMetadata \/ Fault)
     \/ StoreDeleteFails
  /\ Goto(c, "idle")
  /\ UNCHANGED <<dbs, last, registry, hmu, local>>

----------------------------------------------------------------------------
(* DROP DATABASE                                                           *)

\* The default database and the one the statement runs in are protected.
DropCheck(c, n) ==
  /\ pc[c] = "run"
  /\ n # Default /\ n # db[c]
  /\ dbs[n] # NoCat
  /\ arg' = [arg EXCEPT ![c] = n]
  /\ Goto(c, "delete")
  /\ UNCHANGED <<dbs, last, store, registry, hmu, db, cat, todo>>

\* storage.DeleteDatabase (absent is fine); a failure ends the statement,
\* possibly after the keys and the entry held in memory are gone.
DropStored(c) ==
  /\ pc[c] = "delete"
  /\ \/ StoreDelete(arg[c]) /\ SaveMetadata /\ Goto(c, "drop")
     \/ StoreDelete(arg[c]) /\ Fault /\ Goto(c, "idle")
     \/ StoreDeleteFails /\ Goto(c, "idle")
  /\ UNCHANGED <<dbs, last, registry, hmu, local>>

\* Mutant: the hooks are not called.
DropCatalogUnhooked(c) ==
  /\ pc[c] = "drop"
  /\ dbs' = [dbs EXCEPT ![arg[c]] = NoCat]
  /\ Goto(c, "run")
  /\ UNCHANGED <<last, store, registry, hmu, local>>

\* cl.DropDatabase: an error when somebody dropped it first; otherwise the
\* catalog leaves the cluster and the hooks run after the cluster's unlock.
DropCatalog(c) ==
  /\ pc[c] = "drop"
  /\ dbs' = [dbs EXCEPT ![arg[c]] = NoCat]
  /\ Goto(c, IF dbs[arg[c]] = NoCat THEN "idle" ELSE "hook")
  /\ UNCHANGED <<last, store, registry, hmu, local>>

----------------------------------------------------------------------------
(* Other statements of a session or of a job: they change the catalog in   *)
(* memory and then save through the storage view bound to the NAME.        *)

BeginSave(c) ==
  /\ pc[c] = "run"
  /\ Goto(c, "save")
  /\ UNCHANGED <<dbs, last, store, registry, hmu, local>>

\* Mutant: the metadata entry of the database is made on demand.
StoreTableUnchecked(n, g) ==
  /\ tableKeys' = [tableKeys EXCEPT ![n] = @ \cup {g}]
  /\ meta' = meta \cup {n}
  /\ UNCHANGED objKeys
  /\ SaveMetadata

\* saveTableWithSchema refuses a database that tablesForWrite does not find.
StoreTable(n, g) ==
  /\ n \in meta
  /\ tableKeys' = [tableKeys EXCEPT ![n] = @ \cup {g}]
  /\ UNCHANGED <<meta, objKeys>>
  /\ SaveMetadata \/ Fault

\* SaveView, SaveProcedure, SaveTrigger, SaveJob set their key directly.
StoreObject(n, g) ==
  /\ objKeys' = [objKeys EXCEPT ![n] = @ \cup {g}]
  /\ UNCHANGED <<meta, disk, tableKeys, faults>>

\* The save of a statement; a refused one is an error or only a warning.
Save(c) ==
  /\ pc[c] = "save"
  /\ \/ StoreTable(db[c], cat[c])
     \/ StoreObject(db[c], cat[c])
     \/ db[c] \notin meta /\ UNCHANGED store
  /\ Goto(c, "run")
  /\ UNCHANGED <<dbs, last, registry, hmu, local>>

\* The script is over, or its next statement fails.
Finish(c) ==
  /\ pc[c] = "run"
  /\ Goto(c, "idle")
  /\ UNCHANGED <<dbs, last, store, registry, hmu, local>>

\* A job's statement saves a table, on a tick of a live scheduler or after
\* its cancellation: by NAME, like a client's.
JobSave(n, g) ==
  /\ <<n, g>> \in running \cup late
  /\ StoreTable(n, g)
  /\ UNCHANGED <<dbs, last, registry, hmu, pc, local>>

----------------------------------------------------------------------------
(* A crash and the restart: NewPebbleStorage, LoadAll, newExecuteHandler.  *)
(* One fresh catalog per database of the saved document that the cluster   *)
(* accepts; what lies under its key prefix is loaded into that catalog.    *)
(* Keys of other databases stay where they are.                            *)
Loadable == disk \ Invalid

Reloaded(k, fresh) ==
  /\ {fresh[n] : n \in Loadable} = (last + 1)..k
  /\ \A m, n \in Loadable : fresh[m] = fresh[n] => m = n
  /\ last' = k
  /\ dbs' = [n \in AllNames |-> IF n \in Loadable THEN fresh[n] ELSE NoCat]
  /\ meta' = disk
  /\ tableKeys' = [n \in AllNames |->
        IF n \in Loadable /\ tableKeys[n] # {} THEN {fresh[n]} ELSE tableKeys[n]]
  /\ objKeys' = [n \in AllNames |->
        IF n \in Loadable /\ objKeys[n] # {} THEN {fresh[n]} ELSE objKeys[n]]
  /\ execs' = dbs'
  /\ running' = {<<n, fresh[n]>> : n \in Loadable} /\ late' = {}
  /\ hmu' = Free
  /\ pc' = [c \in Clients |-> "idle"]
  /\ db' = [c \in Clients |-> Default]
  /\ cat' = [c \in Clients |-> NoCat]
  /\ arg' = [c \in Clients |-> Default]
  /\ todo' = [c \in Clients |-> {}]
  /\ UNCHANGED <<disk, faults>>

Restart ==
  \E k \in last..work.catalogs : \E fresh \in [Loadable -> (last + 1)..k] :
    Reloaded(k, fresh)

----------------------------------------------------------------------------
\* What a client does once its statement is under way.
Continue(c) ==
  \/ Register(c) \/ Finish(c) \/ BeginSave(c) \/ Save(c)
  \/ CreatePersist(c) \/ CreateRegister(c) \/ CreateUndo(c)
  \/ DropStored(c) \/ DropCatalog(c) \/ HookLock(c)
  \/ (\E n \in AllNames : Prune(c, n))
  \/ PruneDone(c)

Next ==
  /\ \/ \E c \in Clients :
          \/ Continue(c)
          \/ \E n \in AllNames : Resolve(c, n) \/ CreateCheck(c, n) \/ DropCheck(c, n)
     \/ \E n \in AllNames, g \in 1..last : JobSave(n, g)
     \/ Restart
  /\ UNCHANGED work

Spec == Init /\ [][Next]_vars

\* A statement under way keeps being scheduled.  Strong fairness: h.mu is a
\* sync.Mutex, whose starvation mode serves waiters in order.
FairSpec == Spec /\ \A c \in Clients : SF_vars(Continue(c) /\ UNCHANGED work)

----------------------------------------------------------------------------
(* Properties                                                              *)

\* Somebody's drop hook has still to look at name n.
HookPending(n) ==
  \E c \in Clients : pc[c] = "hook" \/ (pc[c] = "prune" /\ n \in todo[c])

\* An executor outlives its database's NAME only until the drop hook that is
\* already on its way reaches it: this is what resolving the database under
\* h.mu is for (handler.go:60).
NoExecutorWithoutDatabase ==
  \A n \in AllNames : execs[n] # NoCat /\ dbs[n] = NoCat => HookPending(n)

\* A database never has two live schedulers, and a scheduler never lives on
\* without the executor that owns it: jobs would run twice a minute.
OneSchedulerPerDatabase ==
  \A n \in AllNames : {g \in 1..last : <<n, g>> \in running} = {execs[n]} \ {NoCat}

\* One client runs its scripts alone, and the disk takes every write.
Undisturbed == (\A c, d \in work.clients : c = d) /\ work.faults = 0

\* "its executor and scheduler go away with it" (handler.go:42): once no
\* drop hook is pending, every executor serves the cluster's own catalog.
\* Two clients can make it false for as long as nobody resolves the name.
ExecutorGoesWithDatabase ==
  Undisturbed =>
    \A n \in AllNames : execs[n] # NoCat /\ execs[n] # dbs[n] => HookPending(n)

\* "a database that exists only in memory would vanish on restart while the
\* client saw a success tag" (executor_ddl.go:329), and "... of reporting
\* success for a drop that would come back on restart" (executor_ddl.go:370):
\* the cluster and the saved document have the same databases, except while
\* a CREATE or a DROP is between the two (a name that is not one for a
\* database may be left in the document by a crash, and is never loaded);
\* and, "a database is a hard boundary" (cluster.go:16), under a live name lies
\* no other catalog's table data, but for that of a job that was in the
\* middle of a statement when its database was dropped.
StoreMirrorsCluster ==
  Undisturbed =>
    \A n \in AllNames :
      /\ dbs[n] # NoCat /\ n \notin disk =>
           \E c \in Clients : arg[c] = n /\ pc[c] = "drop"
      /\ dbs[n] = NoCat /\ n \in Loadable =>
           \E c \in Clients : arg[c] = n /\ pc[c] = "create"
      /\ dbs[n] # NoCat =>
           \A g \in tableKeys[n] : g = dbs[n] \/ <<n, g>> \in late

\* "a write against a dropped database is an error, never a silent
\* re-creation" (pebble_storage.go:96): a name no document has comes back
\* by CREATE DATABASE only, and no table data is added under it.
NoSilentRecreation ==
  [][\A n \in AllNames \ (meta \cup disk) :
       /\ n \in meta' => \E c \in Clients : pc[c] = "persist" /\ arg[c] = n
       /\ tableKeys'[n] \subseteq tableKeys[n]]_vars

\* A dropped database's hook never waits for ever on h.mu.
HookEnds == \A c \in Clients : pc[c] = "hook" ~> pc[c] # "hook"
=============================================================================
