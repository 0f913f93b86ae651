----------------------------- MODULE ServerProofs -----------------------------
(***************************************************************************)
(* What the connections of the server share, and what each gets from it.   *)
(*                                                                         *)
(* DatabaseLifecycle: for any databases, clients and bounds the registry   *)
(* of executors and schedulers never keeps a pair whose database is gone   *)
(* (unless the drop hook is on its way) and never runs two schedulers for  *)
(* one database.  While one client works alone and no write of the         *)
(* metadata fails, executors, cluster and store also agree, across crashes *)
(* and restarts.                                                           *)
(*                                                                         *)
(* Session: for any number of connections and of slots the slots of the    *)
(* semaphore are never lost; for any openings and requests that the server *)
(* answers with ReadyForQuery once, client and server stay in step and     *)
(* each statement has one outcome.                                         *)
(***************************************************************************)
EXTENDS DatabaseLifecycle, Session,
  FiniteSetTheorems, FunctionTheorems, SequenceTheorems, WellFoundedInduction, TLAPS

----------------------------------------------------------------------------
(* The executors, the cluster and the store                                *)

\* The handler lock: its holder is the client that resolves or prunes.
LockInv ==
  \A c \in Clients : hmu = c <=> pc[c] \in {"register", "prune"}

\* A statement under way has a catalog.  Between the halves of executorFor
\* its database may leave the cluster, but then a drop hook is waiting for
\* the lock.
ResolveInv ==
  \A c \in Clients :
    /\ pc[c] # "idle" => cat[c] # NoCat
    /\ pc[c] = "register" /\ dbs[db[c]] = NoCat =>
         \E d \in Clients : pc[d] = "hook"

\* The inductive invariant: with the lock unnamed, a pruning client could
\* miss an executor registered behind its back.
RegistryInv ==
  /\ TypeOK
  /\ LockInv
  /\ ResolveInv
  /\ NoExecutorWithoutDatabase
  /\ OneSchedulerPerDatabase

\* The initial registry is that of the default database alone.
LEMMA InitRegistry == Init => RegistryInv
<1> SUFFICES ASSUME Init PROVE RegistryInv
  OBVIOUS
<1>1. TypeOK
  BY DefaultAssumption, FreeAssumption DEF Init, TypeOK, AllNames, NoCat, Steps
<1>2. LockInv /\ ResolveInv
  BY FreeAssumption DEF Init, LockInv, ResolveInv
<1>3. NoExecutorWithoutDatabase
  BY DEF Init, NoExecutorWithoutDatabase
<1>4. OneSchedulerPerDatabase
  BY DEF Init, OneSchedulerPerDatabase, NoCat
<1>5. QED
  BY <1>1, <1>2, <1>3, <1>4 DEF RegistryInv

\* The types of what the storage engine keeps.
StoreOK ==
  /\ meta \in SUBSET AllNames
  /\ disk \in SUBSET AllNames
  /\ tableKeys \in [AllNames -> SUBSET (1..last)]
  /\ objKeys \in [AllNames -> SUBSET (1..last)]
  /\ faults \in Nat

\* A client that moves on without touching cluster, registry or lock keeps
\* the invariant, whatever it does to the store.
LEMMA QuietStep ==
  ASSUME RegistryInv, UNCHANGED work, NEW c \in Clients, NEW s \in Steps \ {"register", "prune"},
         pc[c] \notin {"idle", "register", "prune", "hook"}, Goto(c, s),
         UNCHANGED <<dbs, last, registry, hmu, db, cat, todo>>,
         arg' \in [Clients -> AllNames], StoreOK'
  PROVE  RegistryInv'
<1> USE DEF Goto, registry
<1>1. TypeOK'
  BY DEF RegistryInv, TypeOK, StoreOK
<1>2. pc' \in [Clients -> Steps] /\ pc \in [Clients -> Steps]
  BY <1>1 DEF TypeOK, RegistryInv
<1>3. LockInv'
  BY <1>2 DEF RegistryInv, LockInv
<1>4. ResolveInv'
  BY <1>2 DEF RegistryInv, ResolveInv
<1>5. NoExecutorWithoutDatabase'
  BY <1>2 DEF RegistryInv, NoExecutorWithoutDatabase, HookPending
<1>6. OneSchedulerPerDatabase'
  BY DEF RegistryInv, OneSchedulerPerDatabase
<1>7. QED
  BY <1>1, <1>3, <1>4, <1>5, <1>6 DEF RegistryInv

\* The storage operations keep the store's types.
LEMMA StoreTypes ==
  ASSUME TypeOK, UNCHANGED last, NEW n \in AllNames, NEW g \in 1..last,
         \/ StoreDelete(n) /\ (SaveMetadata \/ Fault)
         \/ StoreDeleteFails
         \/ StoreCreate(n) /\ (SaveMetadata \/ Fault)
         \/ StoreTable(n, g)
         \/ StoreObject(n, g)
         \/ UNCHANGED store
  PROVE  StoreOK'
<1> USE DEF TypeOK, StoreOK, SaveMetadata, Fault
<1>1. CASE StoreDelete(n) /\ (SaveMetadata \/ Fault)
  BY <1>1 DEF StoreDelete
<1>2. CASE StoreDeleteFails
  BY <1>2 DEF StoreDeleteFails
<1>3. CASE StoreCreate(n) /\ (SaveMetadata \/ Fault)
  BY <1>3 DEF StoreCreate
<1>4. CASE StoreTable(n, g)
  <2>1. tableKeys' \in [AllNames -> SUBSET (1..last)]
    BY <1>4 DEF StoreTable
  <2>2. QED
    BY <1>4, <2>1 DEF StoreTable
<1>5. CASE StoreObject(n, g)
  BY <1>5 DEF StoreObject
<1>6. CASE UNCHANGED store
  BY <1>6 DEF store
<1>7. QED
  BY <1>1, <1>2, <1>3, <1>4, <1>5, <1>6

\* executorFor: the lock makes the two halves one step for the prune loop.
LEMMA ResolveStep ==
  ASSUME RegistryInv, UNCHANGED work, NEW c \in Clients, NEW n \in AllNames, Resolve(c, n)
  PROVE  RegistryInv'
<1> USE DEF Resolve, Goto, store, registry
<1>0. TypeOK
  BY DEF RegistryInv
<1>1. TypeOK'
  BY DEF RegistryInv, TypeOK, Steps
<1>2. LockInv'
  BY <1>0, FreeAssumption DEF RegistryInv, LockInv, TypeOK
<1>3. ResolveInv'
  BY <1>0 DEF RegistryInv, ResolveInv, TypeOK
<1>4. NoExecutorWithoutDatabase'
  BY <1>0 DEF RegistryInv, NoExecutorWithoutDatabase, HookPending, TypeOK
<1>5. OneSchedulerPerDatabase'
  BY DEF RegistryInv, OneSchedulerPerDatabase
<1>6. QED
  BY <1>1, <1>2, <1>3, <1>4, <1>5 DEF RegistryInv

\* Retiring the stale pair and registering the new one keeps one scheduler
\* per database; if the database is already gone, ResolveInv has the hook.
LEMMA RegisterStep ==
  ASSUME RegistryInv, UNCHANGED work, NEW c \in Clients, Register(c)
  PROVE  RegistryInv'
<1> USE DEF Register, MidStatement, Goto, store, local
<1>0. TypeOK /\ cat[c] \in 1..last /\ db[c] \in AllNames
  BY DEF RegistryInv, TypeOK, ResolveInv, NoCat
<1>1. TypeOK'
  BY <1>0 DEF TypeOK, Steps, registry
<1>2. LockInv'
  BY <1>0, FreeAssumption DEF RegistryInv, LockInv, TypeOK
<1>3. ResolveInv'
  BY <1>0 DEF RegistryInv, ResolveInv, TypeOK
<1>4. NoExecutorWithoutDatabase'
  <2> SUFFICES ASSUME NEW n \in AllNames, execs'[n] # NoCat, dbs'[n] = NoCat
               PROVE  HookPending(n)'
    BY DEF NoExecutorWithoutDatabase
  <2>1. PICK d \in Clients : pc[d] = "hook" \/ (pc[d] = "prune" /\ n \in todo[d])
    <3>1. CASE n = db[c]
      BY <3>1 DEF RegistryInv, ResolveInv
    <3>2. CASE n # db[c]
      BY <3>2, <1>0
         DEF RegistryInv, NoExecutorWithoutDatabase, HookPending, TypeOK, registry
    <3>3. QED
      BY <3>1, <3>2
  <2>2. pc'[d] = pc[d] /\ todo' = todo
    BY <2>1, <1>0 DEF TypeOK
  <2>3. QED
    BY <2>1, <2>2 DEF HookPending
<1>5. OneSchedulerPerDatabase'
  <2> SUFFICES ASSUME NEW n \in AllNames
               PROVE  {g \in 1..last : <<n, g>> \in running'} = {execs'[n]} \ {NoCat}
    BY DEF OneSchedulerPerDatabase
  <2>1. \A g \in 1..last : <<n, g>> \in running <=> (g = execs[n] /\ g # NoCat)
    BY DEF RegistryInv, OneSchedulerPerDatabase
  <2>2. \A g \in 1..last : <<n, g>> \in running' <=> (g = execs'[n] /\ g # NoCat)
    <3>1. CASE execs[db[c]] = cat[c]
      BY <2>1, <3>1 DEF registry
    <3>2. CASE execs[db[c]] # cat[c] /\ n = db[c]
      BY <1>0, <2>1, <3>2 DEF TypeOK, NoCat
    <3>3. CASE execs[db[c]] # cat[c] /\ n # db[c]
      BY <1>0, <2>1, <3>3 DEF TypeOK
    <3>4. QED
      BY <3>1, <3>2, <3>3
  <2>3. execs'[n] \in 0..last
    BY <1>0, <1>1 DEF TypeOK
  <2>4. QED
    BY <2>2, <2>3 DEF NoCat
<1>6. QED
  BY <1>1, <1>2, <1>3, <1>4, <1>5 DEF RegistryInv

\* The prune loop starts with every registered executor on its list.
LEMMA HookLockStep ==
  ASSUME RegistryInv, UNCHANGED work, NEW c \in Clients, HookLock(c)
  PROVE  RegistryInv'
<1> USE DEF HookLock, Goto, store, registry
<1>0. TypeOK
  BY DEF RegistryInv
<1>1. TypeOK'
  BY <1>0 DEF TypeOK, Steps
<1>2. LockInv'
  BY <1>0, FreeAssumption DEF RegistryInv, LockInv, TypeOK
<1>3. ResolveInv'
  BY <1>0, FreeAssumption DEF RegistryInv, ResolveInv, LockInv, TypeOK
<1>4. NoExecutorWithoutDatabase'
  BY <1>0 DEF RegistryInv, NoExecutorWithoutDatabase, HookPending, TypeOK
<1>5. OneSchedulerPerDatabase'
  BY DEF RegistryInv, OneSchedulerPerDatabase
<1>6. QED
  BY <1>1, <1>2, <1>3, <1>4, <1>5 DEF RegistryInv

\* One turn of the prune loop: an executor leaves together with its
\* scheduler, and only the name looked at leaves the list.
LEMMA PruneStep ==
  ASSUME RegistryInv, UNCHANGED work, NEW c \in Clients, NEW n \in AllNames, Prune(c, n)
  PROVE  RegistryInv'
<1> USE DEF Prune, MidStatement, store
<1>0. TypeOK
  BY DEF RegistryInv
<1>1. TypeOK'
  BY <1>0 DEF TypeOK, registry
<1>2. LockInv'
  BY DEF RegistryInv, LockInv
<1>3. ResolveInv'
  BY DEF RegistryInv, ResolveInv
<1>4. NoExecutorWithoutDatabase'
  <2> SUFFICES ASSUME NEW m \in AllNames, execs'[m] # NoCat, dbs[m] = NoCat
               PROVE  HookPending(m)'
    BY DEF NoExecutorWithoutDatabase
  <2>1. m # n /\ execs[m] # NoCat
    BY <1>0 DEF TypeOK, registry
  <2>2. PICK d \in Clients : pc[d] = "hook" \/ (pc[d] = "prune" /\ m \in todo[d])
    BY <2>1 DEF RegistryInv, NoExecutorWithoutDatabase, HookPending
  <2>3. m \in todo[d] => m \in todo'[d]
    BY <1>0, <2>1 DEF TypeOK
  <2>4. QED
    BY <2>2, <2>3 DEF HookPending
<1>5. OneSchedulerPerDatabase'
  <2> SUFFICES ASSUME NEW m \in AllNames
               PROVE  {g \in 1..last : <<m, g>> \in running'} = {execs'[m]} \ {NoCat}
    BY DEF OneSchedulerPerDatabase
  <2>1. \A g \in 1..last : <<m, g>> \in running <=> (g = execs[m] /\ g # NoCat)
    BY DEF RegistryInv, OneSchedulerPerDatabase
  <2>2. \A g \in 1..last : <<m, g>> \in running' <=> (g = execs'[m] /\ g # NoCat)
    BY <1>0, <2>1 DEF TypeOK, registry, NoCat
  <2>3. execs'[m] \in 0..last
    BY <1>0, <1>1 DEF TypeOK
  <2>4. QED
    BY <2>2, <2>3 DEF NoCat
<1>6. QED
  BY <1>1, <1>2, <1>3, <1>4, <1>5 DEF RegistryInv

\* An emptied list is nobody's pending hook.
LEMMA PruneDoneStep ==
  ASSUME RegistryInv, UNCHANGED work, NEW c \in Clients, PruneDone(c)
  PROVE  RegistryInv'
<1> USE DEF PruneDone, Goto, store, registry, local
<1>0. TypeOK
  BY DEF RegistryInv
<1>1. TypeOK'
  BY <1>0 DEF TypeOK, Steps
<1>2. LockInv'
  BY <1>0, FreeAssumption DEF RegistryInv, LockInv, TypeOK
<1>3. ResolveInv'
  BY <1>0 DEF RegistryInv, ResolveInv, TypeOK
<1>4. NoExecutorWithoutDatabase'
  BY <1>0 DEF RegistryInv, NoExecutorWithoutDatabase, HookPending, TypeOK
<1>5. OneSchedulerPerDatabase'
  BY DEF RegistryInv, OneSchedulerPerDatabase
<1>6. QED
  BY <1>1, <1>2, <1>3, <1>4, <1>5 DEF RegistryInv

\* A new catalog under a free name; the registry may only look better.
LEMMA CreateRegisterStep ==
  ASSUME RegistryInv, UNCHANGED work, NEW c \in Clients, CreateRegister(c)
  PROVE  RegistryInv'
<1> USE DEF CreateRegister, Goto, store, registry, local
<1>0. TypeOK /\ pc' \in [Clients -> Steps]
  BY DEF RegistryInv, TypeOK, Steps
<1>1. TypeOK'
  <2>1. CASE dbs[arg[c]] = NoCat
    <3>1. last' \in Nat /\ 0..last \subseteq 0..last' /\ 1..last \subseteq 1..last'
          /\ last' \in 0..last'
      BY <1>0, <2>1 DEF TypeOK
    <3>2. dbs' \in [AllNames -> 0..last']
      BY <1>0, <2>1, <3>1 DEF TypeOK
    <3>3. execs' \in [AllNames -> 0..last'] /\ cat' \in [Clients -> 0..last']
      BY <1>0, <3>1 DEF TypeOK
    <3>4. /\ tableKeys' \in [AllNames -> SUBSET (1..last')]
          /\ objKeys' \in [AllNames -> SUBSET (1..last')]
          /\ running' \in SUBSET (AllNames \X (1..last'))
          /\ late' \in SUBSET (AllNames \X (1..last'))
      BY <1>0, <3>1 DEF TypeOK
    <3>5. QED
      BY <1>0, <2>1, <3>1, <3>2, <3>3, <3>4 DEF TypeOK
  <2>2. CASE dbs[arg[c]] # NoCat
    BY <1>0, <2>2 DEF TypeOK
  <2>3. QED
    BY <2>1, <2>2
<1>2. LockInv'
  BY <1>0 DEF RegistryInv, LockInv, TypeOK
<1>3. ResolveInv'
  <2> SUFFICES ASSUME NEW d \in Clients
               PROVE  /\ pc'[d] # "idle" => cat[d] # NoCat
                      /\ pc'[d] = "register" /\ dbs'[db[d]] = NoCat =>
                           \E e \in Clients : pc'[e] = "hook"
    BY DEF ResolveInv
  <2>1. pc[c] = "create" /\ (pc'[d] # "idle" => pc[d] # "idle")
        /\ (pc'[d] = "register" => pc[d] = "register")
    BY <1>0 DEF TypeOK
  <2>2. dbs'[db[d]] = NoCat => dbs[db[d]] = NoCat
    BY <1>0 DEF TypeOK, NoCat
  <2>3. \A e \in Clients : pc[e] = "hook" => pc'[e] = "hook"
    BY <1>0 DEF TypeOK
  <2>4. QED
    BY <2>1, <2>2, <2>3 DEF RegistryInv, ResolveInv
<1>4. NoExecutorWithoutDatabase'
  <2> SUFFICES ASSUME NEW n \in AllNames, execs[n] # NoCat, dbs'[n] = NoCat
               PROVE  HookPending(n)'
    BY DEF NoExecutorWithoutDatabase
  <2>1. dbs[n] = NoCat
    BY <1>0 DEF TypeOK, NoCat
  <2>2. PICK d \in Clients : pc[d] = "hook" \/ (pc[d] = "prune" /\ n \in todo[d])
    BY <2>1 DEF RegistryInv, NoExecutorWithoutDatabase, HookPending
  <2>3. pc'[d] = pc[d]
    BY <1>0, <2>2 DEF TypeOK
  <2>4. QED
    BY <2>2, <2>3 DEF HookPending
<1>5. OneSchedulerPerDatabase'
  <2> SUFFICES ASSUME NEW n \in AllNames
               PROVE  {g \in 1..last' : <<n, g>> \in running} = {execs[n]} \ {NoCat}
    BY DEF OneSchedulerPerDatabase
  <2>1. {g \in 1..last : <<n, g>> \in running} = {execs[n]} \ {NoCat}
    BY DEF RegistryInv, OneSchedulerPerDatabase
  <2>2. \A g : <<n, g>> \in running => g \in 1..last
    BY <1>0 DEF TypeOK
  <2>3. 1..last \subseteq 1..last'
    BY <1>0 DEF TypeOK
  <2>4. QED
    BY <2>1, <2>2, <2>3
<1>6. QED
  BY <1>1, <1>2, <1>3, <1>4, <1>5 DEF RegistryInv

\* The catalog leaves the cluster and the hook is on its way at once.
LEMMA DropCatalogStep ==
  ASSUME RegistryInv, UNCHANGED work, NEW c \in Clients, DropCatalog(c)
  PROVE  RegistryInv'
<1> USE DEF DropCatalog, Goto, store, registry, local
<1>0. TypeOK
  BY DEF RegistryInv
<1>1. TypeOK'
  <2>1. dbs' \in [AllNames -> 0..last]
    BY <1>0 DEF TypeOK, NoCat
  <2>2. QED
    BY <1>0, <2>1 DEF TypeOK, Steps
<1>2. LockInv'
  BY <1>0 DEF RegistryInv, LockInv, TypeOK
<1>3. \A d \in Clients : pc[d] \in {"hook", "prune"} => pc'[d] = pc[d]
  BY <1>0 DEF TypeOK
<1>4. (\A n \in AllNames : dbs'[n] = dbs[n]) \/ pc'[c] = "hook"
  BY <1>0 DEF TypeOK
<1>5. ResolveInv'
  <2> SUFFICES ASSUME NEW d \in Clients
               PROVE  /\ pc'[d] # "idle" => cat[d] # NoCat
                      /\ pc'[d] = "register" /\ dbs'[db[d]] = NoCat =>
                           \E e \in Clients : pc'[e] = "hook"
    BY DEF ResolveInv
  <2>1. (pc'[d] # "idle" => pc[d] # "idle") /\ (pc'[d] = "register" => pc[d] = "register")
    BY <1>0 DEF TypeOK
  <2>2. db[d] \in AllNames
    BY <1>0 DEF TypeOK
  <2>3. QED
    BY <1>3, <1>4, <2>1, <2>2 DEF RegistryInv, ResolveInv
<1>6. NoExecutorWithoutDatabase'
  BY <1>3, <1>4 DEF RegistryInv, NoExecutorWithoutDatabase, HookPending
<1>7. OneSchedulerPerDatabase'
  BY DEF RegistryInv, OneSchedulerPerDatabase
<1>8. QED
  BY <1>1, <1>2, <1>5, <1>6, <1>7 DEF RegistryInv

\* After a restart every loaded database has its executor and scheduler.
LEMMA RestartStep ==
  ASSUME RegistryInv, UNCHANGED work, Restart
  PROVE  RegistryInv'
<1>0. TypeOK
  BY DEF RegistryInv
<1>k. PICK k \in last..work.catalogs : \E fresh \in [Loadable -> (last + 1)..k] :
        Reloaded(k, fresh)
  BY DEF Restart, Reloaded
<1>1. PICK fresh \in [Loadable -> (last + 1)..k] :
        /\ last' = k
        /\ dbs' = [n \in AllNames |-> IF n \in Loadable THEN fresh[n] ELSE NoCat]
        /\ meta' = disk
        /\ tableKeys' = [n \in AllNames |->
              IF n \in Loadable /\ tableKeys[n] # {} THEN {fresh[n]} ELSE tableKeys[n]]
        /\ objKeys' = [n \in AllNames |->
              IF n \in Loadable /\ objKeys[n] # {} THEN {fresh[n]} ELSE objKeys[n]]
        /\ execs' = dbs'
        /\ running' = {<<n, fresh[n]>> : n \in Loadable}
        /\ late' = {}
        /\ hmu' = Free
        /\ pc' = [c \in Clients |-> "idle"]
        /\ db' = [c \in Clients |-> Default]
        /\ cat' = [c \in Clients |-> NoCat]
        /\ arg' = [c \in Clients |-> Default]
        /\ todo' = [c \in Clients |-> {}]
        /\ UNCHANGED <<disk, faults>>
  BY <1>k DEF Reloaded
<1>2. /\ k \in Nat /\ Loadable \subseteq AllNames
      /\ 1..last \subseteq 1..k
      /\ \A n \in Loadable : fresh[n] \in 1..k
  BY <1>0, <1>1, WorksAssumption DEF TypeOK, Loadable
<1>3. TypeOK'
  <2>1. dbs' \in [AllNames -> 0..last']
    BY <1>1, <1>2 DEF NoCat
  <2>2. tableKeys' \in [AllNames -> SUBSET (1..last')]
    BY <1>0, <1>1, <1>2 DEF TypeOK
  <2>3. objKeys' \in [AllNames -> SUBSET (1..last')]
    BY <1>0, <1>1, <1>2 DEF TypeOK
  <2>4. /\ running' \in SUBSET (AllNames \X (1..last'))
        /\ late' \in SUBSET (AllNames \X (1..last'))
    BY <1>1, <1>2
  <2>5. QED
    BY <1>0, <1>1, <1>2, <2>1, <2>2, <2>3, <2>4 DEF TypeOK, Steps, AllNames, NoCat
<1>4. LockInv' /\ ResolveInv'
  BY <1>1, FreeAssumption DEF LockInv, ResolveInv
<1>5. NoExecutorWithoutDatabase'
  BY <1>1 DEF NoExecutorWithoutDatabase
<1>6. OneSchedulerPerDatabase'
  <2> SUFFICES ASSUME NEW n \in AllNames
               PROVE  {g \in 1..k : <<n, g>> \in running'} = {execs'[n]} \ {NoCat}
    BY <1>1 DEF OneSchedulerPerDatabase
  <2>1. CASE n \in Loadable
    BY <1>1, <1>2, <2>1 DEF NoCat
  <2>2. CASE n \notin Loadable
    BY <1>1, <1>2, <2>2 DEF NoCat
  <2>3. QED
    BY <2>1, <2>2
<1>7. QED
  BY <1>3, <1>4, <1>5, <1>6 DEF RegistryInv

\* The steps of a statement that leave cluster, registry and lock alone.
LEMMA StatementStep ==
  ASSUME RegistryInv, UNCHANGED work, NEW c \in Clients, NEW n \in AllNames,
         \/ CreateCheck(c, n) \/ CreatePersist(c) \/ CreateUndo(c)
         \/ DropCheck(c, n) \/ DropStored(c)
         \/ BeginSave(c) \/ Save(c) \/ Finish(c)
  PROVE  RegistryInv'
<1>0. TypeOK /\ arg[c] \in AllNames /\ db[c] \in AllNames
  BY DEF RegistryInv, TypeOK
<1>1. CASE CreateCheck(c, n)
  <2>1. StoreOK' /\ arg' \in [Clients -> AllNames]
    BY <1>0, <1>1 DEF CreateCheck, StoreOK, TypeOK, store
  <2>2. QED
    BY <1>1, <2>1, QuietStep DEF CreateCheck, Steps
<1>2. CASE CreatePersist(c)
  <2>0. 1 \in 1..last \/ last = 0
    BY <1>0 DEF TypeOK
  <2>1. StoreOK'
    BY <1>0, <1>2 DEF CreatePersist, StoreCreate, SaveMetadata, Fault, StoreOK, TypeOK, store
  <2>2. \E s \in Steps \ {"register", "prune"} : Goto(c, s)
    BY <1>2 DEF CreatePersist, Steps
  <2>3. QED
    BY <1>0, <1>2, <2>1, <2>2, QuietStep DEF CreatePersist, local, TypeOK
<1>3. CASE CreateUndo(c)
  <2>1. StoreOK'
    <3>1. CASE StoreDelete(arg[c]) /\ (SaveMetadata \/ Fault)
      BY <1>0, <1>3, <3>1 DEF CreateUndo, StoreDelete, SaveMetadata, Fault, StoreOK, TypeOK
    <3>2. CASE StoreDeleteFails
      BY <1>0, <1>3, <3>2 DEF CreateUndo, StoreDeleteFails, Fault, StoreOK, TypeOK
    <3>3. QED
      BY <1>3, <3>1, <3>2 DEF CreateUndo
  <2>2. QED
    BY <1>0, <1>3, <2>1, QuietStep DEF CreateUndo, Steps, local, TypeOK
<1>4. CASE DropCheck(c, n)
  <2>1. StoreOK' /\ arg' \in [Clients -> AllNames]
    BY <1>0, <1>4 DEF DropCheck, StoreOK, TypeOK, store
  <2>2. QED
    BY <1>4, <2>1, QuietStep DEF DropCheck, Steps
<1>5. CASE DropStored(c)
  <2>1. StoreOK'
    BY <1>0, <1>5 DEF DropStored, StoreDelete, StoreDeleteFails, SaveMetadata, Fault,
                      StoreOK, TypeOK
  <2>2. \E s \in Steps \ {"register", "prune"} : Goto(c, s)
    BY <1>5 DEF DropStored, Steps
  <2>3. QED
    BY <1>0, <1>5, <2>1, <2>2, QuietStep DEF DropStored, local, TypeOK
<1>6. CASE BeginSave(c)
  <2>1. StoreOK'
    BY <1>0, <1>6 DEF BeginSave, StoreOK, TypeOK, store
  <2>2. QED
    BY <1>0, <1>6, <2>1, QuietStep DEF BeginSave, Steps, local, TypeOK
<1>7. CASE Save(c)
  <2>1. cat[c] \in 1..last
    BY <1>0, <1>7 DEF RegistryInv, ResolveInv, Save, TypeOK, NoCat
  <2>2. StoreOK'
    BY <1>0, <1>7, <2>1, StoreTypes DEF Save
  <2>3. QED
    BY <1>0, <1>7, <2>2, QuietStep DEF Save, Steps, local, TypeOK
<1>8. CASE Finish(c)
  <2>1. StoreOK'
    BY <1>0, <1>8 DEF Finish, StoreOK, TypeOK, store
  <2>2. QED
    BY <1>0, <1>8, <2>1, QuietStep DEF Finish, Steps, local, TypeOK
<1>9. QED
  BY <1>1, <1>2, <1>3, <1>4, <1>5, <1>6, <1>7, <1>8

\* A job's save touches the store only.
LEMMA JobStep ==
  ASSUME RegistryInv, UNCHANGED work, NEW n \in AllNames, NEW g \in 1..last, JobSave(n, g)
  PROVE  RegistryInv'
<1>1. StoreOK'
  BY StoreTypes DEF JobSave, RegistryInv
<1>2. UNCHANGED <<dbs, last, registry, hmu, pc, local>>
  BY DEF JobSave
<1>3. QED
  BY <1>1, <1>2
     DEF RegistryInv, StoreOK, TypeOK, LockInv, ResolveInv, NoExecutorWithoutDatabase,
         HookPending, OneSchedulerPerDatabase, registry, local

\* Every step keeps the invariant.
LEMMA NextRegistry == RegistryInv /\ [Next]_vars => RegistryInv'
<1> SUFFICES ASSUME RegistryInv, [Next]_vars PROVE RegistryInv'
  OBVIOUS
<1>0. UNCHANGED work
  BY DEF Next, vars
<1>1. ASSUME NEW c \in Clients, NEW n \in AllNames,
             Resolve(c, n) \/ CreateCheck(c, n) \/ DropCheck(c, n)
      PROVE  RegistryInv'
  BY <1>0, <1>1, ResolveStep, StatementStep
<1>2. ASSUME NEW c \in Clients, Continue(c)
      PROVE  RegistryInv'
  <2> Default \in AllNames
    BY DEF AllNames
  <2>1. CASE Register(c) \/ CreateRegister(c) \/ DropCatalog(c)
    BY <1>0, <2>1, RegisterStep, CreateRegisterStep, DropCatalogStep
  <2>2. CASE HookLock(c) \/ (\E n \in AllNames : Prune(c, n)) \/ PruneDone(c)
    BY <1>0, <2>2, HookLockStep, PruneStep, PruneDoneStep
  <2>3. CASE CreatePersist(c) \/ CreateUndo(c) \/ DropStored(c)
             \/ BeginSave(c) \/ Save(c) \/ Finish(c)
    BY <1>0, <2>3, StatementStep
  <2>4. QED
    BY <1>2, <2>1, <2>2, <2>3 DEF Continue
<1>3. ASSUME NEW n \in AllNames, NEW g \in 1..last, JobSave(n, g)
      PROVE  RegistryInv'
  BY <1>0, <1>3, JobStep
<1>4. CASE Restart
  BY <1>0, <1>4, RestartStep
<1>5. CASE UNCHANGED vars
  BY <1>5
     DEF vars, RegistryInv, TypeOK, LockInv, ResolveInv, NoExecutorWithoutDatabase,
         HookPending, OneSchedulerPerDatabase, store, registry, local
<1>6. QED
  BY <1>1, <1>2, <1>3, <1>4, <1>5 DEF Next

\* The state always has its types: no name denotes a catalog that was never
\* allocated.
THEOREM TypeCorrect == Spec => []TypeOK
<1>1. RegistryInv => TypeOK
  BY DEF RegistryInv
<1>2. QED
  BY <1>1, InitRegistry, NextRegistry, PTL DEF Spec

\* An executor whose database is gone has a drop hook on its way to it, in
\* every interleaving of sessions, jobs and restarts (handler.go:60).
THEOREM ExecutorsHaveDatabases == Spec => []NoExecutorWithoutDatabase
<1>1. RegistryInv => NoExecutorWithoutDatabase
  BY DEF RegistryInv
<1>2. QED
  BY <1>1, InitRegistry, NextRegistry, PTL DEF Spec

\* The live schedulers are exactly those of the registered executors, one
\* per database.
THEOREM SchedulersAreUnique == Spec => []OneSchedulerPerDatabase
<1>1. RegistryInv => OneSchedulerPerDatabase
  BY DEF RegistryInv
<1>2. QED
  BY <1>1, InitRegistry, NextRegistry, PTL DEF Spec

\* What one step may do to a name that neither metadata document has.
Unregistered(n) ==
  /\ n \in meta' => \E c \in Clients : pc[c] = "persist" /\ arg[c] = n
  /\ tableKeys'[n] \subseteq tableKeys[n]

\* A dropped database is re-created by CREATE DATABASE alone, and no table
\* is saved into its key space (pebble_storage.go:96).
THEOREM DroppedStaysDropped == Spec => NoSilentRecreation
<1>1. ASSUME TypeOK, [Next]_vars, NEW n \in AllNames \ (meta \cup disk)
      PROVE  Unregistered(n)
  <2> USE <1>1 DEF Unregistered
  <2>1. CASE UNCHANGED <<meta, tableKeys>>
    BY <2>1
  <2>2. ASSUME NEW c \in Clients, CreatePersist(c) \/ CreateUndo(c) \/ DropStored(c)
        PROVE  Unregistered(n)
    <3>1. CASE CreatePersist(c)
      BY <3>1 DEF CreatePersist, StoreCreate, store
    <3>2. CASE CreateUndo(c)
      BY <3>2 DEF CreateUndo, StoreDelete, StoreDeleteFails, TypeOK
    <3>3. CASE DropStored(c)
      BY <3>3 DEF DropStored, StoreDelete, StoreDeleteFails, TypeOK
    <3>4. QED
      BY <2>2, <3>1, <3>2, <3>3
  <2>3. ASSUME NEW m \in AllNames, NEW g, StoreTable(m, g) \/ StoreObject(m, g)
        PROVE  Unregistered(n)
    BY <2>3 DEF StoreTable, StoreObject, TypeOK
  <2>4. CASE Restart
    <3>1. PICK k \in last..work.catalogs : \E fresh \in [Loadable -> (last + 1)..k] :
            Reloaded(k, fresh)
      BY <2>4 DEF Restart
    <3>2. QED
      BY <3>1 DEF Reloaded, Loadable
  <2>5. ASSUME NEW c \in Clients, Continue(c)
        PROVE  Unregistered(n)
    <3> db[c] \in AllNames
      BY DEF TypeOK
    <3>1. CASE Save(c)
      BY <2>3, <2>1, <3>1 DEF Save, store
    <3>2. CASE Register(c) \/ Finish(c) \/ BeginSave(c) \/ CreateRegister(c)
               \/ DropCatalog(c) \/ HookLock(c) \/ (\E m \in AllNames : Prune(c, m))
               \/ PruneDone(c)
      BY <2>1, <3>2 DEF Register, Finish, BeginSave, CreateRegister, DropCatalog,
                        HookLock, Prune, PruneDone, store
    <3>3. QED
      BY <2>2, <2>5, <3>1, <3>2 DEF Continue
  <2>6. ASSUME NEW c \in Clients, NEW m \in AllNames,
               Resolve(c, m) \/ CreateCheck(c, m) \/ DropCheck(c, m)
        PROVE  Unregistered(n)
    BY <2>1, <2>6 DEF Resolve, CreateCheck, DropCheck, store
  <2>7. ASSUME NEW m \in AllNames, NEW g \in 1..last, JobSave(m, g)
        PROVE  Unregistered(n)
    BY <2>3, <2>7 DEF JobSave
  <2>8. CASE UNCHANGED vars
    BY <2>1, <2>8 DEF vars, store
  <2>9. QED
    BY <2>4, <2>5, <2>6, <2>7, <2>8 DEF Next
<1>2. TypeOK /\ [Next]_vars =>
        [\A n \in AllNames \ (meta \cup disk) : Unregistered(n)]_vars
  BY <1>1
<1>3. QED
  BY <1>2, TypeCorrect, PTL DEF Spec, NoSilentRecreation, Unregistered

----------------------------------------------------------------------------
(* One client alone, and a disk that takes every write                     *)

\* Only the clients of the workload have statements under way.
Workers == \A c \in Clients : pc[c] # "idle" => c \in work.clients

\* What the single client knows at each point of its statement: the catalog
\* it runs in is that of its session, which it cannot drop; between the two
\* halves of CREATE and DROP DATABASE nobody has interfered.
AloneAt(c) ==
  /\ pc[c] # "idle" => cat[c] = dbs[db[c]]
  /\ pc[c] = "undo" => arg[c] \in Invalid
  /\ pc[c] \in {"persist", "create"} => dbs[arg[c]] = NoCat
  /\ pc[c] = "create" => arg[c] \in meta
  /\ pc[c] \in {"delete", "drop"} => arg[c] # db[c]
  /\ pc[c] = "drop" => arg[c] \notin meta

\* A name that cannot be a database's has no catalog, executor, tables or jobs.
Barren(n) ==
  /\ dbs[n] = NoCat /\ execs[n] = NoCat /\ tableKeys[n] = {}
  /\ \A g : <<n, g>> \notin late

\* How cluster, registry and store agree on one name: they differ only
\* between the two halves of CREATE and DROP DATABASE, or when the name is
\* not one for a database and a crash has left it in the document.  Under it
\* lie only the tables of its catalog and of jobs that were in the middle of
\* a statement, and none when the document lacks it.
AgreeOn(n) ==
  /\ execs[n] # NoCat /\ dbs[n] # NoCat => execs[n] = dbs[n]
  /\ \A g \in tableKeys[n] : <<n, g>> \in late \/ (g = dbs[n] /\ g # NoCat)
  /\ n \notin meta => tableKeys[n] = {}
  /\ n \in Invalid => Barren(n)
  /\ dbs[n] # NoCat /\ n \notin meta => \E c \in Clients : arg[c] = n /\ pc[c] = "drop"
  /\ dbs[n] = NoCat /\ n \in meta \ Invalid =>
       \E c \in Clients : arg[c] = n /\ pc[c] = "create"

Agreement ==
  /\ meta = disk
  /\ \A c \in Clients : AloneAt(c)
  /\ \A n \in AllNames : AgreeOn(n)

\* The inductive invariant of the properties about an undisturbed client.
SerialInv ==
  /\ RegistryInv
  /\ Workers
  /\ Undisturbed => Agreement

LEMMA InitSerial == Init => SerialInv
<1> SUFFICES ASSUME Init PROVE SerialInv
  OBVIOUS
<1>1. RegistryInv
  BY InitRegistry
<1>2. Workers /\ \A c \in Clients : AloneAt(c)
  BY DEF Init, Workers, AloneAt
<1>3. ASSUME NEW n \in AllNames PROVE AgreeOn(n)
  BY DefaultAssumption, InvalidAssumption DEF Init, AgreeOn, Barren, AllNames, NoCat
<1>4. QED
  BY <1>1, <1>2, <1>3 DEF SerialInv, Agreement, Init

LEMMA NextWorkers == TypeOK /\ Workers /\ [Next]_vars => Workers'
<1> SUFFICES ASSUME TypeOK, Workers, [Next]_vars, NEW c \in Clients, pc'[c] # "idle"
             PROVE  c \in work'.clients
  BY DEF Workers
<1>0. work' = work
  BY DEF Next, vars
<1>1. pc[c] # "idle" => c \in work'.clients
  BY <1>0 DEF Workers
<1>2. ASSUME NEW d \in Clients, NEW n \in AllNames,
             Resolve(d, n) \/ CreateCheck(d, n) \/ DropCheck(d, n)
      PROVE  c \in work'.clients
  BY <1>0, <1>1, <1>2 DEF Resolve, CreateCheck, DropCheck, Goto, TypeOK
<1>3. ASSUME NEW d \in Clients, Continue(d) PROVE c \in work'.clients
  <2>1. pc[d] # "idle" /\ \A e \in Clients \ {d} : pc'[e] = pc[e]
    BY <1>3 DEF Continue, Register, Finish, BeginSave, Save, CreatePersist, CreateRegister,
                CreateUndo, DropStored, DropCatalog, HookLock, Prune, PruneDone, Goto, TypeOK
  <2>2. QED
    BY <1>0, <1>1, <2>1 DEF Workers
<1>4. ASSUME NEW n \in AllNames, NEW g \in 1..last, JobSave(n, g) PROVE c \in work'.clients
  BY <1>1, <1>4 DEF JobSave
<1>5. CASE Restart
  BY <1>5 DEF Restart, Reloaded
<1>6. CASE UNCHANGED vars
  BY <1>1, <1>6 DEF vars
<1>7. QED
  BY <1>2, <1>3, <1>4, <1>5, <1>6 DEF Next

\* With no fault allowed, the disk takes every write.
LEMMA NoFault == TypeOK /\ Undisturbed => ~Fault
  BY DEF TypeOK, Undisturbed, Fault

\* One client alone: what AgreeOn says of the client that c is, if any is.
AgreeFor(c, n) ==
  /\ execs[n] # NoCat /\ dbs[n] # NoCat => execs[n] = dbs[n]
  /\ \A g \in tableKeys[n] : <<n, g>> \in late \/ (g = dbs[n] /\ g # NoCat)
  /\ n \notin meta => tableKeys[n] = {}
  /\ n \in Invalid => Barren(n)
  /\ dbs[n] # NoCat /\ n \notin meta => arg[c] = n /\ pc[c] = "drop"
  /\ dbs[n] = NoCat /\ n \in meta \ Invalid => arg[c] = n /\ pc[c] = "create"

\* What holds of a client c while the others have nothing under way.
OnlyClient(c) ==
  /\ RegistryInv /\ Undisturbed /\ meta = disk /\ AloneAt(c)
  /\ \A d \in Clients \ {c} : pc[d] = "idle"
  /\ \A n \in AllNames : AgreeFor(c, n)

\* The steps of executorFor and of pruneExecutors: an undisturbed client finds
\* the cluster's own catalog, and prunes names that are gone.
LEMMA RegistrySerial ==
  ASSUME NEW c \in Clients, OnlyClient(c), NEW m \in AllNames,
         \/ Resolve(c, m) \/ Register(c) \/ HookLock(c) \/ Prune(c, m) \/ PruneDone(c)
  PROVE  meta' = disk' /\ AloneAt(c)' /\ \A n \in AllNames : AgreeFor(c, n)'
<1> USE DEF OnlyClient, Goto
<1>0. TypeOK /\ cat[c] \in 0..last /\ db[c] \in AllNames
  BY DEF RegistryInv, TypeOK
<1>1. meta' = meta /\ disk' = disk /\ tableKeys' = tableKeys /\ dbs' = dbs /\ arg' = arg
  BY DEF Resolve, Register, HookLock, Prune, PruneDone, store, local
<1>2. pc[c] \notin {"create", "drop"} /\ pc'[c] \in {"register", "run", "prune"}
  BY <1>0 DEF Resolve, Register, HookLock, Prune, PruneDone, TypeOK
<1>3. AloneAt(c)'
  BY <1>0, <1>1, <1>2 DEF AloneAt, Resolve, Register, HookLock, Prune, PruneDone, TypeOK, local
<1>4. ASSUME NEW n \in AllNames PROVE AgreeFor(c, n)'
  <2>1. execs'[n] # NoCat /\ dbs[n] # NoCat => execs'[n] = dbs[n]
    <3>1. CASE Register(c)
      <4>1. cat[c] = dbs[db[c]]
        BY <3>1 DEF AloneAt, Register
      <4>2. QED
        BY <1>0, <3>1, <4>1 DEF Register, TypeOK, registry, AgreeFor
    <3>2. CASE Prune(c, m)
      BY <1>0, <3>2 DEF Prune, TypeOK, registry, AgreeFor, NoCat
    <3>3. CASE Resolve(c, m) \/ HookLock(c) \/ PruneDone(c)
      BY <3>3 DEF Resolve, HookLock, PruneDone, registry, AgreeFor
    <3>4. QED
      BY <3>1, <3>2, <3>3
  <2>2. late \subseteq late'
    BY DEF Resolve, Register, HookLock, Prune, PruneDone, MidStatement, registry
  <2>3. n \in Invalid => Barren(n)'
    <3> SUFFICES ASSUME n \in Invalid PROVE Barren(n)'
      OBVIOUS
    <3>1. Barren(n) /\ \A g : <<n, g>> \notin running
      <4>1. Barren(n)
        BY DEF AgreeFor
      <4>2. {g \in 1..last : <<n, g>> \in running} = {}
        BY <4>1 DEF Barren, RegistryInv, OneSchedulerPerDatabase
      <4>3. QED
        BY <1>0, <4>1, <4>2 DEF TypeOK
    <3>2. CASE Register(c)
      <4>1. cat[c] = dbs[db[c]] /\ cat[c] # NoCat
        BY <3>2 DEF AloneAt, Register, RegistryInv, ResolveInv
      <4>2. db[c] # n
        BY <3>1, <4>1 DEF Barren
      <4>3. execs'[n] = execs[n] /\ \A g : <<n, g>> \notin late'
        BY <1>0, <3>1, <3>2, <4>2 DEF Register, MidStatement, Barren, registry, TypeOK
      <4>4. QED
        BY <1>1, <3>1, <4>3 DEF Barren
    <3>3. CASE Prune(c, m)
      <4>1. execs'[n] = NoCat /\ \A g : <<n, g>> \notin late'
        BY <1>0, <3>1, <3>3 DEF Prune, MidStatement, Barren, registry, TypeOK
      <4>2. QED
        BY <1>1, <3>1, <4>1 DEF Barren
    <3>4. CASE Resolve(c, m) \/ HookLock(c) \/ PruneDone(c)
      BY <1>1, <3>1, <3>4 DEF Resolve, HookLock, PruneDone, registry, Barren
    <3>5. QED
      BY <3>2, <3>3, <3>4
  <2>4. QED
    BY <1>1, <1>2, <2>1, <2>2, <2>3 DEF AgreeFor
<1>5. QED
  BY <1>1, <1>3, <1>4

\* CREATE DATABASE: nobody can have taken the name meanwhile, and no executor
\* is left under it; what is undone is a name that cannot be a database's.
LEMMA CreateSerial ==
  ASSUME NEW c \in Clients, OnlyClient(c), NEW m \in AllNames,
         CreateCheck(c, m) \/ CreatePersist(c) \/ CreateRegister(c) \/ CreateUndo(c)
  PROVE  meta' = disk' /\ AloneAt(c)' /\ \A n \in AllNames : AgreeFor(c, n)'
<1> USE DEF OnlyClient, Goto
<1>0. /\ TypeOK /\ cat[c] \in 0..last /\ db[c] \in AllNames /\ arg[c] \in AllNames
      /\ \A n \in AllNames : dbs[n] \in 0..last
  BY DEF RegistryInv, TypeOK
<1>1. CASE CreateCheck(c, m)
  <2>1. /\ pc[c] = "run" /\ pc'[c] = "persist" /\ arg'[c] = m /\ dbs[m] = NoCat
        /\ UNCHANGED <<dbs, store, registry, db, cat>>
    BY <1>0, <1>1 DEF CreateCheck, TypeOK
  <2>2. QED
    BY <1>0, <2>1 DEF AloneAt, AgreeFor, Barren, store, registry
<1>2. CASE CreatePersist(c)
  <2>1. /\ pc[c] = "persist" /\ pc'[c] = "create" /\ UNCHANGED <<dbs, registry, local, tableKeys>>
        /\ meta' = meta \cup {arg[c]} /\ disk' = meta'
    BY <1>0, <1>2, NoFault DEF CreatePersist, StoreCreate, SaveMetadata, store, TypeOK
  <2>2. dbs[arg[c]] = NoCat
    BY <1>0, <2>1 DEF AloneAt
  <2>3. AloneAt(c)'
    BY <1>0, <2>1, <2>2 DEF AloneAt, local
  <2>4. ASSUME NEW n \in AllNames PROVE AgreeFor(c, n)'
    BY <1>0, <2>1, <2>2 DEF AgreeFor, Barren, registry, local
  <2>5. QED
    BY <2>1, <2>3, <2>4
<1>3. CASE CreateRegister(c) /\ arg[c] \notin Invalid
  <2>0. pc[c] = "create" /\ dbs[arg[c]] = NoCat
    BY <1>3 DEF CreateRegister, AloneAt
  <2>1. /\ pc'[c] = "run" /\ dbs' = [dbs EXCEPT ![arg[c]] = last + 1]
        /\ UNCHANGED <<store, registry, local>>
    BY <1>0, <1>3, <2>0 DEF CreateRegister, TypeOK
  <2>2. execs[arg[c]] = NoCat /\ arg[c] \in meta
    <3>1. ~HookPending(arg[c])
      BY <2>0 DEF HookPending
    <3>2. QED
      BY <1>0, <2>0, <3>1 DEF AloneAt, RegistryInv, NoExecutorWithoutDatabase
  <2>3. \A n \in AllNames : dbs'[n] = IF n = arg[c] THEN last + 1 ELSE dbs[n]
    BY <1>0, <2>1 DEF TypeOK
  <2>4. last + 1 # NoCat /\ cat[c] = dbs[db[c]] /\ cat[c] # NoCat
    BY <1>0, <2>0 DEF NoCat, TypeOK, AloneAt, RegistryInv, ResolveInv
  <2>5. AloneAt(c)'
    BY <1>0, <2>0, <2>1, <2>3, <2>4 DEF AloneAt, local
  <2>6. ASSUME NEW n \in AllNames PROVE AgreeFor(c, n)'
    <3>1. CASE n = arg[c]
      BY <1>0, <1>3, <2>0, <2>1, <2>2, <2>3, <2>4, <3>1 DEF AgreeFor, registry, local, store
    <3>2. CASE n # arg[c]
      BY <1>0, <2>0, <2>1, <2>3, <3>2 DEF AgreeFor, Barren, registry, local, store
    <3>3. QED
      BY <3>1, <3>2
  <2>7. QED
    BY <2>1, <2>5, <2>6 DEF store
<1>4. CASE CreateRegister(c) /\ arg[c] \in Invalid
  <2>1. /\ pc[c] = "create" /\ pc'[c] = "undo" /\ UNCHANGED <<dbs, store, registry, local>>
    BY <1>0, <1>4 DEF CreateRegister, TypeOK
  <2>2. QED
    BY <1>0, <1>4, <2>1 DEF AloneAt, AgreeFor, Barren, store, registry, local
<1>5. CASE CreateUndo(c)
  <2>1. /\ pc[c] = "undo" /\ pc'[c] = "idle" /\ UNCHANGED <<dbs, registry, local>>
        /\ meta' = meta \ {arg[c]} /\ disk' = meta' /\ arg[c] \in Invalid
        /\ \A n \in AllNames : tableKeys'[n] = IF n = arg[c] THEN {} ELSE tableKeys[n]
    BY <1>0, <1>5, NoFault
       DEF CreateUndo, StoreDelete, StoreDeleteFails, SaveMetadata, AloneAt, TypeOK
  <2>2. AloneAt(c)'
    BY <2>1 DEF AloneAt
  <2>3. ASSUME NEW n \in AllNames PROVE AgreeFor(c, n)'
    BY <1>0, <2>1 DEF AgreeFor, Barren, registry, local
  <2>4. QED
    BY <2>1, <2>2, <2>3
<1>6. QED
  BY <1>1, <1>2, <1>3, <1>4, <1>5

\* DROP DATABASE: the keys and the saved name go first, then the catalog.
LEMMA DropSerial ==
  ASSUME NEW c \in Clients, OnlyClient(c), NEW m \in AllNames,
         DropCheck(c, m) \/ DropStored(c) \/ DropCatalog(c)
  PROVE  meta' = disk' /\ AloneAt(c)' /\ \A n \in AllNames : AgreeFor(c, n)'
<1> USE DEF OnlyClient, Goto
<1>0. /\ TypeOK /\ cat[c] \in 0..last /\ db[c] \in AllNames /\ arg[c] \in AllNames
      /\ \A n \in AllNames : dbs[n] \in 0..last
  BY DEF RegistryInv, TypeOK
<1>1. CASE DropCheck(c, m)
  <2>1. /\ pc[c] = "run" /\ pc'[c] = "delete" /\ arg'[c] = m /\ m # db[c]
        /\ UNCHANGED <<dbs, store, registry, db, cat>>
    BY <1>0, <1>1 DEF DropCheck, TypeOK
  <2>2. QED
    BY <1>0, <2>1 DEF AloneAt, AgreeFor, Barren, store, registry
<1>2. CASE DropStored(c)
  <2>1. /\ pc[c] = "delete" /\ pc'[c] = "drop" /\ UNCHANGED <<dbs, registry, local>>
        /\ meta' = meta \ {arg[c]} /\ disk' = meta'
        /\ \A n \in AllNames : tableKeys'[n] = IF n = arg[c] THEN {} ELSE tableKeys[n]
    BY <1>0, <1>2, NoFault DEF DropStored, StoreDelete, StoreDeleteFails, SaveMetadata, TypeOK
  <2>2. AloneAt(c)'
    BY <1>0, <2>1 DEF AloneAt, local
  <2>3. ASSUME NEW n \in AllNames PROVE AgreeFor(c, n)'
    BY <1>0, <2>1 DEF AgreeFor, Barren, registry, local
  <2>4. QED
    BY <2>1, <2>2, <2>3
<1>3. CASE DropCatalog(c)
  <2>1. /\ pc[c] = "drop" /\ pc'[c] \in {"idle", "hook"} /\ UNCHANGED <<store, registry, local>>
        /\ \A n \in AllNames : dbs'[n] = IF n = arg[c] THEN NoCat ELSE dbs[n]
        /\ arg[c] # db[c] /\ arg[c] \notin meta
    BY <1>0, <1>3 DEF DropCatalog, TypeOK, AloneAt
  <2>2. AloneAt(c)'
    BY <1>0, <2>1 DEF AloneAt, local
  <2>3. tableKeys[arg[c]] = {}
    BY <1>0, <2>1 DEF AgreeFor
  <2>4. ASSUME NEW n \in AllNames PROVE AgreeFor(c, n)'
    BY <1>0, <2>1, <2>3 DEF AgreeFor, Barren, registry, local, store
  <2>5. QED
    BY <2>1, <2>2, <2>4 DEF store
<1>4. QED
  BY <1>1, <1>2, <1>3

\* A save through the storage view, by a statement or by a job, of catalog g
\* under name m: refused when the document lacks the name, and nothing but
\* a table of g under m otherwise.
LEMMA StoreSerial ==
  ASSUME TypeOK, meta = disk, Undisturbed, NEW m \in AllNames, NEW g,
         StoreTable(m, g) \/ StoreObject(m, g) \/ UNCHANGED store
  PROVE  /\ meta' = meta /\ disk' = meta
         /\ \A n \in AllNames : \/ tableKeys'[n] = tableKeys[n]
                                \/ /\ n = m /\ m \in meta
                                   /\ tableKeys'[n] = tableKeys[n] \cup {g}
<1>1. CASE StoreTable(m, g)
  BY <1>1, NoFault DEF StoreTable, SaveMetadata, TypeOK
<1>2. CASE StoreObject(m, g)
  BY <1>2 DEF StoreObject
<1>3. CASE UNCHANGED store
  BY <1>3 DEF store
<1>4. QED
  BY <1>1, <1>2, <1>3

\* The other statements.
LEMMA SaveSerial ==
  ASSUME NEW c \in Clients, OnlyClient(c), BeginSave(c) \/ Save(c) \/ Finish(c)
  PROVE  meta' = disk' /\ AloneAt(c)' /\ \A n \in AllNames : AgreeFor(c, n)'
<1> USE DEF OnlyClient, Goto
<1>0. TypeOK /\ db[c] \in AllNames /\ \A n \in AllNames : dbs[n] \in 0..last
  BY DEF RegistryInv, TypeOK
<1>1. /\ pc[c] \in {"run", "save"} /\ pc'[c] \in {"run", "save", "idle"}
      /\ UNCHANGED <<dbs, registry, local>>
  BY <1>0 DEF BeginSave, Save, Finish, TypeOK
<1>2. AloneAt(c)'
  BY <1>1 DEF AloneAt, local
<1>3. cat[c] = dbs[db[c]] /\ cat[c] # NoCat
  BY <1>1 DEF AloneAt, RegistryInv, ResolveInv
<1>4. \/ StoreTable(db[c], cat[c]) \/ StoreObject(db[c], cat[c]) \/ UNCHANGED store
  BY DEF BeginSave, Save, Finish
<1>5. /\ meta' = meta /\ disk' = meta
      /\ \A n \in AllNames : \/ tableKeys'[n] = tableKeys[n]
                             \/ /\ n = db[c] /\ db[c] \in meta
                                /\ tableKeys'[n] = tableKeys[n] \cup {cat[c]}
  BY <1>0, <1>4, StoreSerial
<1>6. ASSUME NEW n \in AllNames PROVE AgreeFor(c, n)'
  BY <1>0, <1>1, <1>3, <1>5 DEF AgreeFor, Barren, registry, local
<1>7. QED
  BY <1>2, <1>5, <1>6

\* A job: its scheduler belongs to the executor of the cluster's own catalog,
\* or has been cancelled in the middle of the statement.
LEMMA JobSerial ==
  ASSUME RegistryInv, Undisturbed, Agreement, NEW m \in AllNames, NEW g \in 1..last,
         JobSave(m, g), \A c, d \in Clients : pc[c] # "idle" /\ pc[d] # "idle" => c = d
  PROVE  Agreement'
<1>0. TypeOK /\ UNCHANGED <<dbs, registry, pc, local>> /\ StoreTable(m, g)
  BY DEF RegistryInv, JobSave
<1>1. <<m, g>> \notin late => execs[m] = g /\ g # NoCat
  BY DEF RegistryInv, OneSchedulerPerDatabase, JobSave, NoCat
<1>2. m \notin Invalid
  BY <1>1 DEF Agreement, AgreeOn, Barren
<1>3. m \in meta => <<m, g>> \in late \/ (g = dbs[m] /\ g # NoCat)
  <2> SUFFICES ASSUME m \in meta, <<m, g>> \notin late, g # dbs[m] PROVE FALSE
    BY <1>1
  <2>1. dbs[m] = NoCat
    BY <1>1 DEF Agreement, AgreeOn
  <2>2. \E c \in Clients : pc[c] = "create"
    BY <1>2, <2>1 DEF Agreement, AgreeOn
  <2>3. \E c \in Clients : pc[c] \in {"hook", "prune"}
    BY <1>1, <2>1 DEF RegistryInv, NoExecutorWithoutDatabase, HookPending
  <2>4. QED
    BY <2>2, <2>3
<1>4. /\ meta' = meta /\ disk' = meta
      /\ \A n \in AllNames : \/ tableKeys'[n] = tableKeys[n]
                             \/ /\ n = m /\ m \in meta
                                /\ tableKeys'[n] = tableKeys[n] \cup {g}
  BY <1>0, StoreSerial DEF Agreement
<1>5. ASSUME NEW n \in AllNames PROVE AgreeOn(n)'
  BY <1>0, <1>2, <1>3, <1>4 DEF Agreement, AgreeOn, Barren, registry, local
<1>6. ASSUME NEW c \in Clients PROVE AloneAt(c)'
  BY <1>0, <1>4 DEF Agreement, AloneAt, local
<1>7. QED
  BY <1>4, <1>5, <1>6 DEF Agreement

\* A restart: one fresh catalog per name of the saved document.
LEMMA RestartSerial ==
  ASSUME RegistryInv, Agreement, Restart
  PROVE  Agreement'
<1>0. TypeOK
  BY DEF RegistryInv
<1>1. PICK k \in last..work.catalogs : \E fresh \in [Loadable -> (last + 1)..k] :
        Reloaded(k, fresh)
  BY DEF Restart
<1>2. PICK fresh \in [Loadable -> (last + 1)..k] :
        /\ dbs' = [n \in AllNames |-> IF n \in Loadable THEN fresh[n] ELSE NoCat]
        /\ meta' = disk /\ disk' = disk
        /\ tableKeys' = [n \in AllNames |->
              IF n \in Loadable /\ tableKeys[n] # {} THEN {fresh[n]} ELSE tableKeys[n]]
        /\ execs' = dbs' /\ late' = {}
        /\ pc' = [c \in Clients |-> "idle"]
  BY <1>1 DEF Reloaded
<1>3. \A n \in Loadable : fresh[n] # NoCat
  BY <1>0 DEF NoCat, TypeOK
<1>4. ASSUME NEW n \in AllNames PROVE AgreeOn(n)'
  <2>1. n \notin Loadable => tableKeys[n] = {}
    BY DEF Agreement, AgreeOn, Barren, Loadable
  <2>2. CASE n \in Loadable
    BY <1>2, <1>3, <2>2 DEF AgreeOn, Loadable
  <2>3. CASE n \notin Loadable
    BY <1>2, <2>1, <2>3 DEF AgreeOn, Barren, Loadable
  <2>4. QED
    BY <2>2, <2>3
<1>5. QED
  BY <1>2, <1>4 DEF Agreement, AloneAt

LEMMA NextSerial == SerialInv /\ [Next]_vars => SerialInv'
<1> SUFFICES ASSUME SerialInv, [Next]_vars, Undisturbed PROVE Agreement'
  <2>1. ASSUME SerialInv, [Next]_vars
        PROVE  RegistryInv' /\ Workers' /\ (Undisturbed' <=> Undisturbed)
    BY <2>1, NextRegistry, NextWorkers DEF SerialInv, RegistryInv, Undisturbed, Next, vars
  <2>2. QED
    BY <2>1 DEF SerialInv
<1>0. RegistryInv /\ TypeOK /\ Agreement
  BY DEF SerialInv, RegistryInv
<1>1. \A c, d \in Clients : pc[c] # "idle" /\ pc[d] # "idle" => c = d
  BY DEF SerialInv, Workers, Undisturbed
<1>2. ASSUME NEW c \in Clients, \A d \in Clients \ {c} : pc[d] = "idle" /\ pc'[d] = "idle",
             OnlyClient(c) =>
               meta' = disk' /\ AloneAt(c)' /\ \A n \in AllNames : AgreeFor(c, n)'
      PROVE  Agreement'
  <2>1. \A n \in AllNames : AgreeFor(c, n)
    BY <1>0, <1>2 DEF Agreement, AgreeOn, AgreeFor
  <2>2. OnlyClient(c)
    BY <1>0, <1>2, <2>1 DEF OnlyClient, Agreement
  <2>3. \A n \in AllNames : AgreeOn(n)'
    BY <1>2, <2>2 DEF AgreeOn, AgreeFor
  <2>4. \A d \in Clients : AloneAt(d)'
    BY <1>2, <2>2 DEF AloneAt
  <2>5. QED
    BY <1>2, <2>2, <2>3, <2>4 DEF Agreement
<1>3. ASSUME NEW c \in Clients, NEW n \in AllNames,
             Resolve(c, n) \/ CreateCheck(c, n) \/ DropCheck(c, n)
      PROVE  Agreement'
  <2>1. \A d \in Clients \ {c} : pc'[d] = pc[d]
    BY <1>0, <1>3 DEF Resolve, CreateCheck, DropCheck, Goto, TypeOK
  <2>2. \A d \in Clients \ {c} : pc[d] = "idle"
    BY <1>0, <1>1, <1>3 DEF Resolve, CreateCheck, DropCheck, SerialInv, Workers, Undisturbed
  <2>3. QED
    BY <1>2, <1>3, <2>1, <2>2, RegistrySerial, CreateSerial, DropSerial
<1>4. ASSUME NEW c \in Clients, Continue(c)
      PROVE  Agreement'
  <2>1. pc[c] # "idle" /\ \A d \in Clients \ {c} : pc'[d] = pc[d]
    BY <1>0, <1>4 DEF Continue, Register, Finish, BeginSave, Save, CreatePersist, CreateRegister,
                CreateUndo, DropStored, DropCatalog, HookLock, Prune, PruneDone, Goto, TypeOK
  <2>2. \A d \in Clients \ {c} : pc[d] = "idle"
    BY <1>1, <2>1
  <2>3. Default \in AllNames
    BY DEF AllNames
  <2>4. OnlyClient(c) => meta' = disk' /\ AloneAt(c)' /\ \A n \in AllNames : AgreeFor(c, n)'
    <3> SUFFICES ASSUME OnlyClient(c)
                 PROVE  meta' = disk' /\ AloneAt(c)' /\ \A n \in AllNames : AgreeFor(c, n)'
      OBVIOUS
    <3>1. CASE \/ Register(c) \/ HookLock(c) \/ (\E n \in AllNames : Prune(c, n)) \/ PruneDone(c)
      BY <2>3, <3>1, RegistrySerial
    <3>2. CASE CreatePersist(c) \/ CreateRegister(c) \/ CreateUndo(c)
      BY <2>3, <3>2, CreateSerial
    <3>3. CASE DropStored(c) \/ DropCatalog(c)
      BY <2>3, <3>3, DropSerial
    <3>4. CASE BeginSave(c) \/ Save(c) \/ Finish(c)
      BY <3>4, SaveSerial
    <3>5. QED
      BY <1>4, <3>1, <3>2, <3>3, <3>4 DEF Continue
  <2>5. QED
    BY <1>2, <2>1, <2>2, <2>4
<1>5. ASSUME NEW n \in AllNames, NEW g \in 1..last, JobSave(n, g)
      PROVE  Agreement'
  BY <1>0, <1>1, <1>5, JobSerial
<1>6. CASE Restart
  BY <1>0, <1>6, RestartSerial
<1>7. CASE UNCHANGED vars
  BY <1>0, <1>7
     DEF vars, store, registry, local, Agreement, AgreeOn, AloneAt, Barren
<1>8. QED
  BY <1>3, <1>4, <1>5, <1>6, <1>7 DEF Next

\* One client alone: every executor serves the cluster's own catalog, or the
\* drop hook is on its way (handler.go:42), whatever the jobs, crashes and
\* restarts in between.
THEOREM ExecutorsServeTheirDatabase == Spec => []ExecutorGoesWithDatabase
<1>1. SerialInv => ExecutorGoesWithDatabase
  <2> SUFFICES ASSUME SerialInv, Undisturbed, NEW n \in AllNames,
                      execs[n] # NoCat, execs[n] # dbs[n]
               PROVE  HookPending(n)
    BY DEF ExecutorGoesWithDatabase
  <2>1. dbs[n] = NoCat
    BY DEF SerialInv, Agreement, AgreeOn
  <2>2. QED
    BY <2>1 DEF SerialInv, RegistryInv, NoExecutorWithoutDatabase
<1>2. QED
  BY <1>1, InitSerial, NextSerial, PTL DEF Spec

\* One client alone, on a disk that takes every write: no database vanishes at
\* a restart, no dropped one comes back (executor_ddl.go:329 and :370), and no
\* catalog's tables lie under another's name (cluster.go:16), but for those
\* of a job that the drop met in the middle of a statement.
THEOREM StoreMirrors == Spec => []StoreMirrorsCluster
<1>1. SerialInv => StoreMirrorsCluster
  BY DEF SerialInv, Agreement, AgreeOn, StoreMirrorsCluster, Loadable
<1>2. QED
  BY <1>1, InitSerial, NextSerial, PTL DEF Spec

----------------------------------------------------------------------------
(* The slots of the semaphore                                              *)

Live == {"startup", "password", "ready"}

\* The accept loop holds a connection that is not served yet, and the
\* backlog's connections are others, each there once: so admitting one takes
\* one slot for one connection.
LoopInv ==
  /\ backlog \in Seq(Connections)
  /\ admitting \in Connections \cup {None}
  /\ admitting # None => link[admitting] = "accepted"
  /\ \A i \in 1..Len(backlog) : link[backlog[i]] = "backlog"
  /\ \A i, j \in 1..Len(backlog) : backlog[i] = backlog[j] => i = j

\* The inductive invariant.
SlotInv ==
  /\ link \in [Connections -> Links]
  /\ slots \in 0..MaxConns
  /\ slots = Cardinality(Served)
  /\ LoopInv

LEMMA ServedFinite == IsFiniteSet(Served) /\ Cardinality(Served) \in Nat
<1>1. Served \subseteq Connections
  BY DEF Served
<1>2. QED
  BY <1>1, ConnectionsAssumption, FS_Subset, FS_CardinalityType

LEMMA InitSlots == SessionInit => SlotInv
<1> SUFFICES ASSUME SessionInit PROVE SlotInv
  OBVIOUS
<1>1. Served = {}
  BY DEF SessionInit, Served
<1>2. Cardinality(Served) = 0
  BY <1>1, FS_EmptySet
<1>3. LoopInv
  BY DEF SessionInit, LoopInv
<1>4. QED
  BY <1>2, <1>3, MaxConnsAssumption DEF SessionInit, SlotInv, Links

\* A connection that is neither admitted nor closed keeps its slot.
LEMMA KeepsSlots ==
  ASSUME SlotInv, link' \in [Connections -> Links],
         \A c \in Connections : link'[c] \in Live <=> link[c] \in Live,
         slots' = slots, LoopInv'
  PROVE  SlotInv'
<1>1. Served' = Served
  BY DEF Served, Live
<1>2. QED
  BY <1>1 DEF SlotInv

\* Steps of connections that are being served leave the accept loop alone.
LEMMA KeepsLoop ==
  ASSUME SlotInv, NEW c \in Connections, link[c] \in Live, NEW l \in Links,
         link' = [link EXCEPT ![c] = l], UNCHANGED loop
  PROVE  LoopInv'
<1>1. admitting # c /\ \A i \in 1..Len(backlog) : backlog[i] # c
  BY NoneAssumption DEF SlotInv, LoopInv, Live
<1>2. \A i \in 1..Len(backlog) : backlog[i] \in Connections
  BY ElementOfSeq DEF SlotInv, LoopInv
<1>3. QED
  BY <1>1, <1>2 DEF SlotInv, LoopInv, loop

LEMMA ConnectStep ==
  ASSUME SlotInv, NEW c \in Connections, Connect(c)
  PROVE  SlotInv'
<1> USE DEF Connect
<1>1. link' \in [Connections -> Links] /\ slots' = slots
  BY DEF SlotInv, Links
<1>2. \A d \in Connections : link'[d] \in Live <=> link[d] \in Live
  BY DEF SlotInv, Live
<1>3. LoopInv'
  <2>1. backlog' \in Seq(Connections) /\ Len(backlog') = Len(backlog) + 1
    BY AppendProperties DEF SlotInv, LoopInv
  <2>2. \A i \in 1..Len(backlog') :
          backlog'[i] = IF i = Len(backlog) + 1 THEN c ELSE backlog[i]
    BY AppendProperties DEF SlotInv, LoopInv
  <2>3. \A i \in 1..Len(backlog) : backlog[i] \in Connections /\ backlog[i] # c
    BY ElementOfSeq DEF SlotInv, LoopInv
  <2>4. Len(backlog) \in Nat
    BY LenProperties DEF SlotInv, LoopInv
  <2>5. \A i \in 1..Len(backlog') : link'[backlog'[i]] = "backlog"
    BY <2>1, <2>2, <2>3, <2>4 DEF SlotInv, LoopInv
  <2>6. \A i, j \in 1..Len(backlog') : backlog'[i] = backlog'[j] => i = j
    BY <2>1, <2>2, <2>3, <2>4 DEF SlotInv, LoopInv
  <2>7. admitting' # None => link'[admitting'] = "accepted"
    BY DEF SlotInv, LoopInv
  <2>8. QED
    BY <2>1, <2>5, <2>6, <2>7 DEF SlotInv, LoopInv
<1>4. QED
  BY <1>1, <1>2, <1>3, KeepsSlots

LEMMA AcceptStep == ASSUME SlotInv, Accept PROVE SlotInv'
<1> USE DEF Accept
<1> DEFINE c == Head(backlog)
<1>0. backlog \in Seq(Connections) /\ backlog # <<>> /\ Len(backlog) \in Nat
  BY LenProperties DEF SlotInv, LoopInv
<1>1. c \in Connections /\ c = backlog[1] /\ Len(backlog) >= 1
  BY <1>0, HeadTailProperties, EmptySeq, LenProperties
<1>2. link[c] = "backlog"
  BY <1>0, <1>1 DEF SlotInv, LoopInv
<1>3. link' \in [Connections -> Links] /\ slots' = slots
  BY <1>1 DEF SlotInv, Links
<1>4. \A d \in Connections : link'[d] \in Live <=> link[d] \in Live
  BY <1>1, <1>2 DEF SlotInv, Live
<1>5. LoopInv'
  <2>1. /\ backlog' \in Seq(Connections)
        /\ Len(backlog') = Len(backlog) - 1
        /\ \A i \in 1..Len(backlog') : backlog'[i] = backlog[i + 1]
    BY <1>0, HeadTailProperties
  <2>2. \A i \in 1..Len(backlog') : i + 1 \in 1..Len(backlog) /\ backlog'[i] # c
    BY <1>0, <1>1, <2>1 DEF SlotInv, LoopInv
  <2>3. \A i \in 1..Len(backlog') : link'[backlog'[i]] = "backlog"
    <3>1. \A i \in 1..Len(backlog') : backlog'[i] \in Connections
      BY <2>1, ElementOfSeq
    <3>2. QED
      BY <2>1, <2>2, <3>1 DEF SlotInv, LoopInv
  <2>4. \A i, j \in 1..Len(backlog') : backlog'[i] = backlog'[j] => i = j
    BY <1>0, <2>1, <2>2 DEF SlotInv, LoopInv
  <2>5. admitting' \in Connections /\ link'[admitting'] = "accepted"
    BY <1>1 DEF SlotInv
  <2>6. QED
    BY <2>1, <2>3, <2>4, <2>5 DEF LoopInv
<1>6. QED
  BY <1>3, <1>4, <1>5, KeepsSlots

LEMMA AdmitStep == ASSUME SlotInv, Admit PROVE SlotInv'
<1> USE DEF Admit
<1>1. admitting \in Connections /\ admitting \notin Served
  BY DEF SlotInv, LoopInv, Served
<1>2. link' \in [Connections -> Links]
  BY DEF SlotInv, Links
<1>3. Served' = Served \cup {admitting}
  BY <1>1 DEF SlotInv, Served
<1>4. Cardinality(Served') = Cardinality(Served) + 1
  BY <1>1, <1>3, ServedFinite, FS_AddElement
<1>5. slots' \in 0..MaxConns
  BY MaxConnsAssumption DEF SlotInv
<1>6. LoopInv'
  <2>1. \A i \in 1..Len(backlog) : backlog[i] \in Connections /\ backlog[i] # admitting
    BY ElementOfSeq DEF SlotInv, LoopInv
  <2>2. QED
    BY <2>1 DEF SlotInv, LoopInv
<1>7. QED
  BY <1>2, <1>4, <1>5, <1>6 DEF SlotInv

LEMMA CloseStep ==
  ASSUME SlotInv, NEW c \in Connections, link[c] \in Live, Close(c)
  PROVE  SlotInv'
<1> USE DEF Close
<1>1. c \in Served
  BY DEF Served, Live
<1>2. link' \in [Connections -> Links]
  BY DEF SlotInv, Links
<1>3. Served' = Served \ {c}
  BY <1>1 DEF SlotInv, Served
<1>4. Cardinality(Served') = Cardinality(Served) - 1
  BY <1>1, <1>3, ServedFinite, FS_RemoveElement
<1>5. slots \in 1..MaxConns
  <2>1. Cardinality(Served) # 0
    BY <1>1, ServedFinite, FS_EmptySet
  <2>2. QED
    BY <2>1, MaxConnsAssumption DEF SlotInv
<1>6. slots' \in 0..MaxConns
  BY <1>5, MaxConnsAssumption
<1>7. LoopInv'
  BY KeepsLoop DEF Links
<1>8. QED
  BY <1>2, <1>4, <1>6, <1>7 DEF SlotInv

\* A handler that replies and goes on reading.
LEMMA ReplyStep ==
  ASSUME SlotInv, NEW c \in Connections, NEW l \in Live, NEW replies,
         link[c] \in Live, link' = [link EXCEPT ![c] = l], Reply(c, replies)
  PROVE  SlotInv'
<1>1. link' \in [Connections -> Links]
  BY DEF SlotInv, Links, Live
<1>2. \A d \in Connections : link'[d] \in Live <=> link[d] \in Live
  BY DEF SlotInv
<1>3. slots' = slots /\ LoopInv'
  BY KeepsLoop DEF Reply, Links, Live
<1>4. QED
  BY <1>1, <1>2, <1>3, KeepsSlots

LEMMA ServeStep ==
  ASSUME SlotInv, NEW c \in Connections, Serve(c)
  PROVE  SlotInv'
<1>0. link = [link EXCEPT ![c] = link[c]]
  BY DEF SlotInv
<1>1. CASE RefuseSSL(c)
  BY <1>0, <1>1, ReplyStep DEF RefuseSSL, Live
<1>2. CASE Startup(c)
  <2>1. link[c] \in Live /\ "password" \in Live
    BY <1>2 DEF Startup, Live
  <2>2. link' = [link EXCEPT ![c] = "password"] /\ Reply(c, <<"AuthRequest">>)
    BY <1>2 DEF Startup
  <2>3. QED
    BY <2>1, <2>2, ReplyStep
<1>3. CASE Authenticate(c)
  <2>1. link[c] \in Live /\ "ready" \in Live
    BY <1>3 DEF Authenticate, Live
  <2>2. link' = [link EXCEPT ![c] = "ready"] /\ Reply(c, <<"AuthOK", "Ready">>)
    BY <1>3 DEF Authenticate
  <2>3. QED
    BY <2>1, <2>2, ReplyStep
<1>4. CASE Reject(c) \/ Terminate(c) \/ Hangup(c)
  BY <1>4, CloseStep DEF Reject, Terminate, Hangup, Handles, Served, Live
<1>5. CASE \/ SimpleQuery(c) \/ Parse(c) \/ Bind(c) \/ Describe(c)
           \/ Execute(c) \/ Sync(c) \/ Flush(c) \/ Unknown(c)
  <2>1. link[c] \in Live /\ link' = [link EXCEPT ![c] = link[c]]
    BY <1>0, <1>5 DEF SimpleQuery, Parse, Bind, Describe, Execute, Sync,
       Flush, Unknown, Handles, Live
  <2>2. \E replies : Reply(c, replies)
    BY <1>5 DEF SimpleQuery, Parse, Bind, Describe, Execute, Sync, Flush, Unknown
  <2>3. QED
    BY <2>1, <2>2, ReplyStep
<1>6. QED
  BY <1>1, <1>2, <1>3, <1>4, <1>5 DEF Serve

LEMMA NextSlots == SlotInv /\ [SessionNext]_sessionVars => SlotInv'
<1> SUFFICES ASSUME SlotInv, [SessionNext]_sessionVars PROVE SlotInv'
  OBVIOUS
<1>1. ASSUME NEW c \in Connections, Ask(c) \/ Send(c) \/ Receive(c) \/ Leave(c)
      PROVE  SlotInv'
  <2>1. UNCHANGED <<loop, slots, link>>
    BY <1>1 DEF Ask, Send, Receive, Leave
  <2>2. QED
    BY <2>1 DEF SlotInv, LoopInv, Served, loop
<1>2. CASE UNCHANGED sessionVars
  BY <1>2 DEF sessionVars, loop, SlotInv, LoopInv, Served
<1>3. QED
  BY <1>1, <1>2, ConnectStep, AcceptStep, AdmitStep, ServeStep DEF SessionNext

----------------------------------------------------------------------------
(* Induction over the natural numbers, as a fact about sets                *)

Below == OpToRel(<, Nat)

LEMMA Least ==
  ASSUME NEW S, S \subseteq Nat, S # {}
  PROVE  \E n \in S : \A m \in S : n <= m
<1>1. IsWellFoundedOn(Below, Nat)
  BY NatLessThanWellFounded, Zenon DEF Below
<1>2. \E n \in S : \A m \in S : <<m, n>> \notin Below
  BY <1>1, WFMin, Zenon
<1>3. \A m, n \in Nat : <<m, n>> \in Below <=> m < n
  BY DEF Below, OpToRel
<1>4. PICK n \in S : \A m \in S : <<m, n>> \notin Below
  BY <1>2
<1>5. ASSUME NEW m \in S PROVE n <= m
  <2>1. m \in Nat /\ n \in Nat /\ ~(m < n)
    BY <1>3, <1>4
  <2>2. QED
    BY <2>1
<1>6. QED
  BY <1>5

LEMMA Induction ==
  ASSUME NEW S, 0 \in S, \A n \in Nat : n \in S => n + 1 \in S
  PROVE  Nat \subseteq S
<1> SUFFICES ASSUME Nat \ S # {} PROVE FALSE
  OBVIOUS
<1>1. PICK n \in Nat \ S : \A m \in Nat \ S : n <= m
  <2>1. Nat \ S \subseteq Nat
    OBVIOUS
  <2>2. QED
    BY <2>1, Least
<1>2. n - 1 \in Nat /\ n - 1 \notin Nat \ S
  BY <1>1
<1>3. n \in S
  BY <1>2
<1>4. QED
  BY <1>1, <1>3

----------------------------------------------------------------------------
(* Replies joined together                                                 *)

LEMMA FlattenStep ==
  ASSUME NEW ss, NEW k \in Nat \ {0}
  PROVE  \E f : f = [i \in 1..k |-> IF i = 1 THEN ss[i] ELSE f[i - 1] \o ss[i]]
<1> DEFINE Is(f, n) == f = [i \in 1..n |-> IF i = 1 THEN ss[i] ELSE f[i - 1] \o ss[i]]
           T == {n \in Nat : \E f : Is(f, n)}
<1>1. 0 \in T
  <2>1. Is([i \in 1..0 |-> ss], 0)
    OBVIOUS
  <2>2. QED
    BY <2>1
<1>2. ASSUME NEW n \in Nat, n \in T PROVE n + 1 \in T
  <2>1. PICK f : Is(f, n)
    BY <1>2
  <2>0. PICK g : g = [i \in 1..n + 1 |->
                       IF i \in 1..n THEN f[i] ELSE IF i = 1 THEN ss[i] ELSE f[i - 1] \o ss[i]]
    OBVIOUS
  <2>2. ASSUME NEW i \in 1..n + 1
        PROVE  g[i] = IF i = 1 THEN ss[i] ELSE g[i - 1] \o ss[i]
    <3>1. CASE i \in 1..n
      <4>1. f[i] = IF i = 1 THEN ss[i] ELSE f[i - 1] \o ss[i]
        BY <2>1, <3>1
      <4>2. i # 1 => i - 1 \in 1..n /\ i - 1 \in 1..n + 1
        BY <3>1
      <4>3. QED
        BY <2>0, <3>1, <4>1, <4>2
    <3>2. CASE i = n + 1
      <4>1. i # 1 => i - 1 \in 1..n /\ i - 1 \in 1..n + 1
        BY <3>2
      <4>2. i \notin 1..n
        BY <3>2
      <4>3. QED
        BY <2>0, <4>1, <4>2
    <3>3. QED
      BY <3>1, <3>2
  <2>3. Is(g, n + 1)
    <3>1. g = [i \in 1..n + 1 |-> g[i]]
      BY <2>0
    <3>2. QED
      BY <2>2, <3>1, Zenon
  <2> HIDE DEF Is
  <2>4. \E h : Is(h, n + 1)
    BY <2>3
  <2>5. QED
    BY <2>4
<1> HIDE DEF T
<1>3. k \in T
  BY <1>1, <1>2, Induction
<1>4. QED
  BY <1>3 DEF T

LEMMA Flattened ==
  ASSUME NEW ss, Len(ss) \in Nat \ {0}
  PROVE  \E f : /\ f = [i \in 1..Len(ss) |-> IF i = 1 THEN ss[i] ELSE f[i - 1] \o ss[i]]
                /\ FlattenSeq(ss) = f[Len(ss)]
  BY FlattenStep DEF FlattenSeq

\* What the server sends.
Replies ==
  {"NoSSL", "AuthRequest", "AuthOK", "Ready", "RowDescription", "DataRow", "CommandComplete",
   "Error", "EmptyQuery", "ParseComplete", "BindComplete", "NoData"}

LEMMA OutcomesFinite ==
  ASSUME NEW s \in Seq(Replies)
  PROVE  /\ Outcomes(s) \subseteq 1..Len(s) /\ Len(s) \in Nat
         /\ IsFiniteSet(Outcomes(s)) /\ Cardinality(Outcomes(s)) \in Nat
<1>1. Outcomes(s) \subseteq 1..Len(s) /\ Len(s) \in Nat
  BY DEF Outcomes
<1>2. IsFiniteSet(1..Len(s))
  BY <1>1, FS_Interval
<1>3. QED
  BY <1>1, <1>2, FS_Subset, FS_CardinalityType

\* The outcomes of two replies, one after the other.
LEMMA OutcomesAdd ==
  ASSUME NEW s \in Seq(Replies), NEW t \in Seq(Replies)
  PROVE  Cardinality(Outcomes(s \o t)) = Cardinality(Outcomes(s)) + Cardinality(Outcomes(t))
<1> DEFINE S == Outcomes(s)
           T == Outcomes(t)
           U == {i \in (Len(s) + 1)..(Len(s) + Len(t)) : i - Len(s) \in T}
           F == [i \in T |-> Len(s) + i]
<1>0. Len(s) \in Nat /\ Len(t) \in Nat /\ S \subseteq 1..Len(s) /\ T \subseteq 1..Len(t)
  BY OutcomesFinite
<1>1. Outcomes(s \o t) = S \cup U
  BY <1>0 DEF Outcomes
<1>2. F \in Bijection(T, U)
  <2>1. F \in [T -> U]
    BY <1>0
  <2>2. \A i, j \in T : F[i] = F[j] => i = j
    BY <1>0
  <2>3. \A u \in U : \E i \in T : F[i] = u
    <3>1. ASSUME NEW u \in U PROVE F[u - Len(s)] = u /\ u - Len(s) \in T
      BY <1>0
    <3>2. QED
      BY <3>1
  <2> HIDE DEF F, U
  <2>4. QED
    BY <2>1, <2>2, <2>3, Fun_IsBij
<1>3. IsFiniteSet(U) /\ Cardinality(U) = Cardinality(T)
  <2>1. IsFiniteSet(T)
    BY OutcomesFinite
  <2>2. ExistsBijection(T, U)
    BY <1>2 DEF ExistsBijection
  <2> HIDE DEF T, U
  <2>3. QED
    BY <2>1, <2>2, FS_Bijection
<1>4. S \cap U = {}
  BY <1>0
<1>5. IsFiniteSet(S) /\ Cardinality(S) \in Nat /\ Cardinality(T) \in Nat
  BY OutcomesFinite
<1>6. Cardinality(S \cup U) = Cardinality(S) + Cardinality(U) - Cardinality(S \cap U)
  BY <1>3, <1>5, FS_Union
<1> HIDE DEF S, T, U
<1>7. Cardinality(S \cap U) = 0
  BY <1>4, FS_EmptySet
<1>8. QED
  BY <1>1, <1>3, <1>5, <1>6, <1>7 DEF S, T

----------------------------------------------------------------------------
(* What a message is answered                                              *)

Unready(replies) == \A i \in 1..Len(replies) : replies[i] # "Ready"
Ends(replies) ==
  replies # <<>> /\ \A i \in 1..Len(replies) : replies[i] = "Ready" <=> i = Len(replies)

\* The replies to some messages whose request goes on, with n outcomes.
Middle(replies, n) ==
  replies \in Seq(Replies) /\ Unready(replies) /\ Cardinality(Outcomes(replies)) = n

Final(replies, n) ==
  replies \in Seq(Replies) /\ Ends(replies) /\ Cardinality(Outcomes(replies)) = n

LEMMA EndsIsReady == ASSUME NEW s \in Seq(Replies), Ends(s) PROVE ~Unready(s)
<1>1. Len(s) \in 1..Len(s)
  BY EmptySeq DEF Ends
<1>2. QED
  BY <1>1 DEF Ends, Unready

LEMMA MiddleThenMiddle ==
  ASSUME NEW s, NEW t, NEW m \in Nat, NEW n \in Nat, Middle(s, m), Middle(t, n)
  PROVE  Middle(s \o t, m + n)
<1>1. s \o t \in Seq(Replies) /\ Unready(s \o t)
  BY DEF Middle, Unready
<1>2. QED
  BY <1>1, OutcomesAdd DEF Middle

LEMMA MiddleThenFinal ==
  ASSUME NEW s, NEW t, NEW m \in Nat, NEW n \in Nat, Middle(s, m), Final(t, n)
  PROVE  Final(s \o t, m + n)
<1>1. s \o t \in Seq(Replies) /\ Ends(s \o t)
  <2>1. Len(s) \in Nat /\ Len(t) \in Nat \ {0} /\ s \o t \in Seq(Replies)
    BY EmptySeq DEF Middle, Final, Ends
  <2>2. Len(s \o t) = Len(s) + Len(t) /\ s \o t # <<>>
    BY <2>1 DEF Middle, Final
  <2>3. ASSUME NEW i \in 1..Len(s \o t)
        PROVE  (s \o t)[i] = "Ready" <=> i = Len(s \o t)
    <3>1. CASE i <= Len(s)
      BY <2>1, <2>2, <3>1 DEF Middle, Unready, Final
    <3>2. CASE i > Len(s)
      <4>1. (s \o t)[i] = t[i - Len(s)] /\ i - Len(s) \in 1..Len(t)
        BY <2>1, <2>2, <3>2 DEF Middle, Final
      <4>2. QED
        BY <2>1, <2>2, <4>1 DEF Final, Ends
    <3>3. QED
      BY <2>1, <3>1, <3>2
  <2>4. QED
    BY <2>1, <2>2, <2>3 DEF Ends
<1>2. QED
  BY <1>1, OutcomesAdd DEF Middle, Final

\* A reply without an outcome, and one with one.
LEMMA NoOutcome ==
  ASSUME NEW s, s \in Seq(Replies), Outcomes(s) = {}
  PROVE  /\ Unready(s) => Middle(s, 0)
         /\ Ends(s) => Final(s, 0)
  BY FS_EmptySet DEF Middle, Final

LEMMA OneOutcome ==
  ASSUME NEW s, s \in Seq(Replies), NEW i, Outcomes(s) = {i}
  PROVE  /\ Unready(s) => Middle(s, 1)
         /\ Ends(s) => Final(s, 1)
<1>1. Cardinality({i}) = 1
  BY FS_Singleton
<1>2. QED
  BY <1>1 DEF Middle, Final

Plain(x) == x \in Replies \ {"Ready", "CommandComplete", "Error"}

LEMMA NoReplies == Middle(<<>>, 0)
<1>1. <<>> \in Seq(Replies) /\ Unready(<<>>) /\ Outcomes(<<>>) = {}
  BY DEF Unready, Outcomes, Replies
<1>2. QED
  BY <1>1, NoOutcome

LEMMA RowsReply == Middle(Rows, 1)
<1>1. Rows \in Seq(Replies) /\ Len(Rows) = 3 /\ DOMAIN Rows = 1..3
      /\ Rows[1] = "RowDescription" /\ Rows[2] = "DataRow" /\ Rows[3] = "CommandComplete"
  BY DEF Rows, Replies
<1>2. Unready(Rows)
  BY <1>1 DEF Unready
<1>3. Outcomes(Rows) = {3}
  BY <1>1 DEF Outcomes
<1>4. QED
  BY <1>1, <1>2, <1>3, OneOutcome

LEMMA PlainReply == ASSUME NEW x, Plain(x) PROVE Middle(<<x>>, 0)
<1>1. <<x>> \in Seq(Replies) /\ Unready(<<x>>) /\ Outcomes(<<x>>) = {}
  BY DEF Unready, Outcomes, Replies, Plain
<1>2. QED
  BY <1>1, NoOutcome

LEMMA OutcomeReply ==
  ASSUME NEW x \in {"CommandComplete", "Error"}
  PROVE  Middle(<<x>>, 1)
<1>1. <<x>> \in Seq(Replies) /\ Unready(<<x>>) /\ Outcomes(<<x>>) = {1}
  BY DEF Unready, Outcomes, Replies
<1>2. QED
  BY <1>1, OneOutcome

LEMMA ReadyReply == Final(<<"Ready">>, 0)
<1>1. <<"Ready">> \in Seq(Replies) /\ Ends(<<"Ready">>) /\ Outcomes(<<"Ready">>) = {}
  BY DEF Ends, Outcomes, Replies
<1>2. QED
  BY <1>1, NoOutcome

LEMMA PairedReplies ==
  /\ \A x : Plain(x) => Middle(<<x, "CommandComplete">>, 1) /\ Final(<<x, "Ready">>, 0)
  /\ \A x \in {"CommandComplete", "Error"} : Final(<<x, "Ready">>, 1)
<1>1. ASSUME NEW x \in Replies, NEW y \in {"CommandComplete", "Ready"}
      PROVE  /\ <<x, y>> \in Seq(Replies) /\ Len(<<x, y>>) = 2 /\ DOMAIN <<x, y>> = 1..2
             /\ <<x, y>>[1] = x /\ <<x, y>>[2] = y
  BY DEF Replies
<1>2. ASSUME NEW x, Plain(x)
      PROVE  Middle(<<x, "CommandComplete">>, 1) /\ Final(<<x, "Ready">>, 0)
  <2>1. x \in Replies
    BY <1>2 DEF Plain
  <2> DEFINE s == <<x, "CommandComplete">>
             t == <<x, "Ready">>
  <2>2. Unready(s) /\ Outcomes(s) = {2}
    BY <1>1, <1>2, <2>1 DEF Unready, Outcomes, Plain
  <2>3. Ends(t) /\ Outcomes(t) = {}
    BY <1>1, <1>2, <2>1 DEF Ends, Outcomes, Plain
  <2>4. s \in Seq(Replies) /\ t \in Seq(Replies)
    BY <1>1, <2>1
  <2>5. QED
    BY <2>2, <2>3, <2>4, NoOutcome, OneOutcome
<1>3. ASSUME NEW x \in {"CommandComplete", "Error"} PROVE Final(<<x, "Ready">>, 1)
  <2> DEFINE t == <<x, "Ready">>
  <2>1. x \in Replies
    BY DEF Replies
  <2>2. Ends(t) /\ Outcomes(t) = {1} /\ t \in Seq(Replies)
    BY <1>1, <2>1 DEF Ends, Outcomes
  <2>3. QED
    BY <2>2, OneOutcome
<1>4. QED
  BY <1>2, <1>3

LEMMA FlattenReplies ==
  ASSUME NEW ss, Len(ss) \in Nat \ {0}, \A i \in 1..Len(ss) : Middle(ss[i], 1)
  PROVE  Middle(FlattenSeq(ss), Len(ss))
<1>1. PICK f : /\ f = [i \in 1..Len(ss) |-> IF i = 1 THEN ss[i] ELSE f[i - 1] \o ss[i]]
               /\ FlattenSeq(ss) = f[Len(ss)]
  BY Flattened
<1> DEFINE T == {n \in Nat : n \in 1..Len(ss) => Middle(f[n], n)}
<1>2. 0 \in T
  OBVIOUS
<1>3. ASSUME NEW n \in Nat, n \in T PROVE n + 1 \in T
  <2> SUFFICES ASSUME n + 1 \in 1..Len(ss) PROVE Middle(f[n + 1], n + 1)
    OBVIOUS
  <2>1. CASE n = 0
    <3>1. 1 \in 1..Len(ss) /\ n + 1 = 1
      BY <2>1
    <3>2. f[1] = ss[1] /\ Middle(ss[1], 1)
      BY <1>1, <3>1
    <3>3. QED
      BY <3>1, <3>2
  <2>2. CASE n # 0
    <3>1. n \in 1..Len(ss) /\ Middle(f[n], n) /\ Middle(ss[n + 1], 1)
      BY <1>3, <2>2
    <3>2. f[n + 1] = f[n] \o ss[n + 1]
      <4>1. \A i \in 1..Len(ss) : i # 1 => f[i] = f[i - 1] \o ss[i]
        BY <1>1
      <4>2. n + 1 # 1 /\ (n + 1) - 1 = n
        BY <2>2
      <4>3. f[n + 1] = f[(n + 1) - 1] \o ss[n + 1]
        BY <4>1, <4>2
      <4>4. QED
        BY <4>2, <4>3
    <3>3. QED
      BY <3>1, <3>2, MiddleThenMiddle
  <2>3. QED
    BY <2>1, <2>2
<1> HIDE DEF T
<1>4. Len(ss) \in T
  BY <1>2, <1>3, Induction
<1>5. QED
  BY <1>1, <1>4 DEF T

LEMMA RunsType ==
  ASSUME NEW stmts \in Seq(Kinds)
  PROVE  Runs(stmts) \in Nat /\ Runs(stmts) <= Len(stmts) /\ (Len(stmts) # 0 => Runs(stmts) # 0)
<1> DEFINE failed == {i \in DOMAIN stmts : stmts[i] = "failing"}
<1>1. Len(stmts) \in Nat /\ failed \subseteq 1..Len(stmts) /\ failed \subseteq Nat
  OBVIOUS
<1>3. CASE failed = {}
  BY <1>1, <1>3 DEF Runs
<1>4. CASE failed # {}
  <2>1. \E i \in failed : \A j \in failed : i <= j
    BY <1>1, <1>4, Least
  <2>2. Runs(stmts) \in failed
    BY <1>4, <2>1 DEF Runs
  <2>3. QED
    BY <1>1, <2>2
<1>5. QED
  BY <1>3, <1>4

LEMMA ResultReply ==
  ASSUME NEW k \in Kinds \ {"selectOne"}
  PROVE  Middle(QueryResult[k], 1)
<1>1. CASE k = "setPath"
  <2>2. Middle(<<"RowDescription", "CommandComplete">>, 1)
    BY PairedReplies DEF Plain, Replies
  <2>3. QED
    BY <1>1, <2>2 DEF QueryResult, Kinds
<1>2. CASE k = "system" \/ k = "rows"
  BY <1>2, RowsReply DEF QueryResult, Kinds, SystemResult
<1>3. CASE k = "tag"
  BY <1>3, OutcomeReply DEF QueryResult, Kinds
<1>4. CASE k = "failing"
  BY <1>4, OutcomeReply DEF QueryResult, Kinds
<1>5. QED
  BY <1>1, <1>2, <1>3, <1>4 DEF Kinds

LEMMA QueryEnds ==
  ASSUME NEW stmts \in Seq(Kinds), "selectOne" \notin Range(stmts)
  PROVE  Runs(stmts) \in Nat /\ Final(QueryReply(stmts), Runs(stmts))
<1>0. Runs(stmts) \in Nat /\ Runs(stmts) <= Len(stmts) /\ (Len(stmts) # 0 => Runs(stmts) # 0)
  BY RunsType, Zenon
<1>1. CASE stmts = <<>>
  <2>1. Runs(stmts) = 0
    <3>1. Len(stmts) = 0
      BY <1>1
    <3>2. QED
      BY <1>0, <3>1
  <2>2. QED
    <3>2. Final(<<"EmptyQuery", "Ready">>, 0)
      BY PairedReplies DEF Plain, Replies
    <3>3. QED
      BY <1>0, <1>1, <2>1, <3>2, Zenon DEF QueryReply
<1>2. CASE stmts # <<>>
  <2> DEFINE ss == [i \in 1..Runs(stmts) |-> QueryResult[stmts[i]]]
  <2>1. Runs(stmts) \in 1..Len(stmts) /\ Len(ss) = Runs(stmts)
    <3>1. Len(stmts) \in Nat \ {0}
      BY <1>2, EmptySeq
    <3>2. QED
      BY <1>0, <3>1
  <2>2. ASSUME NEW i \in 1..Len(ss) PROVE Middle(ss[i], 1)
    <3>1. i \in 1..Len(stmts) /\ stmts[i] \in Kinds /\ stmts[i] # "selectOne"
      <4>1. i \in 1..Len(stmts)
        BY <2>1
      <4>2. stmts[i] \in Kinds /\ DOMAIN stmts = 1..Len(stmts)
        BY <4>1
      <4>3. QED
        BY <4>1, <4>2 DEF Range
    <3>2. Middle(QueryResult[stmts[i]], 1)
      BY <3>1, ResultReply
    <3>3. QED
      BY <2>1, <3>2
  <2>3. QueryReply(stmts) = FlattenSeq(ss) \o <<"Ready">>
    BY <1>2 DEF QueryReply
  <2> HIDE DEF ss
  <2>4. Middle(FlattenSeq(ss), Len(ss))
    <3>1. Len(ss) \in Nat \ {0}
      BY <2>1
    <3>2. QED
      BY <2>2, <3>1, FlattenReplies, Zenon
  <2>5. Final(FlattenSeq(ss) \o <<"Ready">>, Len(ss) + 0)
    <3>1. Len(ss) \in Nat /\ 0 \in Nat
      BY <2>1
    <3>2. QED
      BY <2>4, <3>1, ReadyReply, MiddleThenFinal, Zenon
  <2>6. Len(ss) + 0 = Runs(stmts)
    BY <1>0, <2>1
  <2>7. QED
    BY <1>0, <2>3, <2>5, <2>6, Zenon
<1>3. QED
  BY <1>1, <1>2, <1>0

LEMMA ExecuteGoesOn ==
  ASSUME NEW k, k = None \/ k \in Kinds \ {"failing"}
  PROVE  Middle(ExecuteReply(k), 1)
<1>1. CASE k = None
  BY <1>1, OutcomeReply, KindsAssumption DEF ExecuteReply, Kinds
<1>2. CASE k = "selectOne"
  <2>2. Middle(<<"DataRow", "CommandComplete">>, 1)
    BY PairedReplies DEF Plain, Replies
  <2>3. QED
    BY <1>2, <2>2, KindsAssumption DEF ExecuteReply, Kinds
<1>3. CASE k \in {"setPath", "tag"}
  BY <1>3, OutcomeReply, KindsAssumption DEF ExecuteReply, Kinds
<1>4. CASE k \in {"system", "rows"}
  BY <1>4, RowsReply, KindsAssumption DEF ExecuteReply, Kinds, SystemResult
<1>5. QED
  BY <1>1, <1>2, <1>3, <1>4 DEF Kinds

LEMMA DescribeGoesOn ==
  ASSUME NEW k
  PROVE  Middle(DescribeReply(k), 0)
<1>1. Middle(<<"RowDescription">>, 0) /\ Middle(<<"NoData">>, 0)
  BY PlainReply DEF Plain, Replies
<1>2. QED
  BY <1>1 DEF DescribeReply

----------------------------------------------------------------------------
(* The statements of a request                                             *)

Message == [type : STRING, of : Seq(STRING)] \cup [type : STRING, of : Seq(Kinds)]

\* The statements of the first messages of a request.
CalledTo(r, n) == UNION {{i} \X (1..Statements(r[i])) : i \in 1..n}

LEMMA NothingCalled ==
  ASSUME NEW r
  PROVE  IsFiniteSet(CalledTo(r, 0)) /\ Cardinality(CalledTo(r, 0)) = 0
<1>1. CalledTo(r, 0) = {}
  BY DEF CalledTo
<1>2. QED
  BY <1>1, FS_EmptySet

LEMMA AllCalled == ASSUME NEW r \in Seq(Message) PROVE CalledTo(r, Len(r)) = Called(r)
  BY DEF CalledTo, Called

\* One message more, with k statements.
LEMMA CalledAdd ==
  ASSUME NEW r, NEW n \in Nat, NEW k \in Nat, Statements(r[n + 1]) = k,
         IsFiniteSet(CalledTo(r, n))
  PROVE  /\ IsFiniteSet(CalledTo(r, n + 1))
         /\ Cardinality(CalledTo(r, n + 1)) = Cardinality(CalledTo(r, n)) + k
<1> DEFINE P == {n + 1} \X (1..k)
<1>1. CalledTo(r, n + 1) = CalledTo(r, n) \cup P
  <2>1. 1..(n + 1) = (1..n) \cup {n + 1}
    OBVIOUS
  <2>2. QED
    BY <2>1 DEF CalledTo
<1>2. CalledTo(r, n) \cap P = {}
  BY DEF CalledTo
<1>3. IsFiniteSet(P) /\ Cardinality(P) = k
  <2>1. IsFiniteSet({n + 1}) /\ Cardinality({n + 1}) = 1
    BY FS_Singleton
  <2>2. IsFiniteSet(1..k) /\ Cardinality(1..k) = k
    BY FS_Interval
  <2>3. \A A, B : IsFiniteSet(A) /\ IsFiniteSet(B) =>
          IsFiniteSet(A \X B) /\ Cardinality(A \X B) = Cardinality(A) * Cardinality(B)
    BY FS_Product
  <2>4. IsFiniteSet(P) /\ Cardinality(P) = Cardinality({n + 1}) * Cardinality(1..k)
    BY <2>1, <2>2, <2>3
  <2>5. QED
    BY <2>1, <2>2, <2>4
<1>4. Cardinality(CalledTo(r, n)) \in Nat
  BY FS_CardinalityType
<1> HIDE DEF P
<1>5. IsFiniteSet(CalledTo(r, n) \cup P)
      /\ Cardinality(CalledTo(r, n) \cup P)
           = Cardinality(CalledTo(r, n)) + Cardinality(P) - Cardinality(CalledTo(r, n) \cap P)
  BY <1>3, FS_Union
<1>6. QED
  BY <1>1, <1>2, <1>3, <1>4, <1>5, FS_EmptySet

----------------------------------------------------------------------------
(* A session and its client, message by message                            *)

\* What is prepared can be executed without an error and the ReadyForQuery
\* that goes with it.
Harmless(p) == p = None \/ p \in Kinds \ {"failing"}

\* The next message has k statements and is answered without ReadyForQuery.
Continues(in, s, k) == Middle(s, k) /\ Statements(Head(in)) = k

\* One connection: where it is, what is prepared, the messages and replies
\* under way, the request, how much of it is sent, the replies read, and
\* whether the client is still there.
Turn(l, p, in, out, r, n, g, at) ==
  /\ in \in Seq(Message) /\ out \in Seq(Replies) /\ g \in Seq(Replies)
  /\ r \in Seq(Message) /\ n \in 0..Len(r)
  /\ r = <<>> \/ r \in Openings \cup Requests
  /\ l \notin Live => in = <<>> /\ out = <<>> /\ g = <<>> /\ n = 0
  /\ at = "gone" => out = <<>>
  /\ at = "here" =>
       /\ Len(in) <= n
       /\ \A i \in 1..Len(in) : in[i] = r[n - Len(in) + i]
       /\ IsFiniteSet(CalledTo(r, n - Len(in)))
       /\ Cardinality(Outcomes(g \o out)) = Cardinality(CalledTo(r, n - Len(in)))
       /\ l \in Live => Harmless(p)
       /\ l = "ready" /\ Unready(g \o out) => r \in Requests
  /\ \/ Unready(g \o out)
     \/ /\ Ends(g \o out) /\ in = <<>> /\ n = Len(r)
        /\ at = "gone" => Cardinality(Outcomes(g)) = Cardinality(Called(r))
  /\ l \in {"startup", "password"} => Unready(g \o out)
  /\ l \in {"backlog", "accepted", "startup", "password"} /\ at = "here" => r \in Openings

Client(c) == IF c \in gone THEN "gone" ELSE "here"

TurnOf(c) ==
  Turn(link[c], prepared[c], inbox[c], outbox[c], request[c], sent[c], got[c], Client(c))

\* The inductive invariant.
TurnInv ==
  /\ SlotInv
  /\ prepared = [c \in Connections |-> prepared[c]] /\ inbox = [c \in Connections |-> inbox[c]]
  /\ outbox = [c \in Connections |-> outbox[c]] /\ request = [c \in Connections |-> request[c]]
  /\ sent = [c \in Connections |-> sent[c]] /\ got = [c \in Connections |-> got[c]]
  /\ \A c \in Connections : TurnOf(c)

\* Nothing sent and nothing answered.
LEMMA FreshTurn ==
  ASSUME NEW l, NEW p, NEW r \in Seq(Message), NEW at, r = <<>> \/ r \in Openings \cup Requests,
         l \in Live => Harmless(p),
         l = "ready" => r \in Requests,
         l \in {"backlog", "accepted", "startup", "password"} /\ at = "here" => r \in Openings
  PROVE  Turn(l, p, <<>>, <<>>, r, 0, <<>>, at)
<1>1. /\ <<>> \in Seq(Message) /\ <<>> \in Seq(Replies) /\ <<>> \o <<>> = <<>>
      /\ Len(<<>>) = 0 /\ Len(r) \in Nat
  BY EmptySeq
<1>2. Unready(<<>>) /\ Cardinality(Outcomes(<<>>)) = 0
  BY NoReplies DEF Middle
<1>3. IsFiniteSet(CalledTo(r, 0)) /\ Cardinality(CalledTo(r, 0)) = 0
  BY NothingCalled
<1>4. QED
  BY <1>1, <1>2, <1>3 DEF Turn

LEMMA Regroup ==
  ASSUME NEW g \in Seq(Replies), NEW out \in Seq(Replies), NEW s \in Seq(Replies)
  PROVE  /\ g \o (out \o s) = (g \o out) \o s
         /\ out \o s \in Seq(Replies) /\ g \o out \in Seq(Replies)
         /\ g \o (out \o s) \in Seq(Replies)
  BY ConcatAssociative

\* A step of one connection; the others stay as they are.
Moves(c, l, p, in, out, r, n, g, at) ==
  /\ link' = [link EXCEPT ![c] = l] /\ prepared' = [prepared EXCEPT ![c] = p]
  /\ inbox' = [inbox EXCEPT ![c] = in] /\ outbox' = [outbox EXCEPT ![c] = out]
  /\ request' = [request EXCEPT ![c] = r] /\ sent' = [sent EXCEPT ![c] = n]
  /\ got' = [got EXCEPT ![c] = g]
  /\ gone' \ {c} = gone \ {c} /\ at = IF c \in gone' THEN "gone" ELSE "here"

LEMMA OnlyTurn ==
  ASSUME TurnInv, SlotInv', NEW c \in Connections,
         NEW l, NEW p, NEW in, NEW out, NEW r, NEW n, NEW g, NEW at,
         Moves(c, l, p, in, out, r, n, g, at), Turn(l, p, in, out, r, n, g, at)
  PROVE  TurnInv'
<1> USE DEF TurnInv, Moves
<1>0. link = [d \in Connections |-> link[d]]
  BY DEF SlotInv
<1>1. TurnOf(c)'
  <2>1. /\ link'[c] = l /\ prepared'[c] = p /\ inbox'[c] = in /\ outbox'[c] = out
        /\ request'[c] = r /\ sent'[c] = n /\ got'[c] = g
    BY <1>0
  <2>2. QED
    BY <2>1 DEF TurnOf, Client
<1>2. ASSUME NEW d \in Connections, d # c PROVE TurnOf(d)'
  <2>1. /\ link'[d] = link[d] /\ prepared'[d] = prepared[d] /\ inbox'[d] = inbox[d]
        /\ outbox'[d] = outbox[d] /\ request'[d] = request[d] /\ sent'[d] = sent[d]
        /\ got'[d] = got[d]
    BY <1>0, <1>2
  <2>2. Client(d)' = Client(d)
    BY <1>2 DEF Client
  <2>3. QED
    BY <2>1, <2>2 DEF TurnOf
<1>3. /\ prepared' = [d \in Connections |-> prepared'[d]]
      /\ inbox' = [d \in Connections |-> inbox'[d]]
      /\ outbox' = [d \in Connections |-> outbox'[d]]
      /\ request' = [d \in Connections |-> request'[d]]
      /\ sent' = [d \in Connections |-> sent'[d]]
      /\ got' = [d \in Connections |-> got'[d]]
  OBVIOUS
<1>4. QED
  BY <1>1, <1>2, <1>3

\* The message that is handled next, and what is left of the inbox.
LEMMA NextMessage ==
  ASSUME NEW in \in Seq(Message), in # <<>>, NEW r, NEW n \in Nat, Len(in) <= n,
         \A i \in 1..Len(in) : in[i] = r[n - Len(in) + i]
  PROVE  /\ n - Len(in) \in Nat
         /\ Head(in) \in Message /\ Head(in) = r[n - Len(in) + 1]
         /\ Tail(in) \in Seq(Message) /\ Len(Tail(in)) = Len(in) - 1
         /\ n - Len(Tail(in)) = n - Len(in) + 1
         /\ \A i \in 1..Len(Tail(in)) : Tail(in)[i] = r[n - Len(Tail(in)) + i]
<1>1. Len(in) \in Nat \ {0}
  BY EmptySeq
<1>2. /\ Head(in) = in[1] /\ Tail(in) \in Seq(Message) /\ Len(Tail(in)) = Len(in) - 1
      /\ \A i \in 1..Len(Tail(in)) : Tail(in)[i] = in[i + 1]
  BY <1>1, HeadTailProperties
<1>3. Head(in) \in Message
  BY <1>1, <1>2
<1>4. ASSUME NEW i \in 1..Len(Tail(in)) PROVE Tail(in)[i] = r[n - Len(Tail(in)) + i]
  <2>1. i + 1 \in 1..Len(in) /\ n - Len(in) + (i + 1) = n - Len(Tail(in)) + i
    BY <1>1, <1>2
  <2>2. in[i + 1] = r[n - Len(in) + (i + 1)]
    BY <2>1
  <2>3. QED
    BY <1>2, <2>1, <2>2
<1>5. QED
  BY <1>1, <1>2, <1>3, <1>4

LEMMA GoesOn ==
  ASSUME NEW l \in Live, NEW p, NEW in, NEW out, NEW r, NEW n, NEW g,
         Turn(l, p, in, out, r, n, g, "here"), in # <<>>,
         NEW l2 \in Live, NEW p2, Harmless(p2),
         l2 = "ready" => r \in Requests, l2 # "ready" => r \in Openings,
         NEW s, NEW k \in Nat, Continues(in, s, k)
  PROVE  Turn(l2, p2, Tail(in), out \o s, r, n, g, "here")
<1> USE DEF Turn, Continues
<1>1. n \in Nat /\ s \in Seq(Replies) /\ out \in Seq(Replies) /\ g \in Seq(Replies)
  BY DEF Middle
<1>2. /\ n - Len(in) \in Nat /\ Head(in) = r[n - Len(in) + 1]
      /\ Tail(in) \in Seq(Message) /\ Len(Tail(in)) <= n
      /\ n - Len(Tail(in)) = n - Len(in) + 1
      /\ \A i \in 1..Len(Tail(in)) : Tail(in)[i] = r[n - Len(Tail(in)) + i]
  BY <1>1, NextMessage
<1>3. g \o (out \o s) = (g \o out) \o s /\ out \o s \in Seq(Replies) /\ g \o out \in Seq(Replies)
  BY <1>1, Regroup
<1> DEFINE h == n - Len(in)
<1>4. Middle(g \o out, Cardinality(CalledTo(r, h))) /\ Cardinality(CalledTo(r, h)) \in Nat
  BY <1>3, OutcomesFinite DEF Middle
<1>5. Middle((g \o out) \o s, Cardinality(CalledTo(r, h)) + k)
  BY <1>4, MiddleThenMiddle
<1>6. /\ IsFiniteSet(CalledTo(r, h + 1))
      /\ Cardinality(CalledTo(r, h + 1)) = Cardinality(CalledTo(r, h)) + k
  BY <1>2, CalledAdd
<1>7. /\ Unready(g \o (out \o s))
      /\ Cardinality(Outcomes(g \o (out \o s))) = Cardinality(CalledTo(r, h + 1))
  BY <1>3, <1>5, <1>6 DEF Middle
<1>8. QED
  BY <1>1, <1>2, <1>3, <1>6, <1>7 DEF Live

\* The last message of a request is answered, with ReadyForQuery at the end.
LEMMA Finishes ==
  ASSUME NEW l \in Live, NEW p, NEW in, NEW out, NEW r, NEW n, NEW g,
         Turn(l, p, in, out, r, n, g, "here"), in # <<>>,
         NEW p2, Harmless(p2),
         Len(r) <= n - Len(in) + 1,
         NEW s, NEW k \in Nat, Final(s, k), Statements(Head(in)) = k
  PROVE  Turn("ready", p2, Tail(in), out \o s, r, n, g, "here")
<1> USE DEF Turn
<1>1. n \in Nat /\ s \in Seq(Replies) /\ out \in Seq(Replies) /\ g \in Seq(Replies)
  BY DEF Final
<1>2. /\ n - Len(in) \in Nat /\ Head(in) = r[n - Len(in) + 1]
      /\ Tail(in) \in Seq(Message) /\ Len(Tail(in)) <= n /\ Len(Tail(in)) = Len(in) - 1
      /\ n - Len(Tail(in)) = n - Len(in) + 1
      /\ \A i \in 1..Len(Tail(in)) : Tail(in)[i] = r[n - Len(Tail(in)) + i]
  BY <1>1, NextMessage
<1>3. g \o (out \o s) = (g \o out) \o s /\ out \o s \in Seq(Replies) /\ g \o out \in Seq(Replies)
  BY <1>1, Regroup
<1> DEFINE h == n - Len(in)
<1>4. Middle(g \o out, Cardinality(CalledTo(r, h))) /\ Cardinality(CalledTo(r, h)) \in Nat
  BY <1>3, OutcomesFinite DEF Middle
<1>5. Final((g \o out) \o s, Cardinality(CalledTo(r, h)) + k)
  BY <1>4, MiddleThenFinal
<1>6. /\ IsFiniteSet(CalledTo(r, h + 1))
      /\ Cardinality(CalledTo(r, h + 1)) = Cardinality(CalledTo(r, h)) + k
  BY <1>2, CalledAdd
<1>7. /\ Ends(g \o (out \o s))
      /\ Cardinality(Outcomes(g \o (out \o s))) = Cardinality(CalledTo(r, h + 1))
  BY <1>3, <1>5, <1>6 DEF Final
<1>8. Tail(in) = <<>> /\ n = Len(r)
  <2>1. Len(Tail(in)) \in Nat /\ Len(r) \in Nat
    BY <1>2
  <2>2. Len(Tail(in)) = 0 /\ n = Len(r)
    BY <1>1, <1>2, <2>1
  <2>3. QED
    BY <1>2, <2>2, EmptySeq
<1>9. ~Unready(g \o (out \o s))
  BY <1>1, <1>7, Regroup, EndsIsReady
<1>10. QED
  BY <1>1, <1>2, <1>3, <1>6, <1>7, <1>8, <1>9 DEF Live

LEMMA GoneGoesOn ==
  ASSUME NEW l \in Live, NEW p, NEW in, NEW out, NEW r, NEW n, NEW g,
         Turn(l, p, in, out, r, n, g, "gone"), in # <<>>,
         NEW l2 \in Live, NEW p2, l2 # "ready" => l # "ready"
  PROVE  Turn(l2, p2, Tail(in), out, r, n, g, "gone")
<1>1. Tail(in) \in Seq(Message)
  BY HeadTailProperties DEF Turn
<1>2. QED
  BY <1>1 DEF Turn, Live

\* A handler that replies and goes on reading.
LEMMA ReplyTurn ==
  ASSUME TurnInv, SlotInv', NEW c \in Connections, NEW l2 \in Live, NEW p2, NEW replies,
         link[c] \in Live, inbox[c] # <<>>, Reply(c, replies),
         link' = [link EXCEPT ![c] = l2], prepared' = [prepared EXCEPT ![c] = p2],
         l2 # "ready" => link[c] # "ready",
         c \notin gone => Turn(l2, p2, Tail(inbox[c]), outbox[c] \o replies, request[c], sent[c],
                               got[c], "here")
  PROVE  TurnInv'
<1> DEFINE out == IF c \in gone THEN outbox[c] ELSE outbox[c] \o replies
<1>1. Moves(c, l2, p2, Tail(inbox[c]), out, request[c], sent[c], got[c], Client(c))
  BY DEF Reply, TurnInv, client, Client, Moves
<1>2. CASE c \in gone
  <2>1. Client(c) = "gone" /\ out = outbox[c]
    BY <1>2 DEF Client
  <2>2. Turn(l2, p2, Tail(inbox[c]), out, request[c], sent[c], got[c], Client(c))
    <3>1. Turn(link[c], prepared[c], inbox[c], outbox[c], request[c], sent[c], got[c], "gone")
      BY <2>1 DEF TurnInv, TurnOf
    <3>2. QED
      BY <2>1, <3>1, GoneGoesOn
  <2> HIDE DEF out
  <2>3. QED
    BY <1>1, <2>2, OnlyTurn
<1>3. CASE c \notin gone
  <2>1. Turn(l2, p2, Tail(inbox[c]), out, request[c], sent[c], got[c], Client(c))
    BY <1>3 DEF Client
  <2> HIDE DEF out
  <2>2. QED
    BY <1>1, <2>1, OnlyTurn
<1>4. QED
  BY <1>2, <1>3

LEMMA MessagesAreMessages ==
  ASSUME NEW r,
         \/ r \in Seq([type : STRING, of : Seq(STRING)])
         \/ r \in Seq([type : STRING, of : Seq(Kinds)])
  PROVE  r \in Seq(Message)
<1>1. /\ [type : STRING, of : Seq(STRING)] \subseteq Message
      /\ [type : STRING, of : Seq(Kinds)] \subseteq Message
  BY DEF Message
<1> HIDE DEF Message
<1>2. QED
  BY <1>1, SeqMonotonic

\* ReadyForQuery is the last of all replies, so a client that has read it has
\* read them all.
LEMMA IdleIsDone ==
  ASSUME TurnInv, NEW c \in Connections, Idle(c)
  PROVE  /\ inbox[c] = <<>> /\ outbox[c] = <<>>
         /\ Cardinality(Outcomes(got[c])) = Cardinality(Called(request[c]))
<1> DEFINE g == got[c]
           out == outbox[c]
           r == request[c]
<1>1. Turn(link[c], prepared[c], inbox[c], out, r, sent[c], g, Client(c))
  BY DEF TurnInv, TurnOf
<1>2. g \in Seq(Replies) /\ out \in Seq(Replies) /\ g # <<>> /\ g[Len(g)] = "Ready"
  BY <1>1 DEF Turn, Idle, Last
<1> HIDE DEF g, out, r
<1>3. /\ Len(g) \in Nat \ {0} /\ Len(out) \in Nat /\ Len(g \o out) = Len(g) + Len(out)
      /\ (g \o out)[Len(g)] = "Ready"
  <2>1. Len(g) \in Nat \ {0}
    BY <1>2, EmptySeq
  <2>2. QED
    BY <1>2, <2>1
<1>4. Len(g) \in 1..Len(g \o out)
  BY <1>3
<1>5. ~Unready(g \o out)
  BY <1>3, <1>4 DEF Unready
<1>6. /\ Ends(g \o out) /\ inbox[c] = <<>> /\ sent[c] = Len(r)
      /\ Client(c) = "gone" => Cardinality(Outcomes(g)) = Cardinality(Called(r))
  BY <1>1, <1>5 DEF Turn
<1>7. Len(g) = Len(g \o out)
  BY <1>3, <1>4, <1>6 DEF Ends
<1>8. out = <<>> /\ g \o out = g
  <2>1. Len(out) = 0
    BY <1>3, <1>7
  <2>2. out = <<>>
    BY <1>2, <2>1, EmptySeq
  <2>3. QED
    BY <1>2, <2>2, ConcatEmptySeq
<1>9. CASE Client(c) = "here"
  <2>1. /\ Cardinality(Outcomes(g \o out)) = Cardinality(CalledTo(r, sent[c] - Len(inbox[c])))
        /\ r \in Seq(Message)
    BY <1>1, <1>9 DEF Turn
  <2>2. sent[c] - Len(inbox[c]) = Len(r)
    <3>1. Len(r) \in Nat /\ Len(inbox[c]) = 0
      BY <1>6, <2>1, EmptySeq
    <3>2. QED
      BY <1>6, <3>1
  <2>3. QED
    <3>1. CalledTo(r, Len(r)) = Called(r)
      BY <2>1, AllCalled
    <3>2. Cardinality(Outcomes(g)) = Cardinality(Called(r))
      BY <1>8, <2>1, <2>2, <3>1
    <3>3. QED
      BY <1>6, <1>8, <3>2 DEF g, out, r
<1>10. CASE Client(c) = "gone"
  BY <1>6, <1>8, <1>10 DEF g, out, r
<1>11. QED
  BY <1>9, <1>10 DEF Client

LEMMA SendTurn ==
  ASSUME NEW l \in Live, NEW p, NEW in, NEW out, NEW r, NEW n, NEW g,
         Turn(l, p, in, out, r, n, g, "here"), n < Len(r)
  PROVE  Turn(l, p, Append(in, r[n + 1]), out, r, n + 1, g, "here")
<1>1. /\ in \in Seq(Message) /\ r \in Seq(Message) /\ n \in 0..Len(r) /\ Len(in) <= n
      /\ \A i \in 1..Len(in) : in[i] = r[n - Len(in) + i]
  BY DEF Turn
<1>2. Len(in) \in Nat /\ Len(r) \in Nat
  BY <1>1
<1>3. r[n + 1] \in Message /\ n + 1 \in 0..Len(r)
  <2>1. n + 1 \in 1..Len(r)
    BY <1>1, <1>2
  <2>2. QED
    BY <1>1, <2>1, ElementOfSeq
<1> DEFINE more == Append(in, r[n + 1])
<1>4. /\ more \in Seq(Message) /\ Len(more) = Len(in) + 1 /\ more[Len(in) + 1] = r[n + 1]
      /\ \A i \in 1..Len(in) : more[i] = in[i]
  BY <1>1, <1>3, AppendProperties
<1> HIDE DEF more
<1>5. Len(more) <= n + 1 /\ n + 1 - Len(more) = n - Len(in)
  BY <1>1, <1>2, <1>4
<1>6. ASSUME NEW i \in 1..Len(more) PROVE more[i] = r[n + 1 - Len(more) + i]
  <2>1. CASE i = Len(in) + 1
    <3>1. n + 1 - Len(more) + i = n + 1
      BY <1>1, <1>2, <1>4, <2>1
    <3>2. QED
      BY <1>4, <2>1, <3>1
  <2>2. CASE i # Len(in) + 1
    <3>1. i \in 1..Len(in) /\ n + 1 - Len(more) + i = n - Len(in) + i
      BY <1>1, <1>2, <1>4, <2>2
    <3>2. QED
      BY <1>1, <1>4, <3>1
  <2>3. QED
    BY <2>1, <2>2
<1>7. n # Len(r)
  BY <1>1, <1>2
<1>8. QED
  BY <1>3, <1>4, <1>5, <1>6, <1>7 DEF Turn, more

LEMMA ReceiveTurn ==
  ASSUME NEW l, NEW p, NEW in, NEW out, NEW r, NEW n, NEW g,
         Turn(l, p, in, out, r, n, g, "here"), out # <<>>
  PROVE  Turn(l, p, in, Tail(out), r, n, Append(g, Head(out)), "here")
<1>1. out \in Seq(Replies) /\ g \in Seq(Replies)
  BY DEF Turn
<1>2. Head(out) \in Replies /\ Tail(out) \in Seq(Replies) /\ <<Head(out)>> \in Seq(Replies)
      /\ Append(g, Head(out)) \in Seq(Replies)
  <2>1. Head(out) \in Replies /\ Tail(out) \in Seq(Replies)
    BY <1>1, HeadTailProperties
  <2>2. QED
    BY <1>1, <2>1
<1>3. Append(g, Head(out)) = g \o <<Head(out)>> /\ out = <<Head(out)>> \o Tail(out)
  <2>1. Append(g, Head(out)) = g \o <<Head(out)>>
    BY <1>1, <1>2, AppendIsConcat
  <2>2. out = <<Head(out)>> \o Tail(out)
    BY <1>1, <1>2
  <2>3. QED
    BY <2>1, <2>2
<1>4. Append(g, Head(out)) \o Tail(out) = g \o out
  BY <1>1, <1>2, <1>3, ConcatAssociative
<1>5. l \in Live
  BY DEF Turn
<1>6. QED
  BY <1>2, <1>4, <1>5 DEF Turn

LEMMA LeaveTurn ==
  ASSUME NEW l, NEW p, NEW in, NEW out, NEW r, NEW n, NEW g, NEW left \in {in, <<>>},
         Turn(l, p, in, out, r, n, g, "here")
  PROVE  Turn(l, p, left, <<>>, r, n, g, "gone")
<1>1. out \in Seq(Replies) /\ g \in Seq(Replies) /\ in \in Seq(Message) /\ r \in Seq(Message)
  BY DEF Turn
<1>2. <<>> \in Seq(Message) /\ <<>> \in Seq(Replies) /\ g \o <<>> = g /\ left \in Seq(Message)
  BY <1>1, EmptySeq, ConcatEmptySeq
<1>3. CASE Unready(g \o out)
  <2>1. Unready(g)
    BY <1>1, <1>3 DEF Unready
  <2>2. QED
    BY <1>2, <2>1 DEF Turn
<1>4. CASE ~Unready(g \o out)
  <2>1. Ends(g \o out) /\ in = <<>> /\ n = Len(r)
    BY <1>4 DEF Turn
  <2>2. CASE out = <<>>
    <3>1. g \o out = g
      BY <1>2, <2>2
    <3>2. /\ Cardinality(Outcomes(g)) = Cardinality(CalledTo(r, n - Len(in)))
          /\ n - Len(in) = Len(r)
      <4>1. Len(in) = 0 /\ Len(r) \in Nat
        BY <1>1, <2>1, EmptySeq
      <4>2. QED
        BY <2>1, <3>1, <4>1 DEF Turn
    <3>3. Cardinality(Outcomes(g)) = Cardinality(Called(r))
      BY <1>1, <3>2, AllCalled
    <3>4. QED
      BY <1>2, <2>1, <3>1, <3>3 DEF Turn
  <2>3. CASE out # <<>>
    <3>1. Unready(g)
      <4>1. Len(g) \in Nat /\ Len(out) \in Nat \ {0} /\ Len(g \o out) = Len(g) + Len(out)
            /\ \A i \in 1..Len(g) : (g \o out)[i] = g[i]
        BY <1>1, <2>3, EmptySeq, ConcatProperties
      <4>2. QED
        BY <2>1, <4>1 DEF Ends, Unready
    <3>2. QED
      BY <1>2, <2>1, <3>1 DEF Turn
  <2>4. QED
    BY <2>2, <2>3
<1>5. QED
  BY <1>3, <1>4

LEMMA CloseTurn ==
  ASSUME TurnInv, SlotInv', NEW c \in Connections, Close(c)
  PROVE  TurnInv'
<1> USE DEF Close
<1>1. Moves(c, "closed", prepared[c], <<>>, <<>>, <<>>, 0, <<>>, "here")
  BY DEF TurnInv, Begin, Moves
<1>2. Turn("closed", prepared[c], <<>>, <<>>, <<>>, 0, <<>>, "here")
  <2>1. <<>> \in Seq(Message) /\ "closed" \notin Live
    BY DEF Live
  <2>2. QED
    BY <2>1, FreshTurn
<1> HIDE DEF Close
<1>3. QED
  BY <1>1, <1>2, OnlyTurn

\* The message a handler reads from a client that is still there, in "ready".
LEMMA InRequest ==
  ASSUME Orderly, TurnInv, NEW c \in Connections, c \notin gone, link[c] = "ready", inbox[c] # <<>>
  PROVE  LET m == Head(inbox[c]) IN
         /\ request[c] \in Requests /\ m.of \in Seq(Kinds)
         /\ Harmless(prepared[c])
         /\ m.type \in {"Query", "Sync", "Unknown"} =>
              /\ "selectOne" \notin Range(m.of)
              /\ Len(request[c]) <= sent[c] - Len(inbox[c]) + 1
         /\ m.type \in {"Parse", "Bind", "Describe", "Execute", "Flush"} =>
              "failing" \notin Range(m.of)
<1> DEFINE m == Head(inbox[c])
           r == request[c]
           h == sent[c] - Len(inbox[c])
<1>1. Turn("ready", prepared[c], inbox[c], outbox[c], r, sent[c], got[c], "here")
  BY DEF TurnInv, TurnOf, Client
<1>2. /\ r \in Requests /\ r \in Seq(Message) /\ sent[c] \in 0..Len(r)
      /\ Harmless(prepared[c])
  BY <1>1 DEF Turn, Live
<1>3. /\ inbox[c] \in Seq(Message) /\ Len(inbox[c]) <= sent[c]
      /\ \A i \in 1..Len(inbox[c]) : inbox[c][i] = r[sent[c] - Len(inbox[c]) + i]
  BY <1>1 DEF Turn
<1>4. h \in Nat /\ m = r[h + 1]
  BY <1>2, <1>3, NextMessage
<1>5. Len(inbox[c]) \in Nat \ {0} /\ Len(r) \in Nat
  BY <1>2, <1>3, EmptySeq
<1>6. h + 1 \in 1..Len(r)
  BY <1>2, <1>4, <1>5
<1>7. AsksOnce(r)
  BY <1>2 DEF Orderly
<1>8. m.of \in Seq(Kinds)
  <2>1. r \in Seq([type : STRING, of : Seq(Kinds)])
    BY <1>7 DEF AsksOnce
  <2>2. r[h + 1] \in [type : STRING, of : Seq(Kinds)]
    BY <1>6, <2>1, ElementOfSeq, Zenon
  <2>3. QED
    BY <1>4, <2>2
<1>9. CASE h + 1 = Len(r)
  <2>1. AnswersOnce(m)
    BY <1>4, <1>7, <1>9 DEF AsksOnce
  <2>2. QED
    BY <1>2, <1>5, <1>8, <1>9, <2>1 DEF AnswersOnce
<1>10. CASE h + 1 # Len(r)
  <2>1. h + 1 \in 1..Len(r) - 1
    BY <1>5, <1>6, <1>10
  <2>2. Pipelined(m)
    BY <1>4, <1>7, <2>1 DEF AsksOnce
  <2>3. QED
    BY <1>2, <1>8, <2>2 DEF Pipelined
<1>11. QED
  BY <1>9, <1>10

\* What a handler leaves prepared.
Prepares(c, p) ==
  prepared' = [prepared EXCEPT ![c] = p] /\ (c \notin gone => Harmless(p))

\* A message of a pipeline: no ReadyForQuery yet.
LEMMA Pipelines ==
  ASSUME Orderly, TurnInv, SlotInv', NEW c \in Connections, link[c] = "ready", inbox[c] # <<>>,
         link' = link, NEW s, NEW k \in Nat, Reply(c, s), NEW p2, Prepares(c, p2),
         c \notin gone => Continues(inbox[c], s, k)
  PROVE  TurnInv'
<1>1. link' = [link EXCEPT ![c] = "ready"] /\ prepared' = [prepared EXCEPT ![c] = p2]
  BY DEF TurnInv, SlotInv, Prepares
<1>2. ASSUME c \notin gone
      PROVE  Turn("ready", p2, Tail(inbox[c]), outbox[c] \o s, request[c], sent[c], got[c], "here")
  <2>1. Turn("ready", prepared[c], inbox[c], outbox[c], request[c], sent[c], got[c], "here")
    BY <1>2 DEF TurnInv, TurnOf, Client
  <2>2. request[c] \in Requests /\ Harmless(p2)
    BY <1>2, InRequest DEF Prepares
  <2>3. "ready" \in Live
    BY DEF Live
  <2>4. QED
    BY <1>2, <2>1, <2>2, <2>3, GoesOn
<1>3. "ready" \in Live
  BY DEF Live
<1>4. QED
  BY <1>1, <1>2, <1>3, ReplyTurn

\* The last message of a request.
LEMMA Concludes ==
  ASSUME Orderly, TurnInv, SlotInv', NEW c \in Connections, link[c] = "ready", inbox[c] # <<>>,
         Head(inbox[c]).type \in {"Query", "Sync", "Unknown"},
         NEW s, NEW k \in Nat, Reply(c, s), link' = link, prepared' = prepared,
         c \notin gone => Final(s, k) /\ Statements(Head(inbox[c])) = k
  PROVE  TurnInv'
<1>1. link' = [link EXCEPT ![c] = "ready"] /\ prepared' = [prepared EXCEPT ![c] = prepared[c]]
  BY DEF TurnInv, SlotInv
<1>2. ASSUME c \notin gone
      PROVE  Turn("ready", prepared[c], Tail(inbox[c]), outbox[c] \o s, request[c], sent[c],
                  got[c], "here")
  <2>1. Turn("ready", prepared[c], inbox[c], outbox[c], request[c], sent[c], got[c], "here")
    BY <1>2 DEF TurnInv, TurnOf, Client
  <2>2. /\ Len(request[c]) <= sent[c] - Len(inbox[c]) + 1
        /\ Harmless(prepared[c])
    BY <1>2, InRequest
  <2>3. "ready" \in Live
    BY DEF Live
  <2>4. QED
    BY <1>2, <2>1, <2>2, <2>3, Finishes
<1>3. "ready" \in Live
  BY DEF Live
<1>4. QED
  BY <1>1, <1>2, <1>3, ReplyTurn

LEMMA OpenTurn ==
  ASSUME Orderly, TurnInv, SlotInv', NEW c \in Connections,
         RefuseSSL(c) \/ Startup(c) \/ Authenticate(c)
  PROVE  TurnInv'
<1> DEFINE m == Head(inbox[c])
           r == request[c]
           T(l) == Turn(l, prepared[c], inbox[c], outbox[c], r, sent[c], got[c], "here")
<1>1. link[c] \in Live /\ link[c] # "ready" /\ inbox[c] # <<>>
  BY DEF RefuseSSL, Startup, Authenticate, NextIs, Live
<1>2. prepared' = [prepared EXCEPT ![c] = prepared[c]] /\ link = [link EXCEPT ![c] = link[c]]
  BY DEF TurnInv, SlotInv, RefuseSSL, Startup, Authenticate
<1>3. ASSUME c \notin gone
      PROVE  /\ T(link[c]) /\ r \in Openings
             /\ Harmless(prepared[c])
  <2>1. T(link[c])
    BY <1>3 DEF TurnInv, TurnOf, Client
  <2>2. QED
    BY <1>1, <2>1 DEF Turn, Live
<1>4. CASE RefuseSSL(c)
  <2>1. link[c] = "startup" /\ m.type = "SSLRequest" /\ Reply(c, <<"NoSSL">>) /\ link' = link
    BY <1>4 DEF RefuseSSL, NextIs
  <2>2. Continues(inbox[c], <<"NoSSL">>, 0)
    BY <2>1, PlainReply DEF Statements, Plain, Replies, Continues
  <2>3. ASSUME c \notin gone
        PROVE  Turn("startup", prepared[c], Tail(inbox[c]), outbox[c] \o <<"NoSSL">>, r, sent[c],
                    got[c], "here")
    <3>1. T("startup") /\ "startup" \in Live
      BY <1>3, <2>1, <2>3 DEF Live
    <3>2. QED
      BY <1>1, <1>3, <2>2, <2>3, <3>1, GoesOn
  <2>4. "startup" \in Live /\ link' = [link EXCEPT ![c] = "startup"]
    BY <1>2, <2>1 DEF Live
  <2>5. QED
    BY <1>1, <1>2, <2>1, <2>3, <2>4, ReplyTurn
<1>5. CASE Startup(c)
  <2>1. /\ link[c] = "startup" /\ m.type = "Startup" /\ Reply(c, <<"AuthRequest">>)
        /\ link' = [link EXCEPT ![c] = "password"]
    BY <1>5 DEF Startup, NextIs
  <2>2. Continues(inbox[c], <<"AuthRequest">>, 0)
    BY <2>1, PlainReply DEF Statements, Plain, Replies, Continues
  <2>3. ASSUME c \notin gone
        PROVE  Turn("password", prepared[c], Tail(inbox[c]), outbox[c] \o <<"AuthRequest">>, r,
                    sent[c], got[c], "here")
    <3>1. T("startup") /\ "startup" \in Live /\ "password" \in Live
      BY <1>3, <2>1, <2>3 DEF Live
    <3>2. QED
      BY <1>1, <1>3, <2>2, <2>3, <3>1, GoesOn
  <2>4. "password" \in Live
    BY DEF Live
  <2>5. QED
    BY <1>1, <1>2, <2>1, <2>3, <2>4, ReplyTurn
<1>6. CASE Authenticate(c)
  <2>1. /\ link[c] = "password" /\ m.type = "Password" /\ m.of = <<"good">>
        /\ Reply(c, <<"AuthOK", "Ready">>) /\ link' = [link EXCEPT ![c] = "ready"]
    BY <1>6 DEF Authenticate, NextIs, Payload
  <2>2. Final(<<"AuthOK", "Ready">>, 0) /\ Statements(m) = 0
    <3>2. Final(<<"AuthOK", "Ready">>, 0)
      BY PairedReplies DEF Plain, Replies
    <3>3. QED
      BY <2>1, <3>2 DEF Statements
  <2>3. ASSUME c \notin gone PROVE Len(r) <= sent[c] - Len(inbox[c]) + 1
    <3>1. /\ inbox[c] \in Seq(Message) /\ Len(inbox[c]) <= sent[c] /\ sent[c] \in 0..Len(r)
          /\ \A i \in 1..Len(inbox[c]) : inbox[c][i] = r[sent[c] - Len(inbox[c]) + i]
          /\ r \in Seq(Message)
      BY <1>3, <2>3 DEF Turn
    <3> DEFINE h == sent[c] - Len(inbox[c])
    <3>2. h \in Nat /\ m = r[h + 1]
      <4>1. PICK in \in Seq(Message) : in = inbox[c]
        BY <3>1
      <4>2. PICK n \in Nat : n = sent[c] /\ Len(in) <= n
        BY <3>1, <4>1
      <4>3. in # <<>> /\ \A i \in 1..Len(in) : in[i] = r[n - Len(in) + i]
        BY <1>1, <3>1, <4>1, <4>2
      <4>4. n - Len(in) \in Nat /\ Head(in) = r[n - Len(in) + 1]
        BY <4>2, <4>3, NextMessage
      <4>5. QED
        BY <4>1, <4>2, <4>4
    <3>3. Len(inbox[c]) \in Nat \ {0} /\ Len(r) \in Nat
      BY <1>1, <3>1, EmptySeq
    <3>4. h + 1 \in 1..Len(r)
      BY <3>1, <3>2, <3>3
    <3>5. OpensWithPassword(r)
      BY <1>3, <2>3 DEF Orderly
    <3>6. h + 1 = Len(r)
      BY <2>1, <3>2, <3>4, <3>5 DEF OpensWithPassword
    <3>7. QED
      BY <3>6
  <2>4. ASSUME c \notin gone
        PROVE  Turn("ready", prepared[c], Tail(inbox[c]), outbox[c] \o <<"AuthOK", "Ready">>, r,
                    sent[c], got[c], "here")
    BY <1>1, <1>3, <2>2, <2>3, <2>4, Finishes
  <2>5. "ready" \in Live
    BY DEF Live
  <2>6. QED
    BY <1>1, <1>2, <2>1, <2>4, <2>5, ReplyTurn
<1>7. QED
  BY <1>4, <1>5, <1>6

LEMMA ReadyTurn ==
  ASSUME Orderly, TurnInv, SlotInv', NEW c \in Connections,
         \/ SimpleQuery(c) \/ Parse(c) \/ Bind(c) \/ Describe(c)
         \/ Execute(c) \/ Sync(c) \/ Flush(c) \/ Unknown(c)
  PROVE  TurnInv'
<1> DEFINE m == Head(inbox[c])
<1>0. link[c] = "ready" /\ inbox[c] # <<>> /\ link' = link
  BY DEF SimpleQuery, Parse, Bind, Describe, Execute, Sync, Flush, Unknown, Handles, NextIs
<1>1. c \notin gone => Harmless(prepared[c])
  BY <1>0, InRequest
<1>2. prepared = [prepared EXCEPT ![c] = prepared[c]]
  BY DEF TurnInv
<1>3. CASE SimpleQuery(c)
  <2>1. m.type = "Query" /\ Reply(c, QueryReply(m.of)) /\ prepared' = prepared
    BY <1>3 DEF SimpleQuery, Handles, NextIs, Payload
  <2>2. ASSUME c \notin gone
        PROVE  Runs(m.of) \in Nat /\ Final(QueryReply(m.of), Runs(m.of))
    BY <1>0, <2>1, <2>2, InRequest, QueryEnds
  <2>3. Statements(m) = Runs(m.of)
    BY <2>1 DEF Statements
  <2>4. CASE c \in gone
    BY <1>0, <2>1, <2>4, Concludes
  <2>5. CASE c \notin gone
    BY <1>0, <2>1, <2>2, <2>3, <2>5, Concludes
  <2>6. QED
    BY <2>4, <2>5
<1>4. CASE Parse(c)
  <2>1. m.type = "Parse"
    BY <1>4 DEF Parse, Handles, NextIs
  <2>2. CASE m.of = <<>>
    <3>1. Reply(c, <<"Error">>) /\ Prepares(c, prepared[c])
      BY <1>1, <1>2, <1>4, <2>2 DEF Parse, Payload, Prepares
    <3>2. Continues(inbox[c], <<"Error">>, 1)
      BY <2>1, <2>2, OutcomeReply DEF Statements, Continues
    <3>3. QED
      BY <1>0, <3>1, <3>2, Pipelines
  <2>3. CASE m.of # <<>>
    <3>1. Reply(c, <<"ParseComplete">>) /\ prepared' = [prepared EXCEPT ![c] = m.of[1]]
      BY <1>4, <2>3 DEF Parse, Payload
    <3>2. Continues(inbox[c], <<"ParseComplete">>, 0)
      BY <2>1, <2>3, PlainReply DEF Statements, Plain, Replies, Continues
    <3>3. ASSUME c \notin gone PROVE m.of[1] \in Kinds \ {"failing"}
      <4>1. m.of \in Seq(Kinds) /\ "failing" \notin Range(m.of)
        BY <1>0, <2>1, <3>3, InRequest
      <4>2. 1 \in 1..Len(m.of)
        BY <2>3, <4>1, EmptySeq
      <4>3. m.of[1] \in Kinds /\ m.of[1] \in Range(m.of)
        BY <4>1, <4>2 DEF Range
      <4>4. QED
        BY <4>1, <4>3
    <3>4. Prepares(c, m.of[1])
      BY <3>1, <3>3 DEF Prepares, Harmless
    <3>5. QED
      BY <1>0, <3>1, <3>2, <3>4, Pipelines
  <2>4. QED
    BY <2>2, <2>3
<1>5. CASE Bind(c)
  <2>1. m.type = "Bind" /\ Reply(c, <<"BindComplete">>)
        /\ Prepares(c, prepared[c])
    BY <1>1, <1>2, <1>5 DEF Bind, Handles, NextIs, Prepares
  <2>2. Continues(inbox[c], <<"BindComplete">>, 0)
    BY <2>1, PlainReply DEF Statements, Plain, Replies, Continues
  <2>3. QED
    BY <1>0, <2>1, <2>2, Pipelines
<1>6. CASE Describe(c)
  <2>1. m.type = "Describe" /\ Reply(c, DescribeReply(prepared[c]))
        /\ Prepares(c, prepared[c])
    BY <1>1, <1>2, <1>6 DEF Describe, Handles, NextIs, Prepares
  <2>2. Continues(inbox[c], DescribeReply(prepared[c]), 0)
    BY <2>1, DescribeGoesOn DEF Statements, Continues
  <2>3. QED
    BY <1>0, <2>1, <2>2, Pipelines
<1>7. CASE Execute(c)
  <2>1. m.type = "Execute" /\ Reply(c, ExecuteReply(prepared[c]))
        /\ Prepares(c, prepared[c])
    BY <1>1, <1>2, <1>7 DEF Execute, Handles, NextIs, Prepares
  <2>2. c \notin gone => Continues(inbox[c], ExecuteReply(prepared[c]), 1)
    BY <1>1, <2>1, ExecuteGoesOn DEF Statements, Harmless, Continues
  <2>3. QED
    BY <1>0, <2>1, <2>2, Pipelines
<1>8. CASE Flush(c)
  <2>1. m.type = "Flush" /\ Reply(c, <<>>)
        /\ Prepares(c, prepared[c])
    BY <1>1, <1>2, <1>8 DEF Flush, Handles, NextIs, Prepares
  <2>2. Continues(inbox[c], <<>>, 0)
    BY <2>1, NoReplies DEF Statements, Continues
  <2>3. QED
    BY <1>0, <2>1, <2>2, Pipelines
<1>9. CASE Sync(c)
  <2>1. m.type = "Sync" /\ Reply(c, <<"Ready">>) /\ prepared' = prepared
    BY <1>9 DEF Sync, Handles, NextIs
  <2>2. Final(<<"Ready">>, 0) /\ Statements(m) = 0
    BY <2>1, ReadyReply DEF Statements
  <2>3. QED
    BY <1>0, <2>1, <2>2, Concludes
<1>10. CASE Unknown(c)
  <2>1. m.type = "Unknown" /\ Reply(c, <<"Error", "Ready">>) /\ prepared' = prepared
    BY <1>10 DEF Unknown, Handles, NextIs
  <2>2. Final(<<"Error", "Ready">>, 1) /\ Statements(m) = 1
    <3>1. Final(<<"Error", "Ready">>, 1)
      BY PairedReplies
    <3>2. QED
      BY <2>1, <3>1 DEF Statements
  <2>3. QED
    BY <1>0, <2>1, <2>2, Concludes
<1>11. QED
  BY <1>3, <1>4, <1>5, <1>6, <1>7, <1>8, <1>9, <1>10

LEMMA ServeTurn ==
  ASSUME Orderly, TurnInv, SlotInv', NEW c \in Connections, Serve(c)
  PROVE  TurnInv'
<1>1. CASE Reject(c) \/ Terminate(c) \/ Hangup(c)
  BY <1>1, CloseTurn DEF Reject, Terminate, Hangup
<1>2. CASE RefuseSSL(c) \/ Startup(c) \/ Authenticate(c)
  BY <1>2, OpenTurn
<1>3. QED
  BY <1>1, <1>2, ReadyTurn DEF Serve

\* What the client does.
LEMMA ClientTurn ==
  ASSUME Orderly, TurnInv, SlotInv', NEW c \in Connections,
         Connect(c) \/ Ask(c) \/ Send(c) \/ Receive(c) \/ Leave(c)
  PROVE  TurnInv'
<1> DEFINE in == inbox[c]
           out == outbox[c]
           g == got[c]
           r == request[c]
           n == sent[c]
<1>1. Turn(link[c], prepared[c], in, out, r, n, g, Client(c))
  BY DEF TurnInv, TurnOf
<1>2. /\ link = [link EXCEPT ![c] = link[c]] /\ prepared = [prepared EXCEPT ![c] = prepared[c]]
      /\ inbox = [inbox EXCEPT ![c] = in] /\ outbox = [outbox EXCEPT ![c] = out]
      /\ request = [request EXCEPT ![c] = r] /\ sent = [sent EXCEPT ![c] = n]
      /\ got = [got EXCEPT ![c] = g]
  BY DEF TurnInv, SlotInv
<1>3. \A q \in Openings \cup Requests : q \in Seq(Message)
  BY MessagesAreMessages DEF Orderly, OpensWithPassword, AsksOnce
<1>4. CASE Connect(c)
  <2>1. PICK q \in Openings : Begin(c, q)
    BY <1>4 DEF Connect
  <2>2. /\ link[c] = "closed" /\ link' = [link EXCEPT ![c] = "backlog"]
        /\ UNCHANGED <<prepared, inbox, outbox, gone>>
    BY <1>4 DEF Connect
  <2>3. in = <<>> /\ out = <<>>
    BY <1>1, <2>2 DEF Turn, Live
  <2>4. Turn("backlog", prepared[c], <<>>, <<>>, q, 0, <<>>, Client(c))
    BY <1>3, FreshTurn DEF Live
  <2>5. Moves(c, "backlog", prepared[c], <<>>, <<>>, q, 0, <<>>, Client(c))
    BY <1>2, <2>1, <2>2, <2>3 DEF Begin, Client, Moves
  <2>6. QED
    BY <2>4, <2>5, OnlyTurn
<1>5. CASE Ask(c)
  <2>1. PICK q \in Requests : Begin(c, q)
    BY <1>5 DEF Ask
  <2>2. /\ link[c] = "ready" /\ Idle(c) /\ c \notin gone
        /\ UNCHANGED <<link, prepared, inbox, outbox, gone>>
    BY <1>5 DEF Ask
  <2>3. in = <<>> /\ out = <<>>
    BY <1>1, <2>2, IdleIsDone
  <2>4. Turn("ready", prepared[c], <<>>, <<>>, q, 0, <<>>, Client(c))
    <3>1. Harmless(prepared[c])
      BY <1>1, <2>2 DEF Turn, Live, Client
    <3>2. QED
      BY <1>3, <3>1, FreshTurn
  <2>5. Moves(c, "ready", prepared[c], <<>>, <<>>, q, 0, <<>>, Client(c))
    BY <1>2, <2>1, <2>2, <2>3 DEF Begin, Client, Moves
  <2>6. QED
    BY <2>4, <2>5, OnlyTurn
<1>6. CASE Send(c)
  <2>1. /\ c \notin gone /\ link[c] \in Live /\ n < Len(r)
        /\ inbox' = [inbox EXCEPT ![c] = Append(in, r[n + 1])] /\ sent' = [sent EXCEPT ![c] = n + 1]
        /\ UNCHANGED <<link, prepared, outbox, request, got, gone>>
    BY <1>6 DEF Send, TurnInv, Served, Live
  <2>2. Client(c) = "here"
    BY <2>1 DEF Client
  <2>3. Turn(link[c], prepared[c], Append(in, r[n + 1]), out, r, n + 1, g, "here")
    BY <1>1, <2>1, <2>2, SendTurn
  <2>4. Moves(c, link[c], prepared[c], Append(in, r[n + 1]), out, r, n + 1, g, "here")
    BY <1>2, <2>1 DEF Moves
  <2>5. QED
    BY <2>3, <2>4, OnlyTurn
<1>7. CASE Receive(c)
  <2>1. /\ c \notin gone /\ out # <<>>
        /\ outbox' = [outbox EXCEPT ![c] = Tail(out)]
        /\ got' = [got EXCEPT ![c] = Append(g, Head(out))]
        /\ UNCHANGED <<link, prepared, inbox, request, sent, gone>>
    BY <1>7 DEF Receive, TurnInv
  <2>2. Client(c) = "here"
    BY <2>1 DEF Client
  <2>3. Turn(link[c], prepared[c], in, Tail(out), r, n, Append(g, Head(out)), "here")
    BY <1>1, <2>1, <2>2, ReceiveTurn
  <2>4. Moves(c, link[c], prepared[c], in, Tail(out), r, n, Append(g, Head(out)), "here")
    BY <1>2, <2>1 DEF Moves
  <2>5. QED
    BY <2>3, <2>4, OnlyTurn
<1>8. CASE Leave(c)
  <2>1. PICK left \in {in, <<>>} : inbox' = [inbox EXCEPT ![c] = left]
    BY <1>2, <1>8 DEF Leave
  <2>2. /\ c \notin gone /\ gone' = gone \cup {c} /\ outbox' = [outbox EXCEPT ![c] = <<>>]
        /\ UNCHANGED <<link, prepared, request, sent, got>>
    BY <1>8 DEF Leave
  <2>3. Client(c) = "here"
    BY <2>2 DEF Client
  <2>4. Turn(link[c], prepared[c], left, <<>>, r, n, g, "gone")
    BY <1>1, <2>1, <2>3, LeaveTurn
  <2>5. Moves(c, link[c], prepared[c], left, <<>>, r, n, g, "gone")
    BY <1>2, <2>1, <2>2 DEF Moves
  <2>6. QED
    BY <2>4, <2>5, OnlyTurn
<1>9. QED
  BY <1>4, <1>5, <1>6, <1>7, <1>8

LEMMA LoopTurn ==
  ASSUME Orderly, TurnInv, SlotInv', Accept \/ Admit
  PROVE  TurnInv'
<1>1. CASE Accept
  <2> DEFINE c == Head(backlog)
  <2>1. backlog \in Seq(Connections) /\ backlog # <<>>
    BY <1>1 DEF Accept, TurnInv, SlotInv, LoopInv
  <2>2. c \in Connections /\ link[c] = "backlog"
    <3>1. Len(backlog) \in Nat \ {0} /\ c = backlog[1]
      BY <2>1, EmptySeq, HeadTailProperties
    <3>2. QED
      BY <2>1, <3>1 DEF TurnInv, SlotInv, LoopInv
  <2> HIDE DEF c
  <2>3. Moves(c, "accepted", prepared[c], inbox[c], outbox[c], request[c], sent[c], got[c],
              Client(c))
    BY <1>1 DEF Accept, TurnInv, client, c, Client, Moves
  <2>4. Turn("accepted", prepared[c], inbox[c], outbox[c], request[c], sent[c], got[c], Client(c))
    <3>1. Turn("backlog", prepared[c], inbox[c], outbox[c], request[c], sent[c], got[c], Client(c))
      BY <2>2 DEF TurnInv, TurnOf
    <3>2. QED
      BY <3>1 DEF Turn, Live
  <2>5. QED
    BY <2>2, <2>3, <2>4, OnlyTurn
<1>2. CASE Admit
  <2> DEFINE c == admitting
  <2>1. c \in Connections /\ link[c] = "accepted"
    BY <1>2 DEF Admit, TurnInv, SlotInv, LoopInv
  <2> HIDE DEF c
  <2>2. Moves(c, "startup", None, inbox[c], outbox[c], request[c], sent[c], got[c], Client(c))
    BY <1>2 DEF Admit, TurnInv, client, c, Client, Moves
  <2>3. Turn("startup", None, inbox[c], outbox[c], request[c], sent[c], got[c], Client(c))
    <3>1. Turn("accepted", prepared[c], inbox[c], outbox[c], request[c], sent[c], got[c], Client(c))
      BY <2>1 DEF TurnInv, TurnOf
    <3>2. /\ inbox[c] = <<>> /\ outbox[c] = <<>> /\ got[c] = <<>> /\ sent[c] = 0
          /\ request[c] \in Seq(Message)
          /\ request[c] = <<>> \/ request[c] \in Openings \cup Requests
          /\ Client(c) = "here" => request[c] \in Openings
      BY <3>1 DEF Turn, Live
    <3>3. QED
      BY <3>2, FreshTurn DEF Harmless
  <2>4. QED
    BY <2>1, <2>2, <2>3, OnlyTurn
<1>3. QED
  BY <1>1, <1>2

LEMMA InitTurn == SessionInit => TurnInv
<1> SUFFICES ASSUME SessionInit PROVE TurnInv
  OBVIOUS
<1>1. SlotInv
  BY InitSlots
<1>2. ASSUME NEW c \in Connections PROVE TurnOf(c)
  <2>1. Turn("closed", None, <<>>, <<>>, <<>>, 0, <<>>, "here")
    BY EmptySeq, FreshTurn DEF Live
  <2>2. QED
    BY <2>1 DEF SessionInit, TurnOf, Client
<1>3. QED
  BY <1>1, <1>2 DEF SessionInit, TurnInv

LEMMA NextTurn == Orderly /\ TurnInv /\ [SessionNext]_sessionVars => TurnInv'
<1> SUFFICES ASSUME Orderly, TurnInv, [SessionNext]_sessionVars PROVE TurnInv'
  OBVIOUS
<1>1. SlotInv'
  BY NextSlots DEF TurnInv
<1>2. CASE UNCHANGED sessionVars
  BY <1>1, <1>2 DEF sessionVars, loop, client, TurnInv, TurnOf, Client
<1>3. QED
  BY <1>1, <1>2, LoopTurn, ClientTurn, ServeTurn DEF SessionNext

----------------------------------------------------------------------------
(* The theorems                                                            *)

\* However a session ends, its slot is given back, once, and there are never
\* more sessions than slots.
THEOREM SlotsNeverLost == SessionSpec => []SlotsAreExact
<1>1. SlotInv => SlotsAreExact
  BY MaxConnsAssumption DEF SlotInv, SlotsAreExact
<1>2. QED
  BY <1>1, InitSlots, NextSlots, PTL DEF SessionSpec

\* A client that has read ReadyForQuery has no message on its way to the server
\* and none on its way back, through any requests and however other sessions
\* end, as long as no request is one the code answers twice (Orderly).
THEOREM StaysInStep == ASSUME Orderly PROVE SessionSpec => []InStep
<1>1. TurnInv => InStep
  BY IdleIsDone DEF InStep
<1>2. QED
  BY <1>1, InitTurn, NextTurn, PTL DEF SessionSpec

\* Each statement of a request has had its one outcome by then: a completion
\* or an error, and none for the statements after one that failed.
THEOREM EveryStatementIsAnswered == ASSUME Orderly PROVE SessionSpec => []OneOutcomePerStatement
<1>1. TurnInv => OneOutcomePerStatement
  BY IdleIsDone DEF OneOutcomePerStatement
<1>2. QED
  BY <1>1, InitTurn, NextTurn, PTL DEF SessionSpec
===============================================================================
