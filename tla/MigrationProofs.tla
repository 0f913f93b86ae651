---------------------------- MODULE MigrationProofs ----------------------------
(***************************************************************************)
(* For any schemas, names, old stores and bounds: types; no object of the  *)
(* old store is lost, wherever the server stops and whatever fails; and    *)
(* what the migration moves or overwrites is in a backup.                  *)
(***************************************************************************)
EXTENDS Migration, TLAPS

USE DEF Tables, Views, Routines, Registry, Objects, Homes, Databases

----------------------------------------------------------------------------
(* Types                                                                   *)

LEMMA InitType == Init => TypeOK
<1> SUFFICES ASSUME Init PROVE TypeOK
  OBVIOUS
<1> USE SchemasAssumption, HomesAssumption, BoundsAssumption
<1>1. PICK objects \in SUBSET (Tables \cup Views \cup Routines), dbs \in SUBSET (Schemas \ {Public}),
           empty \in SUBSET (Schemas \ {Public}) :
        LET all == objects \cup (IF dbs = {} THEN {} ELSE {Registry})
            tables == {o \in all : o[1] = "table"}
        IN /\ past = [objects |-> all, dbs |-> dbs, schemas |-> {o[2] : o \in tables} \cup empty]
           /\ store = [k \in Homes \X Objects |->
                         IF k[1] = Legacy /\ k[2] \in all THEN k[2] ELSE None]
           /\ saved = [NoMetadata EXCEPT
                         !.schemas = {Legacy} \X past.schemas,
                         !.tables = {<<Legacy, o[2], o[3]>> : o \in tables}]
           /\ meta = NoMetadata /\ legacyDBs = {} /\ backups = {}
           /\ pc = "stopped" /\ stops = 0 /\ torn = FALSE
  BY DEF Init
<1> DEFINE all == objects \cup (IF dbs = {} THEN {} ELSE {Registry})
           old == {o \in all : o[1] = "table"}
<1>2. all \subseteq Objects /\ past.objects = all /\ past.dbs = dbs
      /\ past.schemas = {o[2] : o \in old} \cup empty
  BY <1>1
<1>3. \A o \in old : o[2] \in Schemas /\ o[3] \in Names \cup {PgDatabase}
  OBVIOUS
<1>4. store \in Stores
  BY <1>1, <1>2 DEF Stores
<1>5. meta \in Metadata
  BY <1>1 DEF NoMetadata, Metadata
<1>6. saved \in Metadata
  <2>1. {Legacy} \X past.schemas \in SUBSET (Homes \X Schemas)
    BY <1>2, <1>3
  <2>2. {<<Legacy, o[2], o[3]>> : o \in old}
          \in SUBSET (Homes \X Schemas \X (Names \cup {PgDatabase}))
    BY <1>3
  <2>3. saved = [dbs |-> {}, schemas |-> {Legacy} \X past.schemas,
                 tables |-> {<<Legacy, o[2], o[3]>> : o \in old}]
    BY <1>1 DEF NoMetadata
  <2>4. QED
    BY <2>1, <2>2, <2>3 DEF Metadata
<1>7. past.objects \subseteq Objects /\ past.dbs \subseteq Databases \ {Postgres}
  BY <1>2
<1>8. /\ legacyDBs = {} /\ backups = {} /\ pc \in Phases /\ stops \in 0..MaxStops
      /\ torn \in BOOLEAN
  <2>1. legacyDBs = {} /\ backups = {} /\ pc = "stopped" /\ stops = 0 /\ torn = FALSE
    BY <1>1
  <2>2. stops \in 0..MaxStops
    BY <2>1
  <2>3. pc \in Phases
    BY <2>1, Zenon DEF Phases
  <2>4. torn \in BOOLEAN
    BY <2>1, Zenon
  <2>5. QED
    BY <2>1, <2>2, <2>3, <2>4
<1>9. QED
  BY <1>4, <1>5, <1>6, <1>7, <1>8 DEF TypeOK

LEMMA TargetType ==
  ASSUME NEW o \in Objects \ {Registry}, NEW dbs \in SUBSET (Schemas \ {Public})
  PROVE  Target(o, dbs) \in Homes \X Objects
<1> USE SchemasAssumption, NamesAssumption
<1>1. CASE o \in Routines
  BY <1>1 DEF Target
<1>2. CASE o \in Tables \cup Views
  BY <1>2 DEF Target
<1>3. QED
  BY <1>1, <1>2

LEMMA MovedType ==
  ASSUME store \in Stores, NEW dbs
  PROVE  Moved(dbs) \in Stores
<1> DEFINE From(k) == {o \in LegacyObjects \ {Registry} : Target(o, dbs) = k}
<1>1. ASSUME NEW k \in Homes \X Objects, From(k) # {}
      PROVE  (CHOOSE o \in From(k) : TRUE) \in Objects
  <2>1. (CHOOSE o \in From(k) : TRUE) \in From(k)
    BY <1>1
  <2>2. QED
    BY <2>1 DEF LegacyObjects
<1>2. \A k \in Homes \X Objects : store[k] \in Objects \cup {None, New}
  BY DEF Stores
<1>3. QED
  BY <1>1, <1>2 DEF Moved, Stores

LEMMA MetadataParts ==
  ASSUME NEW m \in Metadata
  PROVE  /\ m.dbs \subseteq Databases /\ m.schemas \subseteq Homes \X Schemas
         /\ m.tables \subseteq Homes \X Schemas \X (Names \cup {PgDatabase})
  BY DEF Metadata

LEMMA RegisteredType ==
  ASSUME NEW m \in Metadata
  PROVE  Registered(m) \in Metadata
  BY DEF Metadata, Registered

LEMMA MovedMetadataType == TypeOK => MovedMetadata \in Metadata
<1> SUFFICES ASSUME TypeOK PROVE MovedMetadata \in Metadata
  OBVIOUS
<1> USE SchemasAssumption
<1> DEFINE moving == {t \in meta.tables : t[1] = Legacy /\ ~(t[2] = Public /\ t[3] = PgDatabase)}
           homes == {TargetSchema(s, legacyDBs) : s \in LegacySchemas}
           moved == {TargetTable(t, legacyDBs) : t \in moving}
<1>1. /\ meta.dbs \subseteq Databases /\ meta.schemas \subseteq Homes \X Schemas
      /\ meta.tables \subseteq Homes \X Schemas \X (Names \cup {PgDatabase})
      /\ legacyDBs \subseteq Databases
  BY MetadataParts DEF TypeOK
<1>2. \A s \in Schemas : TargetSchema(s, legacyDBs) \in Homes \X Schemas
  BY <1>1 DEF TargetSchema
<1>3. homes \subseteq Homes \X Schemas
  BY <1>2 DEF LegacySchemas
<1>4. \A t \in moving : TargetTable(t, legacyDBs) \in Homes \X Schemas \X (Names \cup {PgDatabase})
  BY <1>1, <1>2 DEF TargetTable
<1>5. moved \subseteq Homes \X Schemas \X (Names \cup {PgDatabase})
  BY <1>4
<1>6. {Postgres : s \in LegacySchemas} \subseteq Databases
  OBVIOUS
<1>7. QED
  BY <1>1, <1>3, <1>5, <1>6 DEF MovedMetadata, Metadata

LEMMA NextType == TypeOK /\ [Next]_vars => TypeOK'
<1> SUFFICES ASSUME TypeOK, [Next]_vars PROVE TypeOK'
  OBVIOUS
<1> USE BoundsAssumption DEF Phases
<1>1. CASE UNCHANGED vars
  BY <1>1 DEF vars, TypeOK
<1>2. CASE Load
  BY <1>2, RegisteredType DEF Load, TypeOK
<1>3. CASE Backup
  BY <1>3 DEF Backup, TypeOK
<1>4. CASE MoveKeys
  <2>1. LegacyDatabases \subseteq Databases \ {Postgres}
    BY DEF LegacyDatabases, TypeOK
  <2>2. store' \in Stores
    BY <1>4, MovedType DEF MoveKeys, TypeOK
  <2>3. QED
    BY <1>4, <2>1, <2>2 DEF MoveKeys, TypeOK
<1>5. CASE MoveMetadata
  BY <1>5, MovedMetadataType, RegisteredType DEF MoveMetadata, TypeOK
<1>6. CASE BackupFails
  <2>1. NoMetadata \in Metadata
    BY DEF NoMetadata, Metadata
  <2>2. QED
    BY <1>6, <2>1 DEF BackupFails, TypeOK
<1>7. CASE MoveKeysFails
  BY <1>7, RegisteredType DEF MoveKeysFails, TypeOK
<1>8. CASE MoveMetadataFails
  BY <1>8, MovedMetadataType, RegisteredType DEF MoveMetadataFails, TypeOK
<1>9. ASSUME NEW db \in Databases, NEW o \in Tables, SaveTable(db, o)
      PROVE  TypeOK'
  <2>1. store' \in Stores
    BY <1>9 DEF SaveTable, TypeOK, Stores
  <2>2. meta' \in Metadata
    <3>1. /\ {<<db, o[2]>>} \subseteq Homes \X Schemas
          /\ {<<db, o[2], o[3]>>} \subseteq Homes \X Schemas \X (Names \cup {PgDatabase})
      OBVIOUS
    <3>2. meta' = [meta EXCEPT !.schemas = @ \cup {<<db, o[2]>>},
                               !.tables = @ \cup {<<db, o[2], o[3]>>}]
      BY <1>9 DEF SaveTable
    <3>3. QED
      BY <3>1, <3>2 DEF TypeOK, Metadata
  <2>3. QED
    BY <1>9, <2>1, <2>2 DEF SaveTable, TypeOK
<1>10. ASSUME NEW db \in Databases, CreateDatabase(db) PROVE TypeOK'
  <2>1. meta' \in Metadata
    BY <1>10 DEF CreateDatabase, TypeOK, Metadata
  <2>2. QED
    BY <1>10, <2>1 DEF CreateDatabase, TypeOK
<1>11. CASE Stop
  <2>1. NoMetadata \in Metadata
    BY DEF NoMetadata, Metadata
  <2>2. QED
    BY <1>11, <2>1 DEF Stop, TypeOK
<1>12. QED
  BY <1>1, <1>2, <1>3, <1>4, <1>5, <1>6, <1>7, <1>8, <1>9, <1>10, <1>11
     DEF Next, Open, Fail, Serve

\* Types: the store's keys and documents are of databases and schemas there can
\* be, the metadata of every step of NewPebbleStorage included.
THEOREM TypeCorrect == Spec => []TypeOK
  BY InitType, NextType, PTL DEF Spec

----------------------------------------------------------------------------
(* Nothing is lost                                                         *)

\* The old keys go in one batch: all of them are there or none is.  The table
\* of the old databases is one of them, so whoever finds old keys also finds
\* which schemas were databases.
LegacyWhole ==
  \/ \A o \in Objects : store[<<Legacy, o>>] = IF o \in past.objects THEN o ELSE None
  \/ \A o \in Objects : store[<<Legacy, o>>] = None

PastInv ==
  /\ past.objects \subseteq Objects /\ past.dbs \subseteq Schemas \ {Public}
  /\ Registry \in past.objects <=> past.dbs # {}

LostInv == TypeOK /\ PastInv /\ LegacyWhole /\ NothingLost

\* No two old objects move to the same key.
LEMMA TargetInjective ==
  ASSUME NEW o \in Objects \ {Registry}, NEW p \in Objects \ {Registry},
         NEW dbs \in SUBSET (Schemas \ {Public}), Target(o, dbs) = Target(p, dbs)
  PROVE  o = p
<1> USE SchemasAssumption, NamesAssumption
<1> DEFINE Triple(x) == /\ x = <<x[1], x[2], x[3]>>
                        /\ x[2] = NoSchema \/ x[2] \in Schemas
<1>1. Triple(o) /\ Triple(p)
  OBVIOUS
<1>2. CASE o[2] \in dbs /\ p[2] \in dbs
  <2>1. o[2] = p[2] /\ o[1] = p[1] /\ o[3] = p[3]
    BY <1>2 DEF Target
  <2>2. QED
    BY <1>1, <2>1
<1>3. CASE o[2] \notin dbs /\ p[2] \notin dbs
  BY <1>3 DEF Target
<1>4. CASE o[2] \in dbs /\ p[2] \notin dbs
  BY <1>4 DEF Target
<1>5. CASE o[2] \notin dbs /\ p[2] \in dbs
  BY <1>5 DEF Target
<1>6. QED
  BY <1>2, <1>3, <1>4, <1>5

\* An old object moves into a database.
LEMMA TargetHome ==
  ASSUME NEW o \in Objects \ {Registry}, NEW dbs \in SUBSET (Schemas \ {Public})
  PROVE  Target(o, dbs)[1] # Legacy
<1>1. Target(o, dbs)[1] \in Databases
  BY DEF Target
<1>2. QED
  BY <1>1, HomesAssumption

LEMMA InitLost == Init => LostInv
<1> SUFFICES ASSUME Init PROVE LostInv
  OBVIOUS
<1> USE SchemasAssumption, NamesAssumption
<1>1. PICK objects \in SUBSET (Tables \cup Views \cup Routines), dbs \in SUBSET (Schemas \ {Public}),
           empty \in SUBSET (Schemas \ {Public}) :
        LET all == objects \cup (IF dbs = {} THEN {} ELSE {Registry})
            tables == {o \in all : o[1] = "table"}
        IN /\ past = [objects |-> all, dbs |-> dbs, schemas |-> {o[2] : o \in tables} \cup empty]
           /\ store = [k \in Homes \X Objects |->
                         IF k[1] = Legacy /\ k[2] \in all THEN k[2] ELSE None]
           /\ saved = [NoMetadata EXCEPT
                         !.schemas = {Legacy} \X past.schemas,
                         !.tables = {<<Legacy, o[2], o[3]>> : o \in tables}]
  BY DEF Init
<1>2. Registry \notin objects
  OBVIOUS
<1>3. PastInv
  BY <1>1, <1>2 DEF PastInv
<1>4. \A o \in Objects : store[<<Legacy, o>>] = IF o \in past.objects THEN o ELSE None
  BY <1>1
<1>5. LegacyWhole
  BY <1>4 DEF LegacyWhole
<1>6. NothingLost
  BY <1>3, <1>4 DEF NothingLost, PastInv
<1>7. QED
  BY <1>3, <1>5, <1>6, InitType DEF LostInv

\* The batch: what was under the old keys is where it belongs.
LEMMA MoveKeepsAll ==
  ASSUME LostInv, MoveKeys
  PROVE  LegacyWhole' /\ NothingLost'
<1> USE ValuesAssumption, HomesAssumption
<1> DEFINE From(k) == {o \in LegacyObjects \ {Registry} : Target(o, LegacyDatabases) = k}
<1>1. past' = past /\ past.objects \subseteq Objects /\ past.dbs \in SUBSET (Schemas \ {Public})
  BY DEF MoveKeys, LostInv, PastInv
<1>2. \A k \in Homes \X Objects :
        store'[k] = IF k[1] = Legacy THEN None
                    ELSE IF From(k) = {} THEN store[k] ELSE CHOOSE o \in From(k) : TRUE
  BY DEF MoveKeys, Moved
<1>3. \A o \in Objects : store'[<<Legacy, o>>] = None
  BY <1>2
<1>4. ASSUME NEW o \in past.objects \ {Registry}
      PROVE  store'[Target(o, past.dbs)] \in {o, New}
  <2>1. o \in Objects \ {Registry} /\ o # None
    BY <1>1
  <2>2. Target(o, past.dbs) \in Homes \X Objects /\ Target(o, past.dbs)[1] # Legacy
    BY <1>1, <2>1, TargetType, TargetHome
  <2>3. CASE \A p \in Objects : store[<<Legacy, p>>] = IF p \in past.objects THEN p ELSE None
    <3>1. LegacyObjects = past.objects
      BY <1>1, <2>3 DEF LegacyObjects
    <3>2. LegacyDatabases = past.dbs
      BY <3>1 DEF LegacyDatabases, LostInv, PastInv
    <3>3. o \in From(Target(o, past.dbs))
      BY <3>1, <3>2
    <3>4. \A p \in From(Target(o, past.dbs)) : p = o
      BY <1>1, <2>1, <3>1, <3>2, TargetInjective
    <3>5. (CHOOSE p \in From(Target(o, past.dbs)) : TRUE) = o
      BY <3>3, <3>4
    <3>6. QED
      BY <1>2, <2>2, <3>3, <3>5
  <2>4. CASE \A p \in Objects : store[<<Legacy, p>>] = None
    <3>1. LegacyObjects = {}
      BY <2>4 DEF LegacyObjects
    <3>2. store'[Target(o, past.dbs)] = store[Target(o, past.dbs)]
      BY <1>2, <2>2, <3>1
    <3>3. store[Target(o, past.dbs)] \in {o, New}
      BY <2>1, <2>4 DEF LostInv, NothingLost
    <3>4. QED
      BY <3>2, <3>3
  <2>5. QED
    BY <2>3, <2>4 DEF LostInv, LegacyWhole
<1>5. LegacyWhole'
  BY <1>3 DEF LegacyWhole
<1>6. NothingLost'
  BY <1>1, <1>4 DEF NothingLost
<1>7. QED
  BY <1>5, <1>6

LEMMA NextLost == LostInv /\ [Next]_vars => LostInv'
<1> SUFFICES ASSUME LostInv, [Next]_vars PROVE LostInv'
  OBVIOUS
<1>1. TypeOK'
  BY NextType DEF LostInv
<1>2. past' = past
  BY DEF vars, Next, Open, Fail, Serve, Load, Backup, MoveKeys, MoveMetadata, BackupFails,
         MoveKeysFails, MoveMetadataFails, SaveTable, CreateDatabase, Stop
<1>3. PastInv'
  BY <1>2 DEF PastInv, LostInv
<1>4. CASE store' = store
  BY <1>1, <1>2, <1>3, <1>4 DEF LostInv, LegacyWhole, NothingLost
<1>5. CASE MoveKeys
  BY <1>1, <1>3, <1>5, MoveKeepsAll DEF LostInv
<1>6. ASSUME NEW db \in Databases, NEW o \in Tables, SaveTable(db, o)
      PROVE  LostInv'
  <2>1. store' = [store EXCEPT ![<<db, o>>] = New] /\ store \in Stores
    BY <1>6 DEF SaveTable, LostInv, TypeOK
  <2>2. \A p \in Objects : store'[<<Legacy, p>>] = store[<<Legacy, p>>]
    BY <2>1, HomesAssumption DEF Stores
  <2>3. \A k \in Homes \X Objects : store'[k] \in {store[k], New}
    BY <2>1 DEF Stores
  <2>4. LegacyWhole'
    BY <1>2, <2>2 DEF LegacyWhole, LostInv
  <2>5. \A p \in past.objects \ {Registry} :
          p \in Objects \ {Registry} /\ Target(p, past.dbs) \in Homes \X Objects
    BY TargetType DEF LostInv, PastInv
  <2>6. NothingLost'
    BY <1>2, <2>2, <2>3, <2>5 DEF NothingLost, LostInv
  <2>7. QED
    BY <1>1, <1>3, <2>4, <2>6 DEF LostInv
<1>7. store' = store \/ MoveKeys \/ \E db \in Databases, o \in Tables : SaveTable(db, o)
  BY DEF vars, Next, Open, Fail, Serve, Load, Backup, MoveMetadata, BackupFails,
         MoveKeysFails, MoveMetadataFails, CreateDatabase, Stop
<1>8. QED
  BY <1>4, <1>5, <1>6, <1>7

\* Whatever is stopped or fails, every object of the old store is under its old
\* key or where the migration puts it.
THEOREM NothingIsLost == Spec => []NothingLost
<1>1. LostInv => NothingLost
  BY DEF LostInv
<1>2. QED
  BY <1>1, InitLost, NextLost, PTL DEF Spec

----------------------------------------------------------------------------
(* Backups                                                                 *)

\* Between the copy and the batch nothing changes the store.
CopyInv == pc = "copied" => \E b \in backups : b.store = store

LEMMA InitCopy == Init => CopyInv
  BY DEF Init, CopyInv

LEMMA NextCopy == CopyInv /\ [Next]_vars => CopyInv'
<1> SUFFICES ASSUME CopyInv, [Next]_vars PROVE CopyInv'
  OBVIOUS
<1>1. CASE Backup
  <2>1. [store |-> store, meta |-> saved] \in backups' /\ store' = store
    BY <1>1 DEF Backup
  <2>2. QED
    BY <2>1 DEF CopyInv
<1>2. CASE pc' # "copied"
  BY <1>2 DEF CopyInv
<1>3. CASE pc' = pc /\ store' = store /\ backups' = backups
  BY <1>3 DEF CopyInv
<1>4. pc' # "copied" \/ Backup \/ (pc' = pc /\ store' = store /\ backups' = backups)
  BY DEF vars, Next, Open, Fail, Serve, Load, MoveKeys, MoveMetadata, BackupFails,
         MoveKeysFails, MoveMetadataFails, SaveTable, CreateDatabase, Stop
<1>5. QED
  BY <1>1, <1>2, <1>3, <1>4

\* What the batch takes out of the store or overwrites is in a backup.
THEOREM MovesHaveBackups == Spec => MovesAreBackedUp
<1>1. CopyInv /\ [Next]_vars =>
        [\A k \in Homes \X Objects :
           pc = "copied" /\ store'[k] # store[k] /\ store[k] # None
             => \E b \in backups : b.store[k] = store[k]]_vars
  BY DEF CopyInv
<1>2. QED
  BY <1>1, InitCopy, NextCopy, PTL DEF Spec, MovesAreBackedUp
----------------------------------------------------------------------------
(* A migration that is over is there whole                                 *)

\* Until the keys are moved the metadata in memory is the saved one; once there
\* are none left to move it names every database of the old engine, or the
\* migration under way has read them; and a running server that has nothing
\* left to move has no schema of the old layout.
KnownInv ==
  /\ pc \in {"loaded", "copied"} => meta = saved
  /\ ~torn /\ LegacyObjects = {} /\ pc \in {"stopped", "loaded", "copied"} => past.dbs \subseteq saved.dbs
  /\ ~torn /\ pc = "moved" => past.dbs \subseteq meta.dbs \cup legacyDBs
  /\ ~torn /\ LegacyObjects = {} /\ pc = "running" => past.dbs \subseteq meta.dbs

CleanInv ==
  pc = "running" => /\ Postgres \in meta.dbs
                    /\ LegacyObjects = {} => LegacySchemas = {}

LEMMA InitKnown == Init => KnownInv /\ CleanInv
<1> SUFFICES ASSUME Init PROVE KnownInv /\ CleanInv
  OBVIOUS
<1>1. LostInv
  BY InitLost
<1>2. pc = "stopped"
  BY DEF Init
<1>3. \A o \in Objects : store[<<Legacy, o>>] = IF o \in past.objects THEN o ELSE None
  <2>1. PICK objects \in SUBSET (Tables \cup Views \cup Routines), dbs \in SUBSET (Schemas \ {Public}),
             empty \in SUBSET (Schemas \ {Public}) :
          LET all == objects \cup (IF dbs = {} THEN {} ELSE {Registry})
              tables == {o \in all : o[1] = "table"}
          IN /\ past = [objects |-> all, dbs |-> dbs, schemas |-> {o[2] : o \in tables} \cup empty]
             /\ store = [k \in Homes \X Objects |->
                           IF k[1] = Legacy /\ k[2] \in all THEN k[2] ELSE None]
             /\ saved = [NoMetadata EXCEPT
                           !.schemas = {Legacy} \X past.schemas,
                           !.tables = {<<Legacy, o[2], o[3]>> : o \in tables}]
    BY DEF Init
  <2>2. QED
    BY <2>1
<1>4. LegacyObjects = {} => past.dbs = {}
  BY <1>1, <1>3, ValuesAssumption DEF LegacyObjects, LostInv, PastInv
<1>5. QED
  BY <1>2, <1>4 DEF KnownInv, CleanInv

\* MovedMetadata names the databases it has read and keeps no old schema.
LEMMA MovedMetadataParts ==
  ASSUME TypeOK
  PROVE  /\ MovedMetadata.dbs = meta.dbs \cup legacyDBs \cup {Postgres : s \in LegacySchemas}
         /\ \A s \in Schemas : <<Legacy, s>> \notin MovedMetadata.schemas
<1>1. \A s \in Schemas : TargetSchema(s, legacyDBs)[1] # Legacy
  BY HomesAssumption DEF TargetSchema, TypeOK
<1> DEFINE kept == {s \in meta.schemas : s[1] # Legacy}
           homes == {TargetSchema(s, legacyDBs) : s \in LegacySchemas}
<1>2. MovedMetadata.schemas = kept \cup homes
  BY DEF MovedMetadata
<1>3. \A s \in Schemas : <<Legacy, s>> \notin kept
  OBVIOUS
<1>4. ASSUME NEW s \in Schemas PROVE <<Legacy, s>> \notin homes
  <2>1. SUFFICES ASSUME NEW r \in LegacySchemas, <<Legacy, s>> = TargetSchema(r, legacyDBs)
                 PROVE  FALSE
    OBVIOUS
  <2>2. r \in Schemas /\ TargetSchema(r, legacyDBs)[1] = Legacy
    BY <2>1 DEF LegacySchemas
  <2>3. QED
    BY <1>1, <2>2
<1>5. QED
  BY <1>2, <1>3, <1>4 DEF MovedMetadata

LEMMA NextKnown ==
  LostInv /\ KnownInv /\ CleanInv /\ [Next]_vars => KnownInv' /\ CleanInv'
<1> SUFFICES ASSUME LostInv, KnownInv, CleanInv, [Next]_vars PROVE KnownInv' /\ CleanInv'
  OBVIOUS
<1>1. TypeOK /\ past.dbs \subseteq Schemas \ {Public} /\ Postgres \notin past.dbs
  BY SchemasAssumption DEF LostInv, PastInv
<1>2. CASE UNCHANGED vars
  BY <1>2 DEF vars, KnownInv, CleanInv, LegacyObjects, LegacySchemas
<1>3. CASE Load
  <2>1. UNCHANGED <<past, store, saved, torn>> /\ pc = "stopped" /\ LegacyObjects' = LegacyObjects
    BY <1>3 DEF Load, LegacyObjects
  <2>2. CASE HasLegacyLayout
    <3>1. pc' = "loaded" /\ meta' = saved
      BY <1>3, <2>2 DEF Load
    <3>2. QED
      BY <2>1, <3>1 DEF KnownInv, CleanInv
  <2>3. CASE ~HasLegacyLayout
    <3>1. pc' = "running" /\ meta' = Registered(saved)
      BY <1>3, <2>3 DEF Load
    <3>2. LegacyObjects = {} /\ \A s \in Schemas : <<Legacy, s>> \notin saved.schemas
      BY <2>3 DEF HasLegacyLayout
    <3>3. meta'.dbs = saved.dbs \cup {Postgres} /\ meta'.schemas = saved.schemas
      BY <1>1, <3>1 DEF Registered, TypeOK, Metadata
    <3>4. QED
      BY <2>1, <3>1, <3>2, <3>3 DEF KnownInv, CleanInv, LegacySchemas
  <2>4. QED
    BY <2>2, <2>3
<1>4. CASE Backup
  BY <1>4 DEF Backup, KnownInv, CleanInv, LegacyObjects
<1>5. CASE MoveKeys
  <2>1. /\ pc = "copied" /\ pc' = "moved" /\ legacyDBs' = LegacyDatabases
        /\ UNCHANGED <<past, saved, meta, torn>>
    BY <1>5 DEF MoveKeys
  <2>2. ~torn => past.dbs \subseteq meta.dbs \cup LegacyDatabases
    <3>1. CASE \A p \in Objects : store[<<Legacy, p>>] = IF p \in past.objects THEN p ELSE None
      <4>1. past.dbs # {} => Registry \in LegacyObjects
        BY <3>1, ValuesAssumption DEF LostInv, PastInv, LegacyObjects
      <4>2. QED
        BY <4>1 DEF LegacyDatabases
    <3>2. CASE \A p \in Objects : store[<<Legacy, p>>] = None
      <4>1. LegacyObjects = {}
        BY <3>2 DEF LegacyObjects
      <4>2. QED
        BY <2>1, <4>1 DEF KnownInv
    <3>3. QED
      BY <3>1, <3>2 DEF LostInv, LegacyWhole
  <2>3. QED
    BY <2>1, <2>2 DEF KnownInv, CleanInv
<1>6. ASSUME MoveMetadata \/ MoveMetadataFails PROVE KnownInv' /\ CleanInv'
  <2>1. /\ pc = "moved" /\ pc' = "running" /\ meta' = Registered(MovedMetadata)
        /\ UNCHANGED <<past, store, torn>>
    BY <1>6 DEF MoveMetadata, MoveMetadataFails
  <2>2. MovedMetadata \in Metadata
    BY <1>1, MovedMetadataType
  <2>3. meta'.dbs = MovedMetadata.dbs \cup {Postgres} /\ meta'.schemas = MovedMetadata.schemas
    BY <2>1, <2>2 DEF Registered, Metadata
  <2>4. ~torn => past.dbs \subseteq MovedMetadata.dbs
    BY <1>1, <2>1, MovedMetadataParts DEF KnownInv
  <2>5. LegacySchemas' = {}
    BY <1>1, <2>3, MovedMetadataParts DEF LegacySchemas
  <2>6. QED
    BY <2>1, <2>3, <2>4, <2>5 DEF KnownInv, CleanInv
<1>7. CASE BackupFails
  BY <1>7 DEF BackupFails, KnownInv, CleanInv, LegacyObjects
<1>8. CASE MoveKeysFails
  <2>1. /\ pc' = "running" /\ LegacyObjects' = LegacyObjects /\ LegacyObjects # {}
        /\ meta' = Registered(meta)
    BY <1>8 DEF MoveKeysFails, LegacyObjects
  <2>2. Postgres \in meta'.dbs
    BY <1>1, <2>1 DEF Registered, TypeOK, Metadata
  <2>3. QED
    BY <2>1, <2>2 DEF KnownInv, CleanInv
<1>9. ASSUME NEW db \in Databases, NEW o \in Tables, SaveTable(db, o)
      PROVE  KnownInv' /\ CleanInv'
  <2>1. /\ pc = "running" /\ pc' = "running" /\ UNCHANGED <<past, torn>>
        /\ store' = [store EXCEPT ![<<db, o>>] = New]
        /\ meta' = [meta EXCEPT !.schemas = @ \cup {<<db, o[2]>>},
                                !.tables = @ \cup {<<db, o[2], o[3]>>}]
    BY <1>9 DEF SaveTable
  <2>2. \A p \in Objects : store'[<<Legacy, p>>] = store[<<Legacy, p>>]
    BY <1>1, <2>1, HomesAssumption DEF TypeOK, Stores
  <2>3. LegacyObjects' = LegacyObjects
    BY <2>2 DEF LegacyObjects
  <2>4. meta'.dbs = meta.dbs /\ meta'.schemas = meta.schemas \cup {<<db, o[2]>>}
    BY <1>1, <2>1 DEF TypeOK, Metadata
  <2>5. LegacySchemas' = LegacySchemas
    BY <2>4, HomesAssumption DEF LegacySchemas
  <2>6. QED
    BY <2>1, <2>3, <2>4, <2>5 DEF KnownInv, CleanInv
<1>10. ASSUME NEW db \in Databases, CreateDatabase(db) PROVE KnownInv' /\ CleanInv'
  <2>1. /\ pc = "running" /\ pc' = "running" /\ UNCHANGED <<past, store, torn>>
        /\ meta' = [meta EXCEPT !.dbs = @ \cup {db}]
    BY <1>10 DEF CreateDatabase
  <2>2. meta'.dbs = meta.dbs \cup {db} /\ meta'.schemas = meta.schemas
    BY <1>1, <2>1 DEF TypeOK, Metadata
  <2>3. QED
    BY <2>1, <2>2 DEF KnownInv, CleanInv, LegacyObjects, LegacySchemas
<1>11. CASE Stop
  <2>1. /\ pc # "stopped" /\ pc' = "stopped" /\ UNCHANGED <<past, store, saved>>
        /\ torn' = (torn \/ pc = "moved" \/ (pc = "running" /\ Registered(saved) # meta))
    BY <1>11 DEF Stop
  <2>2. pc = "running" /\ Registered(saved) = meta => past.dbs \cap meta.dbs \subseteq saved.dbs
    BY <1>1 DEF Registered, TypeOK, Metadata
  <2>3. pc \in {"loaded", "copied", "moved", "running"}
    BY <1>1, <2>1 DEF TypeOK, Phases
  <2>4. LegacyObjects' = LegacyObjects
    BY <2>1 DEF LegacyObjects
  <2>5. ~torn' /\ LegacyObjects = {} => past.dbs \subseteq saved.dbs
    BY <2>1, <2>2, <2>3 DEF KnownInv
  <2>6. QED
    BY <2>1, <2>4, <2>5 DEF KnownInv, CleanInv
<1>12. QED
  BY <1>2, <1>3, <1>4, <1>5, <1>6, <1>7, <1>8, <1>9, <1>10, <1>11 DEF Next, Open, Fail, Serve

LEMMA KnownLoads == LostInv /\ KnownInv /\ CleanInv => MigratedLoads
<1> SUFFICES ASSUME LostInv, KnownInv, CleanInv, pc = "running", ~torn, LegacyObjects = {}
             PROVE  /\ past.dbs \subseteq meta.dbs
                    /\ \A o \in past.objects \ {Registry} :
                         ~(o[1] = "view" /\ o[2] \in past.dbs) => Target(o, past.dbs) \in Loaded
                    /\ Registered(saved) = meta => ~HasLegacyLayout
  BY DEF MigratedLoads
<1>1. past.dbs \subseteq meta.dbs /\ Postgres \in meta.dbs /\ LegacySchemas = {}
  BY DEF KnownInv, CleanInv
<1>2. ASSUME NEW o \in past.objects \ {Registry}, ~(o[1] = "view" /\ o[2] \in past.dbs)
      PROVE  Target(o, past.dbs) \in Loaded
  <2> DEFINE k == Target(o, past.dbs)
  <2>1. o \in Objects \ {Registry} /\ past.dbs \in SUBSET (Schemas \ {Public})
    BY DEF LostInv, PastInv
  <2>2. k \in Homes \X Objects
    BY <2>1, TargetType
  <2>3. k[1] \in meta.dbs \cap Databases /\ k[2] \in Objects /\ k = <<k[1], k[2]>>
    BY <1>1, <2>1, <2>2 DEF Target
  <2>4. store[k] \in {o, New}
    <3>1. store[<<Legacy, o>>] = None /\ o # None
      BY <2>1, ValuesAssumption DEF LegacyObjects
    <3>2. QED
      BY <3>1 DEF LostInv, NothingLost
  <2>5. CASE store[k] \in Views
    <3>1. store[k] = o /\ o \in Views
      BY <2>4, <2>5, ValuesAssumption
    <3>2. k = <<Postgres, o>>
      BY <1>2, <3>1 DEF Target
    <3>3. <<Postgres, o>> \in (meta.dbs \cap Databases) \X Views
      BY <1>1, <3>1
    <3>4. QED
      BY <3>1, <3>2, <3>3 DEF Loaded
  <2>6. CASE store[k] \notin Views
    <3>1. store[k] # None
      BY <2>1, <2>4, ValuesAssumption
    <3>2. k \in (meta.dbs \cap Databases) \X Objects
      BY <2>3
    <3>3. QED
      BY <2>3, <2>6, <3>1, <3>2 DEF Loaded
  <2>7. QED
    BY <2>5, <2>6
<1>3. ASSUME Registered(saved) = meta PROVE ~HasLegacyLayout
  <2>1. saved.schemas = meta.schemas
    BY <1>3 DEF Registered, LostInv, TypeOK, Metadata
  <2>2. QED
    BY <1>1, <2>1 DEF HasLegacyLayout, LegacySchemas
<1>4. QED
  BY <1>1, <1>2, <1>3

\* A migration that nothing has cut in two is there whole: its databases are
\* databases, what it has moved is loaded, and it is not run again.
THEOREM MigrationCompletes == Spec => []MigratedLoads
<1>1. Init => LostInv /\ KnownInv /\ CleanInv
  BY InitLost, InitKnown
<1>2. LostInv /\ KnownInv /\ CleanInv /\ [Next]_vars => (LostInv /\ KnownInv /\ CleanInv)'
  BY NextLost, NextKnown
<1>3. QED
  BY <1>1, <1>2, KnownLoads, PTL DEF Spec
=============================================================================
