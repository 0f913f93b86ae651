------------------------------- MODULE Migration -------------------------------
(***************************************************************************)
(* Opening a data directory written before databases existed.  The opening *)
(* of the store backs the directory up, moves every key of the old layout  *)
(* in one batch, moves the metadata in memory and saves it.  The server    *)
(* may stop before, between and after these steps, each of the writes may  *)
(* fail, and while it runs it saves tables and creates databases.          *)
(***************************************************************************)
EXTENDS Naturals, Sequences, FiniteSets

CONSTANTS
  Public,      \* the schema every database has
  Schemas,     \* the schemas there may be, Public among them
  Names,       \* names of tables, views and routines
  PgDatabase,  \* the table in which the old engine kept the names of databases
  NoSchema,    \* the schema of procedures, triggers and jobs
  Postgres,    \* catalog.DefaultDatabase
  Legacy,      \* the layout from before databases existed
  None, New,   \* no value under a key; a value this engine has saved
  MaxObjects,  \* bound: the objects of the old store
  MaxStops,    \* bound: how often the server stops
  MaxSaved,    \* bound: the tables saved by this engine
  Failing      \* the steps that may fail

Databases == {Postgres} \cup (Schemas \ {Public})
Homes == Databases \cup {Legacy}
Tables == {"table"} \X Schemas \X Names
Views == {"view"} \X Schemas \X Names
Routines == {"routine"} \X {NoSchema} \X Names
Registry == <<"table", Public, PgDatabase>>
Objects == Tables \cup Views \cup Routines \cup {Registry}

ASSUME SchemasAssumption ==
  Public \in Schemas /\ NoSchema \notin Schemas /\ Postgres \notin Schemas
ASSUME NamesAssumption == PgDatabase \notin Names
ASSUME HomesAssumption == Legacy \notin Databases
ASSUME ValuesAssumption == None # New /\ {None, New} \cap Objects = {}
ASSUME BoundsAssumption ==
  MaxObjects \in Nat /\ MaxStops \in Nat /\ MaxSaved \in Nat /\ Failing \subseteq {"backup", "batch", "save"}

\* TableMetadata: the databases that are registered, and under each home the
\* schemas and the tables it knows.
NoMetadata == [dbs |-> {}, schemas |-> {}, tables |-> {}]

VARIABLES
  past,    \* the old store: its keys, its metadata and the databases it names
  store,   \* home, object -> the old object whose value the key holds, None or New
  saved,   \* the metadata document in the store
  meta,    \* the metadata in memory
  legacyDBs, \* what the open migration has read from pg_database
  backups, \* the copies of the store directory, each with its metadata
  pc,      \* how far NewPebbleStorage has come
  stops,   \* how often the server has stopped
  torn     \* it stopped between the batch and the metadata

vars == <<past, store, saved, meta, legacyDBs, backups, pc, stops, torn>>

Phases == {"stopped", "loaded", "copied", "moved", "running"}

Metadata ==
  [dbs : SUBSET Databases, schemas : SUBSET (Homes \X Schemas),
   tables : SUBSET (Homes \X Schemas \X (Names \cup {PgDatabase}))]

Stores == [Homes \X Objects -> Objects \cup {None, New}]

TypeOK ==
  /\ past.objects \subseteq Objects /\ past.dbs \subseteq Databases \ {Postgres}
  /\ store \in Stores
  /\ saved \in Metadata /\ meta \in Metadata
  /\ legacyDBs \subseteq Databases \ {Postgres}
  /\ \A b \in backups : b.store \in Stores /\ b.meta \in Metadata
  /\ pc \in Phases /\ stops \in 0..MaxStops /\ torn \in BOOLEAN

-----------------------------------------------------------------------------
(* The old store.                                                          *)

\* Its metadata knows its tables and their schemas, and schemas without any.
\* pg_database is there once CREATE DATABASE has been used.
Init ==
  \E objects \in SUBSET (Tables \cup Views \cup Routines), dbs \in SUBSET (Schemas \ {Public}),
     empty \in SUBSET (Schemas \ {Public}) :
    /\ Cardinality(objects) <= MaxObjects
    /\ LET all == objects \cup (IF dbs = {} THEN {} ELSE {Registry})
           tables == {o \in all : o[1] = "table"}
       IN /\ past = [objects |-> all, dbs |-> dbs, schemas |-> {o[2] : o \in tables} \cup empty]
          /\ store = [k \in Homes \X Objects |->
                        IF k[1] = Legacy /\ k[2] \in all THEN k[2] ELSE None]
          /\ saved = [NoMetadata EXCEPT
                        !.schemas = {Legacy} \X past.schemas,
                        !.tables = {<<Legacy, o[2], o[3]>> : o \in tables}]
          /\ meta = NoMetadata /\ legacyDBs = {} /\ backups = {}
          /\ pc = "stopped" /\ stops = 0 /\ torn = FALSE

\* Where the migration puts an object: "table:x:t" becomes
\* "db:x:table:public:t" if x was a database, and "db:postgres:table:x:t" if not.
Target(o, dbs) ==
  IF o[2] \in dbs THEN <<o[2], <<o[1], Public, o[3]>>>> ELSE <<Postgres, o>>

TargetSchema(s, dbs) == IF s \in dbs THEN <<s, Public>> ELSE <<Postgres, s>>

TargetTable(t, dbs) == <<TargetSchema(t[2], dbs)[1], TargetSchema(t[2], dbs)[2], t[3]>>

LegacyObjects == {o \in Objects : store[<<Legacy, o>>] # None}
LegacySchemas == {s \in Schemas : <<Legacy, s>> \in meta.schemas}

\* hasLegacyLayout: old keys, or the flat metadata.
HasLegacyLayout == LegacyObjects # {} \/ \E s \in Schemas : <<Legacy, s>> \in saved.schemas

-----------------------------------------------------------------------------
(* Opening the store.                                                      *)

Registered(m) == [m EXCEPT !.dbs = @ \cup {Postgres}]

\* loadMetadata; a store without the old layout is open at once, after
\* ensureDefaultDatabase.
Load ==
  /\ pc = "stopped"
  /\ IF HasLegacyLayout
     THEN pc' = "loaded" /\ meta' = saved
     ELSE pc' = "running" /\ meta' = Registered(saved)
  /\ UNCHANGED <<past, store, saved, legacyDBs, backups, stops, torn>>

\* Mutant: a directory that has a backup is not copied again.
BackupOnce ==
  /\ pc = "loaded"
  /\ backups' = IF backups # {} THEN backups ELSE {[store |-> store, meta |-> saved]}
  /\ pc' = "copied"
  /\ UNCHANGED <<past, store, saved, meta, legacyDBs, stops, torn>>

\* backupClosedStore
Backup ==
  /\ pc = "loaded"
  /\ backups' = backups \cup {[store |-> store, meta |-> saved]}
  /\ pc' = "copied"
  /\ UNCHANGED <<past, store, saved, meta, legacyDBs, stops, torn>>

\* NewPebbleStorage returns the error and the server exits.
BackupFails ==
  /\ pc = "loaded" /\ "backup" \in Failing /\ stops < MaxStops
  /\ pc' = "stopped" /\ stops' = stops + 1 /\ meta' = NoMetadata
  /\ UNCHANGED <<past, store, saved, legacyDBs, backups, torn>>

\* legacyDatabases reads the table the migration deletes.
LegacyDatabases == IF Registry \in LegacyObjects THEN past.dbs ELSE {}

\* Mutant: the views are deleted and not written.
MovedTables(dbs) ==
  [k \in Homes \X Objects |->
     IF k[1] = Legacy THEN None
     ELSE LET from == {o \in LegacyObjects \ {Registry} : o[1] # "view" /\ Target(o, dbs) = k}
          IN IF from = {} THEN store[k] ELSE CHOOSE o \in from : TRUE]

\* The batch: every old key goes, and all but pg_database come back where
\* they belong, over what is there.  The values stay as they are: that of a
\* view names its schema.
Moved(dbs) ==
  [k \in Homes \X Objects |->
     IF k[1] = Legacy THEN None
     ELSE LET from == {o \in LegacyObjects \ {Registry} : Target(o, dbs) = k}
          IN IF from = {} THEN store[k] ELSE CHOOSE o \in from : TRUE]

MoveKeys ==
  /\ pc = "copied"
  /\ legacyDBs' = LegacyDatabases
  /\ store' = Moved(LegacyDatabases)
  /\ pc' = "moved"
  /\ UNCHANGED <<past, saved, meta, backups, stops, torn>>

\* NewPebbleStorage only warns when the batch is not applied.
MoveKeysFails ==
  /\ pc = "copied" /\ "batch" \in Failing /\ LegacyObjects # {}
  /\ meta' = Registered(meta) /\ pc' = "running"
  /\ UNCHANGED <<past, store, saved, legacyDBs, backups, stops, torn>>

\* Mutant: a database without a schema in the old metadata is not registered.
MovedKnown ==
  LET kept == {t \in meta.tables : t[1] # Legacy}
      moving == {t \in meta.tables : t[1] = Legacy /\ ~(t[2] = Public /\ t[3] = PgDatabase)}
      homes == {TargetSchema(s, legacyDBs) : s \in LegacySchemas}
  IN [dbs |-> meta.dbs \cup {h[1] : h \in homes},
      schemas |-> {s \in meta.schemas : s[1] # Legacy} \cup homes,
      tables |-> kept \cup {TargetTable(t, legacyDBs) : t \in moving}]

MovedMetadata ==
  LET kept == {t \in meta.tables : t[1] # Legacy}
      moving == {t \in meta.tables : t[1] = Legacy /\ ~(t[2] = Public /\ t[3] = PgDatabase)}
      homes == {TargetSchema(s, legacyDBs) : s \in LegacySchemas}
  IN [dbs |-> meta.dbs \cup legacyDBs \cup {Postgres : s \in LegacySchemas},
      schemas |-> {s \in meta.schemas : s[1] # Legacy} \cup homes,
      tables |-> kept \cup {TargetTable(t, legacyDBs) : t \in moving}]

\* The metadata moves in memory and is saved.
MoveMetadata ==
  /\ pc = "moved"
  /\ saved' = MovedMetadata
  /\ meta' = Registered(MovedMetadata)
  /\ pc' = "running"
  /\ UNCHANGED <<past, store, legacyDBs, backups, stops, torn>>

\* It moves in memory only: the store is open with a warning.
MoveMetadataFails ==
  /\ pc = "moved" /\ "save" \in Failing
  /\ meta' = Registered(MovedMetadata)
  /\ pc' = "running"
  /\ UNCHANGED <<past, store, saved, legacyDBs, backups, stops, torn>>

-----------------------------------------------------------------------------
(* The running server.                                                     *)

\* SaveTable: the database must be registered.  It saves the metadata of all.
SaveTable(db, o) ==
  /\ pc = "running" /\ db \in meta.dbs
  /\ Cardinality({k \in Homes \X Objects : store[k] = New}) < MaxSaved
  /\ store' = [store EXCEPT ![<<db, o>>] = New]
  /\ meta' = [meta EXCEPT !.schemas = @ \cup {<<db, o[2]>>},
                          !.tables = @ \cup {<<db, o[2], o[3]>>}]
  /\ saved' = meta'
  /\ UNCHANGED <<past, legacyDBs, backups, pc, stops, torn>>

CreateDatabase(db) ==
  /\ pc = "running" /\ db \notin meta.dbs
  /\ meta' = [meta EXCEPT !.dbs = @ \cup {db}]
  /\ saved' = meta'
  /\ UNCHANGED <<past, store, legacyDBs, backups, pc, stops, torn>>

\* The server stops, at any moment.
Stop ==
  /\ pc # "stopped" /\ stops < MaxStops
  /\ pc' = "stopped" /\ stops' = stops + 1
  /\ meta' = NoMetadata /\ legacyDBs' = {}
  /\ torn' = (torn \/ pc = "moved" \/ (pc = "running" /\ Registered(saved) # meta))
  /\ UNCHANGED <<past, store, saved, backups>>

Open == Load \/ Backup \/ MoveKeys \/ MoveMetadata
Fail == BackupFails \/ MoveKeysFails \/ MoveMetadataFails
Serve ==
  \/ \E db \in Databases, o \in Tables : SaveTable(db, o)
  \/ \E db \in Databases : CreateDatabase(db)
Next == Open \/ Fail \/ Serve \/ Stop

Spec == Init /\ [][Next]_vars

-----------------------------------------------------------------------------
(* Properties.                                                             *)

\* LoadAll: the objects of the registered databases, each where a session
\* finds it.  A table's schema is the one in its key, a view's the one in its
\* value.
Loaded ==
  {<<k[1], k[2]>> : k \in {k \in (meta.dbs \cap Databases) \X Objects :
                           store[k] # None /\ ~(k[2][1] = "view" /\ store[k] \in Views)}}
  \cup {<<k[1], store[k]>> : k \in {k \in (meta.dbs \cap Databases) \X Views : store[k] \in Views}}

\* Whatever is stopped or fails, every object of the old store is under its
\* old key or where the migration puts it.
NothingLost ==
  \A o \in past.objects \ {Registry} :
    \/ store[<<Legacy, o>>] = o
    \/ store[Target(o, past.dbs)] \in {o, New}

\* The store is copied before anything is touched: what the batch takes out
\* of the store or overwrites is in a backup.
MovesAreBackedUp ==
  [][\A k \in Homes \X Objects :
       pc = "copied" /\ store'[k] # store[k] /\ store[k] # None
         => \E b \in backups : b.store[k] = store[k]]_vars

\* A migration that nothing has cut in two is there whole and is not run
\* again: the databases the old engine registered are databases, every table
\* and routine is loaded where it belongs, and so is every view of the
\* default database.
MigratedLoads ==
  (pc = "running" /\ ~torn /\ LegacyObjects = {}) =>
    /\ past.dbs \subseteq meta.dbs
    /\ \A o \in past.objects \ {Registry} :
         ~(o[1] = "view" /\ o[2] \in past.dbs) => Target(o, past.dbs) \in Loaded
    /\ Registered(saved) = meta => ~HasLegacyLayout
=============================================================================
