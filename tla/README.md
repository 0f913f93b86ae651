# Focus: models, checks and proofs

Focus is a relational database engine in Go that speaks the PostgreSQL wire
protocol, keeps its data in Pebble (a key-value store) and everything else in
memory. This directory models the parts of it that are hard to test: what happens
when sessions interleave, when the server stops between two steps, and when a
statement ends half-way. All paths below are relative to `src/`.

## The system

One process (`cmd/focusd/main.go`) holds everything. A connection has a goroutine of
its own, so has every database's job scheduler, and so has every HTTP request of the
web console; they share the objects below. There are no transactions: a statement
changes memory under a lock, then saves what it changed under another.

| component | state | operations | works with |
|---|---|---|---|
| wire server (`internal/server`) | semaphore; per connection: last prepared statement, session database and schema | accept, authenticate, Q P B D E S H X | calls the handler, reads the cluster |
| handler (`cmd/focusd/handler.go`) | database -> executor and scheduler, under `h.mu` | executorFor, HandleQueryCtx, HandleScript, pruneExecutors | drop hook called by the cluster; calls executors |
| cluster (`internal/catalog/cluster.go`) | database name -> catalog | Create/DropDatabase, Database, OnDatabaseDrop | called by executors; calls the hook |
| catalog (`internal/catalog`) | schemas, tables, views, procedures, triggers, jobs, under `Catalog.mu` | create, alter and drop each | tables |
| table (`catalog/table.go`) | columns, constraints, rows, index buckets, under `Table.mu` | InsertRow, SetRows, UseRows, RebuildIndexes, CreateIndex | reads other tables through the catalog |
| executor (`internal/executor`) | trigger depth and switch, shared by the database's sessions | one handler per statement type | catalog, then storage |
| storage (`internal/storage`) | Pebble keys by database and name, the metadata document, under `core.mu` | Save*, Delete*, Drop/RenameColumnData, Create/DeleteDatabase, LoadAll, migration | reads tables under their lock while it encodes them |
| triggers and procedures (`executor_trigger.go`, `executor_procedure.go`) | `triggerDepth`, shared by the sessions of a database | firing around the rows of INSERT, CALL | execute statements inside a statement |
| jobs (`executor_job.go`) | last run of each job | a scan every minute | executes statements like a client |
| parser (`internal/parser`) | a position in a text | text to tree, the text of bodies and view queries | called by the handler between two statements, and by storage when it loads |
| validator, queryutil | none | checks, comparisons | called by the executor |
| migration (in `pebble_storage.go`) | a backup directory; the metadata read so far | backup, one batch, metadata | runs when a store of the old layout is opened |
| system catalog | none | canned answers to catalog queries | reads the catalog |
| web console, front end, capture proxy, `cmd/test-*` | none of the engine's | | |

What is hard, and what must nevertheless be true:

* **Names against objects.** The store, the cluster and the handler find things by
  name; statements hold pointers. A name may be dropped and created again while a
  statement still holds the old object. *The store never holds, under a name, what
  belongs to another; nothing dropped comes back.*
* **Two lock regions.** Memory is changed in one and the disk in another, in
  different orders for create and drop. *At rest they agree, and a restart between
  the two leaves the object wholly there or wholly gone.*
* **The lock graph.** `Catalog.mu`, every `Table.mu` and `core.mu` are taken inside
  each other in several orders, and Go's RWMutex stops new readers once a writer
  waits. *No circle of waiting statements; no row changes under a locked reader.*
* **The session protocol.** Each request must end in exactly one ReadyForQuery,
  whichever of its statements fail. *Client and server stay in step.*
* **Bounded connections.** *A slot is never lost; who waits is served when one is
  free.*
* **Half-done statements.** A multi-row INSERT refused at its third row, a DROP
  TABLE CASCADE stopped after its first dependent. *What was changed is saved.*
* **Rows and columns by position.** Columns come, go and change names; rows are not
  widened by ADD COLUMN; indexes hold row positions and are rebuilt in a lock region of
  their own. *A cell stays under its column, an index is of the rows as they are, and
  no access is out of range.*
* **Checks and their lock regions.** Keys are checked under the lock of the insert,
  references are not. *No two INSERTs make one key, no reference is left without its row.*
* **Two ways to compare.** Cells are compared by printed form here and as numbers
  there. *Joins, groups, ranks and running aggregates are what counting rows gives, on
  every input where the two agree.*

* **Objects known by name to each other.** A view holds names, a trigger its table's; who
  depends on whom is looked up when something is dropped. *What can be read stays
  readable, nothing reads itself, a restart loads what was there.*
* **Statements inside statements.** A trigger inserts, which fires triggers, which call a
  procedure; an error leaves by all of them. *Statements end, the depth counter is
  the depth, and what was inserted before the error is saved.*
* **Text kept and parsed again.** Bodies and view queries are stored as slices of the text
  they came in. *The slice is exact, and gives the same tree.*
* **A migration of everything.** Every key moves at the first start after an upgrade, and
  the server may stop, or a write fail, in the middle. *Nothing is lost.*

`PROJECT.json` lists the hazards at their lines, each with the properties that cover
it or the reason why none does yet.

## Modules

| module | models | source |
|---|---|---|
| `DatabaseLifecycle` | CREATE/DROP DATABASE, executor registry, drop hook, schedulers, restart | `cluster.go`, `handler.go`, `executor_ddl.go` 312-380, `pebble_storage.go` |
| `TableStore` | one database's tables in memory and on disk; every statement that saves or deletes one; restart | `executor_ddl.go`, `executor_dml.go`, `catalog_tables.go`, `pebble_storage.go` |
| `ClientSet` | the clients of `TableLocks` and `ForeignKeys`, whose proofs share a module | |
| `TableLocks` | lock calls and row accesses of each statement, RWMutex | `table.go`, `catalog_tables.go`, `executor_dml.go`, `pebble_storage.go` |
| `Session` | accept loop, session start, simple and extended protocol | `internal/server` |
| `TableRows` | columns, rows, indexes and key of one table under DML and ALTER TABLE | `table.go`, `executor_dml.go`, `catalog_tables.go`, `where.go` |
| `ForeignKeys` | a parent and a child table, checks against changes | `table.go`, `executor_dml.go`, `catalog_tables.go` |
| `SelectPipeline` | the stages of a SELECT | `executor_select.go`, `select_pipeline.go`, `window.go`, `aggregate.go`, `where.go`, `queryutil` |
| `DurableObjects` | what a database promises of the objects its DDL creates (abstract) | |
| `Views` | schemas, tables and views by name, in memory and on disk; refines `DurableObjects` | `views.go`, `schemas.go`, `executor_ddl.go`, `pebble_storage.go` |
| `Routines` | procedures, triggers, jobs and their running; refines `DurableObjects` | `executor_trigger.go`, `executor_procedure.go`, `executor_job.go`, `triggers.go`, `jobs.go`, `procedures.go` |
| `Migration` | opening a store of the layout from before databases | `pebble_storage.go` |
| `Statements` | the SQL parser and the loop that runs a script | `internal/parser`, `handler.go` |
| `MC...` | values of the constants, symmetry sets, views for TLC | |
| `...Proofs` | inductive invariants and theorems | |

The component modules look at the same statements at different grains, and each takes
from its neighbours only what its own questions need: `DatabaseLifecycle` knows that a
statement saves something, `TableStore` which version of which table it saves,
`TableLocks` under which locks, `TableRows` and `ForeignKeys` what it does to the rows,
`SelectPipeline` what it reads from them, `Views` which names it uses, `Routines` which
statements it sets off, `Statements` which text it had, `Session` what the client hears of
it. `DurableObjects` is what `Views` and `Routines` have in common: each instantiates it
with a refinement mapping and is shown to implement its `Spec`.

Several modules choose a *workload* in their initial state (`work`, from the constant
`Works`): which statements each client issues, and whether one at a time. It never
changes. A run then covers all its workloads, and a property that holds for some of them
says for which.

### DatabaseLifecycle

A catalog is a number, allocated once: two catalogs of one name differ. `dbs` is
`Cluster.dbs`; `meta` the databases in the store's memory and `disk` those of the last
document written; `tableKeys` and `objKeys` say from which catalogs the keys under a
database's prefix come; `execs`, `running` and `hmu` are the handler's. A client
resolves its executor in two actions (`Resolve` takes `h.mu` and looks the database
up, `Register` replaces a stale executor and releases) and then runs a script of
statements in it; each lock region of a statement is one action:

* CREATE DATABASE: `CreateCheck`, `CreatePersist`, `CreateRegister`, and `CreateUndo`
  when the name has been registered by another client meanwhile;
* DROP DATABASE: `DropCheck`, `DropStored`, `DropCatalog` (the cluster and the call of
  the hook), `HookLock`, `Prune` for each name, `PruneDone`;
* a table save or an object save, `BeginSave` and `Save`; `JobSave` for jobs.

A job looks at its context only between two statements (`executor_job.go` 178), so a
scheduler that is cancelled with a job in the middle of one may save once more: `late` is
those schedulers, `MidStatement` the choice whether there is one, and `JobSave` the save, by
name, whoever has the name by then. `Invalid` are the names that are not one for a database
(`databaseNameRe`): CREATE persists such a name before `CreateRegister` refuses it.

`Restart` may come at any moment. It allocates a fresh catalog for every database of
the saved document that the cluster accepts (`Loadable`). `Fault` is a failed write of that
document, which leaves `meta` changed and `disk` not. A workload says which names and
clients there are, how many catalogs may be allocated and how many writes may fail.

### TableStore

A table object is a name and a generation. Its contents are a version (raised by each
change of rows, types or indexes), its optional columns and its foreign keys. A
statement looks its table up (`Lookup`, `Retrieve`), changes it, and saves what the
object holds at that moment under its name (`Save`). The column operations repeat
their change on the stored copy (`ColumnData`). DROP TABLE checks its dependents,
detaches and saves them one by one when it cascades (`Detach`, `RetrieveDependent`,
`Save`), leaves the catalog (`DropTable`) and then the store (`DeleteTable`).
A workload is the kinds of statement the clients issue, whether one at a time, and how
many versions a table goes through.

### TableLocks

A statement is the sequence of its lock calls and row accesses, chosen when it starts
from the sequences its handler can produce (`Plans`): which referenced row is found,
which referencing table refuses, in which order Go's map iteration visits tables. A
lock is an RWMutex: `Announce` stops new readers, `Lock` waits for those inside.
`References` says which tables a table's foreign keys name and `Keyed` which have a
primary key. `Ranked` says of a workload that the locks can be numbered so that each
statement takes, inside a lock, only locks of lower number; the module `MCTableLocks` has
TLC confirm that the workload of the passing run is ranked and that the one of the
violation is not.

### Session

`Accept` takes the oldest connection, `Admit` waits for a slot and starts its
goroutine. The server handles one message per action and flushes its replies. A client
opens (SSL request, startup, password) and then asks requests, sending each message
when it likes and reading one reply at a time; a request is over at the first
ReadyForQuery it reads. Clients vanish at any time, with or without their last
messages. Statements are kinds (`selectOne`, `setPath`, `system`, `rows`, `tag`,
`failing`), told apart by what the two query protocols write for them.

### TableRows

Columns are a sequence of names, each with the number it got when it was made; a cell
carries the number of the column it was written for, so the model can tell whether it
is still under that column (the code has no such number). `idx` is `Table.Indexes`: the
columns and the set of entries, each a composite key and a row position. INSERT is
`BeginInsert` (the values, before the lock) and `InsertRow`; UPDATE is `BeginUpdate`
(the column's position, before the lock), `UpdateRows`, `Rebuild`; DELETE is
`BeginDelete`, `DeleteRows`, `Rebuild`. DROP COLUMN changes the columns in `DropColumn`
and the rows in `SliceRows`, because the table's lock is taken in between; RENAME COLUMN
is `RenameColumn` and `Rebuild`. An index out of range sets `down`: no goroutine of the
server recovers. Conditions are comparisons joined by OR, of which a later one is not
looked at once one holds. So a condition may be an error at some rows only (`Failing`), when
its column has gone since the statement was checked: UPDATE then ends with the rows before
that one changed and no rebuild (`Abandoned`), DELETE with no row gone (`Refuse`). UPDATE sets
any column and RENAME COLUMN takes any column's name, the key's too; only INSERT looks for
duplicates.

A workload says which kinds of statement there are, whether ALTER TABLE runs apart from
other statements (`alone`), which conditions there are, and which columns are declared as
keys (`keys`) and set or renamed (`named`). What holds for some of them is stated for those:
`Apart` (ALTER TABLE runs by itself), `Whole` (it does, or conditions are of one comparison)
and `KeysLeftAlone` (no UPDATE and no RENAME names a key).

### ForeignKeys

A row is a slot with a key, or free. DELETE from the parent is `BeginDelete`,
`CheckRow` for each row and `RemoveRows`, all under the parent's lock, which
INSERT into the child does not take (`InsertChild`). UPDATE of the child is
`ValidateUpdate` and `UpdateChildren`. The workload is chosen in the initial state
(`work`) and the properties say for which ones they hold. So is the form in which the
reference is declared (`form`): DELETE finds the rows that refer to its own only if their
constraint names the table as the DELETE does, without a schema, and the column of its
primary key (`Blocked`; `catalog_tables.go` 209), while INSERT and UPDATE of the child look into
whatever column and table the constraint names.

### SelectPipeline

`rows` is the rowset and every stage is an action that replaces it, from any pair of
tables: `Join` or `Single`, `Lookup` or `Filter`, `GroupBy`, HAVING (`Filter`), `Window`,
QUALIFY (`Filter`), `OrderBy`, `Project`, `Distinct`, `Limit`. What a stage does is an
operator with the name of the Go function (`FoldJoin`, `EvalWindow`, `SortRows`,
`ApplyLimitOffset`). A cell is a number, if it parses as one, and the rank of its
printed form among all. The properties compare the operators with definitions that count
rows, in every state in which a clause can be applied.

### DurableObjects

Abstract: objects with a definition in memory (`objs`), the definitions a restart may
leave (`may`) and the objects statements are at work on (`busy`). An object nobody is at
work on comes back from a restart as it is; one that a statement is at work on comes
back as it was before or after one of the statement's changes. The code has no such
object; it is what a session may rely on.

### Views

Of a table only its existence is kept, of a view the sources of its SELECT: qualified in
memory (`views`), as written on disk (`diskViews`), because the text is parsed again at
every start. `schemas` are the keys of `c.tables`; the metadata document (`metaSchemas`,
`metaTables`) and the object keys are separate, as in Pebble, and `Restart` loads what
the two together give (`LoadedSchemas`, `LoadedView`) after any step and inside the
writes that are not one batch (`HalfWritten`). Each statement is one action per lock
region: `CreateSchema`, `SaveSchema`; `CheckSchema`, `RemoveSchema`, `DeleteSchema`; `CreateTable`,
`FetchTable`, `SaveTable`; `CheckTable`, `DropDependent`, `DeleteDependent`, `RemoveTable`,
`DeleteTable`; `CheckView`, `ReplaceInMemory`, `ReplaceOnDisk`, `AddView`, `SaveView`;
`CheckDropView`, `RemoveView`, `DeleteView`, `DeleteDependents`. Dependents are looked up as
the code does it: `DependentViews` compares the bare name of the FROM, `ViewsUsing`
also that of the first JOIN. The mapping to `DurableObjects` takes a schema's, table's or
view's entry in memory for `objs` and memory and what a restart would load for `may`.

### Routines

Procedures, triggers and jobs are ids with a definition (a body and a mark: when a
trigger fires, whether a job is enabled). Storage knows a routine by `Key`, in which a
trigger's table does not appear. CREATE, ALTER and DROP are one action in the catalog
and one or two on disk (`Create`, `AlterJob`, `Fetch`, `Save`, `Drop`, `Delete`). A body is
stored with gob, which encodes only the statement types that `registerGobTypes` lists
(`Encodable`): `Save` of any other leaves the disk as it is and the statement goes on, and such a
routine (`Unsavable`) counts, for `DurableObjects`, as one that is always being worked on.

A running statement is a stack of frames, so every interleaving of sessions and the
scheduler inside trigger and procedure bodies is explored: `Execute` takes the next
statement of a body, `EnterTriggers` reads and raises the counter (the read and the write
are two steps, through `reg`), `GetTriggers` takes the triggers of the row, `LeaveTriggers`
lowers it again on every way out, `InsertRow` adds a row, `BreakOff` ends an INSERT on an
error and `Persist` saves what was inserted. Bodies consist of INSERT, CALL, DESCRIBE (for
all the statements gob does not know) and statements that fail. The scheduler is `Minute`
(the ticker, whose channel holds one tick), `Snapshot` and `StartJob`, which judges a job of
the snapshot by its interval and sets its last run before it runs.

### Migration

`store` maps a home (a database, or the layout from before databases) and an object to
the value under its key; `meta` and `saved` are the metadata in memory and on disk. Opening
is `Load`, `Backup`, `MoveKeys` (one batch), `MoveMetadata`; each of the last three has an
action in which it fails, as the caller handles it (a failed backup refuses to start, a
failed batch or metadata save only warns). `Stop` may come after any step, and a running
server saves tables and creates databases, over old keys too. `torn` remembers that the
server stopped with a batch applied and the metadata not saved. Every backup is one of its
own: the code names the directory by the second (`pebble_storage.go` 512), and that two
migrations fall into one second is left out.

### Statements

A text is a sequence of tokens. The grammar is data, one definition per parse function
(`ColumnDef`, `SingleJoin`, `CreateTrigger`), which `Match` walks; the functions that are
more than their grammar are operators (`Select`, `Items`, `Options`, `DollarBlock`, `Or`).
What they return is the next token, a flat tree and the texts that are kept. The loop
of `HandleScript` is the state machine: every round parses one statement and executes it
(`Execute`), which may fail, skips a separator, or rejects the rest.

## What is checked

| run | instance | shows |
|---|---|---|
| `DatabaseRegistry` | 2 clients on 1 name with 3 catalogs and 1 failed write; 1 client and the schedulers on 2 names with 5 catalogs, and on a name and an unusable one with 4 | `NoExecutorWithoutDatabase`, `OneSchedulerPerDatabase`, `ExecutorGoesWithDatabase`, `StoreMirrorsCluster`, `NoSilentRecreation`, `HookEnds` |
| `TableGrowing` | 2 tables, 2 columns, 2 generations; 2 clients at once without DROP and column drops, every statement one at a time | `DiskAgreesAtRest`, `SavedStaysSaved` |
| `LocksOrdered` | 3 clients, a table, its parent, a table without keys | `NoCircularWait`, `LockedReadsAreStable`, `LocksReturned` |
| `LocksSelfReference` | a table that references itself | counterexample to `NoCircularWait` |
| `SessionInStep` | 2 connections, 1 slot | `SlotsAreExact`, `InStep`, `OneOutcomePerStatement`, `EveryoneIsServed` |
| `RowsAltered` | 2 clients, 3 column names, 2 rows, 1 index, 4 workloads: ALTER TABLE apart, keys set and renamed, columns dropped beside UPDATE | `IndexesCurrent`, `LookupsAgree`, `CellsInPlace`, `KeysUnique` |
| `ForeignKeysKept` | 3 clients, 3 parent and 2 child rows, 3 workloads, 3 forms of the reference | `NoOrphans` |
| `SelectStages` | tables of up to 3 rows together, 5 cells | `JoinsCount`, `LookupsMatchScans`, `WindowsAgree`, `SortsStably`, `GroupsPartition` |
| `ViewsDurable` | 2 schemas, 2 names, 5 workloads, restarts everywhere | `DurableSpec` (refinement), `NoLoops`, `ViewsStayReadable` |
| `RoutinesKept` | 2 sessions, the scheduler, 2 tables, 7 routines, 4 workloads | `DurableSpec` (refinement), `DepthIsNesting`, `RowsReachDisk`, `StatementsEnd`, `JobsRun` |
| `MigrationKept` | old stores of up to 2 objects in 3 schemas, 2 stops, any step may fail | `NothingLost`, `MovesAreBackedUp`, `MigratedLoads` |
| `StatementsParsed` | 9 families of texts | `TextsAreExact`, `StoredTextsReparse`, `PredicatesMeanTheirText`, `EveryRoundAdvances` |

Deadlock is checked in every run but four: in `RowsAltered` an index out of range ends the
server, in `SelectStages` a SELECT ends, in `StatementsParsed` a script does, and in
`MigrationKept` the stops run out. Each property of a passing run has a mutant in
`PROJECT.json`: an operator next to the definition it would replace, marked "Mutant",
with which TLC finds the property violated.

**Bounds.** They appear in guards, as constants or as fields of a workload.

* `DatabaseLifecycle`: catalogs ever allocated and failed writes (`work.catalogs`,
  `work.faults`). Three catalogs are what it takes for a name to exist, be dropped and be
  created again beside the default database; with five, in the serial workload, a restart
  comes after that, or the second name's turn.
* `TableStore`: `MaxGens` = 2 tells a name from its re-creation; `work.versions` = 2 an
  earlier contents from a later one and from a third, which a save may skip.
* `TableLocks`: three clients, a reader, a writer that has announced itself behind it, and
  a reader behind that.
* `Session`: `MaxConns` = 1 makes two connections compete.
* `TableRows`: `MaxMade` = 3 columns are ever made, so one can be added to the two of CREATE
  TABLE, before or after another is dropped; `MaxRows` = 2 tells a short row from a full
  one, a deleted position from the one after it, and a row an UPDATE has changed from the
  one it fails at.
* `SelectPipeline`: three rows (`MaxInput`, `MaxRows`) are the fewest with a tie and a row
  after it, or a group and a row outside it; `MaxPage` = 2 gives a full page, a broken
  one and an empty one.
* `Views`: two names in each of two schemas give a view over a view, a cycle of
  two, a name in both schemas, and a view with a source elsewhere.
* `Routines`: `MaxDepth` is a constant of the code (16); 2 lets a trigger fire inside a
  trigger and the next one be refused. `TickingWork` has one job of each interval 1 and 2.
* `Migration`: `MaxObjects` = 2 old objects meet on one new key; `MaxStops` = 2 interrupts the
  migration and its repetition; `MaxSaved` = 1 lets the engine write where an old object
  is to go.
* `Statements`: up to `most` pieces per text (3 to 5), each a token or a statement, between
  a head and a tail.

**Reductions.** Clients, values and tables that no property names are symmetric, in the runs
without liveness or refinement (`TableGrowing`, `LocksOrdered`, `RowsAltered`, `ForeignKeysKept`,
and the old schemas of `MigrationKept`). `TableGrowing` also uses a VIEW that hides what no
step reads before it is written again: the locals of an idle client, and the contents of a
generation that neither the catalog, nor the store, nor a statement refers to.

**Fairness.** `DatabaseLifecycle` assumes that a statement under way goes on, with
strong fairness because `h.mu` is a sync.Mutex, whose starvation mode hands the lock
to waiters in order. `Session` assumes weak fairness of the accept loop and of every
connection's goroutine. `Routines` assumes weak fairness of the steps of a running
statement and of the scheduler: goroutines are scheduled, and the ticker ticks. No client
is assumed to do anything: `Answered` (in `EveryoneIsServed`) is about what reaches the
client, and `Admission` is conditional on connections ending, because no read of the
server has a deadline.

### What the code does not keep

* **`LocksSelfReference`.** `CheckForeignKeyReferences` compares `schema.table` with
  the bare name, so a DELETE of a row from a table with a self-referencing key asks
  for a read lock on the table it has locked for writing, and never returns.

Other disagreements met in the same models, outside the workloads of the passing
runs. The instance that shows one is the passing run's with the workload named here.

*Databases, tables and locks.*

* Two clients create one database (`DatabaseLifecycle`): the loser's undo removes by
  name what the winner has persisted; the winner's database works until the server
  restarts and is then gone (`StoreMirrorsCluster` without `Undisturbed`). With two clients
  `ExecutorGoesWithDatabase` fails as well: a DROP and a re-creation of the name between the
  lock regions of another statement. A failed metadata write and a retried CREATE do it
  for a single client.
* A job in the middle of a statement when its database is dropped, and created again under
  the same name, saves the table of the dropped one under the new one
  (`executor_job.go` 178, `pebble_storage.go` 98; `cluster.go` 16 calls a database a hard
  boundary). A restart makes the table the new database's own (`late` in
  `StoreMirrorsCluster`).
* CREATE DATABASE of a name that `databaseNameRe` refuses (`cluster.go` 70) persists it first.
  A crash before the undo leaves it in the document, where every start warns of it and loads
  nothing; the undo of another CREATE of it removes it (`Invalid` in `StoreMirrorsCluster`).
* Two clients, one with DROP TABLE (`TableStore`): a DML statement saves the table it
  looked up, without asking whether it is still the catalog's, and a restart revives the
  dropped table (`DiskAgreesAtRest`).
* A CREATE INDEX, RENAME or DROP COLUMN (catalog, then table) and a DELETE from a keyed
  table or an INSERT with a foreign key (table, then catalog) wait for each other when
  they meet on one table (`TableLocks`), and so do concurrent DELETEs on two tables that
  reference each other.

*Sessions.*

* A failed Execute answers ReadyForQuery and so does the Sync after it (`conn.go` 327,
  293): the client is one answer behind from then on. SELECT 1 by simple query, and an
  unknown message in a pipeline, have the same effect (`InStep` without `QuietRequests`).

*Rows.*

* ADD COLUMN leaves the rows as they are and an index has no entry for a row that lacks
  one of its columns: with an index on (k, new), `WHERE k = ...` is answered from it and
  misses the rows from before the ADD (`table.go` 150 against `INDEXING.md` 20). UPDATE or
  DELETE of such a row indexes out of range and ends the server.
* UPDATE beside DROP COLUMN (`TableRows`, a workload without `alone`): the position taken
  before the lock is another column's by then (`CellsInPlace` without `Apart`). If the column
  dropped is one of its condition's, `WHERE a = 1 OR b = 2`, the UPDATE ends at the first row
  that does not match by `a`: an error to the client, the rows before it changed, and the
  indexes not rebuilt until another statement does (`executor_dml.go` 353, 202-206;
  `IndexesCurrent` without `Whole`).
* UPDATE of a key column is checked for NOT NULL and references and not for uniqueness
  (`executor_dml.go` 298): `UPDATE t SET id = 1` gives all rows one key. RENAME COLUMN of the
  key leaves the constraint on the old name, and INSERT finds no duplicates from then on
  (`KeysUnique` without `KeysLeftAlone`).
* INSERT of a child beside DELETE of its parent, or the two lock regions of an UPDATE of
  the child around it (`ForeignKeys`): the reference is left without its row
  (`NoOrphans` without `OneWriter`). So does an UPDATE of a referenced key, by itself.
* A reference declared with a schema (`REFERENCES public.t(id)`), or to a column that is not
  the primary key, or to a table without one, is not seen by DELETE
  (`catalog_tables.go` 209 compares with the bare name and the key's column): the row goes and
  its references stay (`README.md` 181 excludes it; `NoOrphans` without `form = "key"`).
* `WHERE x = 9` on one table compares printed forms and misses `9.0`, which `x >= 9`
  finds and `README.md` 140 says `=` does.
* A sort key, MIN or MAX over numbers and text together: 9 < 10 < "1a" < 9, so the
  result depends on the order of the rows. The properties about order are for columns
  of one kind (`Uniform`).

*Views and schemas.*

* DROP VIEW ... CASCADE and DROP TABLE ... CASCADE remove the views over what they drop
  and not the views over those (`README.md` 160), and a view whose second JOIN names the
  table is not a dependent at all (`ViewsStayReadable` without `Careful`).
* DROP SCHEMA ... CASCADE deletes the tables' keys and leaves the views': at the next start
  they, and with them the schema, are back (`README.md` 165). If the save that made a
  table was cut off before the metadata, its key is missed as well.
* A view that DROP SCHEMA ... CASCADE left on disk comes back beside views that were made
  since, and the two may read each other: s1.a reads public.b; DROP SCHEMA s1 CASCADE,
  then the table public.b is dropped, s1.a is made as a table and a view public.b over it;
  DROP SCHEMA s1 CASCADE takes the table, and the next start loads both views (`NoLoops` for
  workloads with that statement; the search that fails is one of 27 steps).
* CREATE OR REPLACE VIEW checks the new SELECT against the old view and drops it before it
  makes the new one: the new view may read itself, and a crash in between leaves none.
* A view created for another schema than the session's is checked against the session's
  tables and qualified with them; parsed again at a restart it is qualified with its own
  schema and reads something else, perhaps itself (`README.md` 169).
* A view that a table of the same name hides can close a circle once a crash has taken
  the table. CREATE SCHEMA of a name under which only views were loaded drops them
  from memory.

*Triggers, procedures, jobs.*

* `triggerDepth++` and `--` are not synchronised: two sessions that insert at once leave
  the counter off by one for as long as the server runs (`DepthIsNesting` without
  `OneRuns`).
* Triggers are looked up by the name the INSERT used: with a schema in it, or in another
  schema than `public`, no trigger fires (`README.md` 150).
* CREATE TRIGGER saves the last trigger of its table and timing, which another session may
  have added, and a trigger's key does not name its table: with one name on two
  tables only one survives a restart (the workloads have neither). Triggers fire in the
  order of their keys from then on.
* A procedure, trigger or job with a statement in its body that `registerGobTypes` leaves out
  (`pebble_storage.go` 393: ALTER TABLE, DROP VIEW, DROP INDEX, DROP DATABASE, DESCRIBE) is
  created with no more than a warning in the log, works, and is gone after a restart
  (`executor_procedure.go` 31, `executor_trigger.go` 41, `executor_job.go` 41). ALTER JOB of
  such a job reports an error and has altered it (`DurableSpec` without `Unsavable`).
* CALL has no limit of depth (a procedure that calls itself never ends). A dropped job
  that is in the scheduler's snapshot still runs. When a job last ran is forgotten at
  a restart.

*Migration.*

* If the server stops, or the save fails, between the batch and the metadata, the names
  the old `pg_database` held are lost: the next start reads them from a table that is gone,
  and the objects of those databases are in the store where nothing loads them
  (`pebble_storage.go` 604-606 and `README.md` 171 say the data is kept;
  `MigratedLoads` without `torn`). The backup has them.
* A view of a database keeps the old schema in its value, and is loaded under it.
* A batch that cannot be written is only a warning: the server runs as if empty, and the
  next start moves the old objects over what it has saved since.

*Scripts.*

* A statement is executed before the rest of its text is parsed: `UPDATE t SET a = 1, b = 2
  WHERE ...`, `UPDATE t SET a = 1.5 WHERE ...` and `DELETE FROM t x WHERE ...` run without
  their WHERE, and then the rest is rejected.
* A byte the lexer does not know ends the text without an error. CREATE DATABASE ... WITH
  OWNER takes a semicolon for the value and goes on into the next statement; a select list
  without FROM and a SET take the END of the block they stand in. A dollar-quoted body may
  lack its END, and what follows it is ignored. SELECT f() forgets its WITH.

## What is proved

TLAPS proves for every value of the constants (any number of clients, names, tables,
any bounds), from the named ASSUMEs of the modules and the hypotheses a theorem states:

**ServerProofs**, of `DatabaseLifecycle`. `TypeCorrect`, `ExecutorsHaveDatabases`,
`SchedulersAreUnique` and `DroppedStaysDropped` (`NoSilentRecreation`). The inductive
invariant is `RegistryInv`. `NoExecutorWithoutDatabase` alone is not inductive:
`Register` could install an executor for a database that left the cluster since
`Resolve`. `ResolveInv` says that some client's hook is then waiting for `h.mu`, and
`LockInv` ties `h.mu` to the two stretches of code that run under it, so the hook
cannot have passed while `Register` held the lock. `OneSchedulerPerDatabase` joins the
invariant because `Prune` cancels the scheduler it finds in the registry.
`ExecutorsServeTheirDatabase` (`ExecutorGoesWithDatabase`) and `StoreMirrors`
(`StoreMirrorsCluster`) are about one client working alone on a disk that takes its
writes (`Undisturbed`, as the properties say), with crashes and restarts anywhere.
`SerialInv` says what `Agreement` of cluster, executors, document and table data each
control point of that client leaves open, and that nobody else is in a statement. Names the
cluster refuses and the last save of a job whose database is gone are part of it, as they
are of the property.

**TableStoreProofs.** `TypeCorrect`; `GrowingTablesAreDurable`: under workloads without
DROP and without the column changes that are repeated on disk, memory and disk agree
at rest, for any number of clients; `SavesAreNeverUndone`: without DROP TABLE no step
takes a live table's saved contents back. The strengthening says that whatever is
saved is an earlier state of the same generation (versions only grow, a key's
generation is the catalog's) and that a client that has changed a table still owes it
a save, so the last save is of the final contents.

**ServerProofs**, of `Session`. `SlotsNeverLost` (`SlotsAreExact`): the slots taken are exactly the
connections being served and never more than `MaxConns`, whichever way sessions end.
`SlotInv` adds that the connection the accept loop holds and those of the backlog are
not served and all different: without that, admitting one could take a second slot
for a connection that has one.
`StaysInStep` (`InStep`) and `EveryStatementIsAnswered` (`OneOutcomePerStatement`) hold for any
openings and requests, of any length, that are `Orderly`: a session opens with its password
last, and a request is messages the code answers without ReadyForQuery and then one it
answers with it. The requests the code answers twice (a failing Execute, SELECT 1 by simple
query) are not, and with them the properties are false. `TurnInv` says of one connection:
what waits in the inbox is the end of what its client has sent; the outcomes among all the
replies so far, read or under way, are those of the messages handled so far; and
ReadyForQuery is in them only as the very last, with the whole request handled. A client that
has read it has therefore read everything. What a simple query of many statements writes is
a fold over them (`FlattenSeq`), followed by induction on the length (`FlattenReplies`).

**SelectPipelineProofs.** `LookupsFindWhatScansFind` (`LookupsMatchScans`),
`JoinsPairRows` (`JoinsCount`), `GroupsAddUp` (`GroupsPartition`), `SortingIsStable`
(`SortsStably`) and `WindowsCountAndAggregate` (`WindowsAgree`), for any tables, rows, cells
and clauses. The invariants are `Fresh` (until a WHERE has run, the rows are rows of the
tables) and `Rectangular` (up to ORDER BY, rows are of cells and as wide as there are
columns). The rest is about the operators. `CountIn` counts the places of a sequence whose elements are in a set,
and what is claimed of a stage is claimed of these counts: of a selection (`OnlyCounts`), of
what is strung together (`FlattenCounts`: if each part has an element for every member of a
set assigned to it, the whole has one for every member). The buckets of an index take the rows
a lookup finds apart by a printed form, so in any order they make up the hits
(`BucketsMakeUp`); the rows of a join are the pairs that agree and the rows alone, by the side
whose loop is outside (`LeftsCount`, `RightsCount`), and FULL adds the right rows left over
(`ExtraCount`). Groups: `KeysOf` has each key once, each row has one of them, so what the rows
add to a COUNT or a SUM, taken group by group, is what they add together (`SplitWeights`, which
exchanges two sums, `TotalTwice`). Sorting: each row goes behind the last one it is not before,
so nothing is lost (`SortedCounts`), and where comparison is an order (`Ranked`) the rows stay in
order (`InsertedInOrder`) and a row comes behind its equals (`InsertedBehindPeers`). Comparison is
one by columns in which numbers and other cells do not mix (`SortableRanks`, the first term that
tells two rows apart). The first pages make up a beginning of the rows (`PageAppends`), and enough
of them all (`PagesMakeUp`). Windows: the rows carry their numbers, so a sorted partition is
strictly ordered (`SortedStrictly`), and a row's group of peers tells what comparison tells
(`GroupsTell`). The rows before a row are therefore the first places of its partition, and
counting them gives its rank and number (`EarlierCounted`, `EarlierGrouped`). Its frame is the
beginning of the partition up to the end of its group (`FrameSplits`); a sum over that is a
sum over the rows selected (`FrameWeighs`, `SortedWeights`), and the MIN or MAX carried from
group to group and the one over the frame are extremes of the same cells, which compare equal
(`RunningBest`, `AggregateBest`, `ExtremesTie`).

**TableRowsProofs.** `TypeCorrect`, `IndexesStayCurrent` (`IndexesCurrent`), `LookupsStayRight`
(`LookupsAgree`), `CellsStayInPlace` (`CellsInPlace`) and `KeysStayUnique` (`KeysUnique`), for any
number of clients, columns, rows, indexes and workloads; the conditions are those of the
properties. `IndexesCurrent` is inductive with `TypeInv`: what `TypeOK` says, and that
what a statement has read is of its type (`StatementsTyped`). The argument: INSERT adds
the one entry the new row needs, so a current index stays current (`RebuiltAppend`);
every other change of rows or columns leaves a client that still owes a rebuild, and a
rebuild makes all indexes current at once, whoever does it. The one statement that would owe
a rebuild and end is an UPDATE that fails on the way; under `Whole` it fails at the first row
or nowhere (`FailsAtOnce`): a comparison alone is an error at every row or at none, and with
ALTER TABLE apart the columns of a condition are still there.
`LookupsStayRight` follows from it: the entries of a current index under a
key are the rows a scan finds, as long as no row is short.
Inductive for cells and keys is `PlacedInv`, under `Apart`: no client
is in a statement beside one in an ALTER TABLE (`AlterAlone`); the position an UPDATE has
read and the row an INSERT has made still fit the columns (`StatementsFit`); and the cell
of column `j` is at `Place(j)`, which is `j`, and one further behind the column DROP COLUMN
has taken from the columns and not yet from the rows, so that cells and keys are in place
in that window too (`CellsPlaced`, `KeyPlaced`). Keys are unique under `KeysLeftAlone` as well,
and no column that is set or renamed is then the key.

**ConcurrentStatementsProofs**, of `TableLocks`. `RowsStandStillUnderLocks`
(`LockedReadsAreStable`) and `StatementsReturnTheirLocks` (`LocksReturned`) hold for any tables,
foreign keys, clients and workload; `RankedLocksNeverCircle` (`NoCircularWait`) for those that
are `Ranked`. One invariant serves all three, `LockInv(Inside)`, where `Inside` says which lock
may be taken inside which: what is left of a client's plan leads from the locks it holds now
to none, and every call on the way is legal with the locks held there (`Leads`). That each
statement's plan is such a path is proved from its shape, one lemma per statement: a body that
gives back what it takes still does inside a pair of lock calls (`LockedNeutral`,
`RLockedNeutral`), after another (`NeutralThrough`), and repeated for the tables of a sequence
(`FlattenNeutral`, by induction on its length). `Exclusion` is the RWMutex: a writer is alone,
and one that is announced still stands at its `Lock`. For the circle, take the client of the
group whose wanted lock has the lowest rank: it waits for another of the group, which holds
that lock and so wants a lower one, or has announced itself there and waits for a reader of
it, which wants a lower one. The workloads of the divergences have no ranks: index DDL beside
DELETE or a referencing INSERT on one table, and tables that reference each other or themselves.

**ConcurrentStatementsProofs**, of `ForeignKeys`. `TypeCorrect` and `ReferencesKept`
(`NoOrphans`), for any tables, one client that writes references and deletes parents, and
references by the table's own name to its key. Inductive with it: the rows a DELETE has
checked and not yet removed are unreferenced (the client that could refer to them is the one
in the DELETE), and a client between `ValidateUpdate` and `UpdateChildren` holds a value whose
parent is there.

**MigrationProofs.** `TypeCorrect`, `NothingIsLost` (`NothingLost`), `MovesHaveBackups`
(`MovesAreBackedUp`) and `MigrationCompletes` (`MigratedLoads`), for any schemas, names,
number of objects, stops and failures. `LegacyWhole` says that the old keys are all there or
all gone, because one batch takes them, and `TargetInjective` that no two of them are
moved to one key; so each old object is under its old key, or under its new one unless the
engine has written there since. `CopyInv` says what a backup holds once the batch is due,
`KnownInv` and `CleanInv` what the metadata in memory and on disk know at each step when
no stop has fallen between the batch and the metadata.

**RoutinesProofs.** `TypeCorrect` and `TriggersAreListed`, for any sessions, tables, routines,
depth and workload: `TypeOK` also says that what is saved under a key is a definition of a
routine of that key, and that a statement has the definition it is to save. A list of
triggers has each of some at one place (`Lists`), which CREATE TRIGGER keeps by adding at the
end (`ListedAppend`), DROP TRIGGER by taking one place out (`ListedRemove`), and a restart by
any order (`ListedOrders`); so `SaveTrigger` finds a trigger that is there (`FoundIsThere`). A
job that is dropped while a statement or a snapshot holds it keeps its definition
(`DDLFits`, `LetGo`). That what is left of a stack below executeTriggers begins with an INSERT
is `RowsInv`.
`RowsArePersisted` (`RowsReachDisk`), equally. `RowsInv` says of every stack that its frames are nested
as the code nests them (a trigger frame stands over the INSERT it runs for) and that each
table with unsaved rows is owed a save by an INSERT frame of some stack that has written
to it: however an error leaves, it leaves by that frame.
`DepthStaysNesting` (`DepthIsNesting`): with one running thread `triggerDepth` is the number of
trigger frames of its stack that have been counted. `DepthInv` adds what the code has read
and not yet written back (`triggerDepth++` is a read and a write), and that nobody else runs.
`RoutinesAreDurable` proves the refinement of `DurableObjects`, every step of it, for the
workloads that are `Orderly`: no two objects of the workload share a key on disk, and either
one statement runs at a time or the sessions neither drop what others work with nor make
triggers of one table and timing. (Without that the property is false, as the divergences
say.) `SavedInv` says that whatever no statement is at work on and can be encoded is on disk as
it is in memory, that what is on disk can be encoded, so a restart leaves nothing `Unsavable`,
and what a statement at work has done so far; `SaveTrigger`, which saves the last trigger of
the list, is the step that needs `Orderly`.

**ViewsProofs.** `TypeCorrect`: every statement keeps memory, disk and what it remembers
between its lock regions well typed, whichever session changes them meanwhile.
`ViewsAreDurable` proves the refinement of `DurableObjects` for the workloads that are
`Serial`: one statement at a time, and none of those the divergences name. `SerialInv` says
for each step of each statement which schemas, tables and views memory and disk may
differ in, all of them things the statement touches (`OpenIsTouched`), and that with no
statement under way they agree.
`GrowingViewsAreDurable` proves it for sessions that only create, at once, any number of them
(`Growing`, which `GrowingWork` is): tables, in schemas they make too, and views or schemas.
Not both: CREATE SCHEMA drops a view that was loaded without its schema, as the divergences
say. `GrowInv` says that what is on disk is in memory, and that what is not yet on disk is to
be saved by a statement that holds it (`SavesSchema`, `SavesTable`, `SavesView`); a step adds
to memory what it is then to save, or saves what memory holds (`Adds`, `GrowStep`). A
schema may be owed its save by several sessions at once; whichever comes first settles it.
`ViewsEnd` (`NoLoops`) and `ViewsKeepTheirSources` (`ViewsStayReadable`) rest on `ReadInv`: no
circle of views and, where every statement is RESTRICT, all views readable, both in memory and
in what a restart would load from the disk now. What a statement has checked stays true
until it acts on it: CREATE VIEW has run its SELECT, so whatever it reads is readable without
it and no circle can close through it; a DROP has seen that no dependent is left. The proof
found that `NoLoops` had been stated too widely: it needs workloads without DROP SCHEMA
CASCADE, whose views come back beside newer ones.

Only model-checked: everything about `Statements`, whose operators are recursions over texts
(RECURSIVE operators are out of the prover's reach, and so is induction over data except as in
`ServerProofs`, `SelectPipelineProofs`, `ConcurrentStatementsProofs` and `RoutinesProofs`, where
the induction is on a number and the claim a set of numbers), and the liveness properties
(`HookEnds`, `EveryoneIsServed`, `StatementsEnd`, `JobsRun`), which need fairness.

## What is not modelled

The list of users (a set of names), the system catalog (read-only answers), the
validator (checks without state), the web console (HTTP handlers without state of their
own that run scripts through the handler), the front end, the capture proxy and the test
programs. Bytes, encodings, formats and log messages are nowhere modelled; the lexer's
characters, numbers and quotes are not. A failed save of a DML statement is only a warning
in the code, by intention (`REFACTOR.md` 44); `TableStore` and `Views` have no failed saves,
`Routines` only that of a body that cannot be encoded. Reads of
rows without a lock (the foreign-key check of INSERT) are races in the code; `TableLocks`
shows them as reads outside the lock and states nothing about them. In `TableRows` NOT NULL
and IDENTITY are left out, in `SelectPipeline` AVG, name resolution, aliases and WITH.

## Plan

What would add most next:

1. IDENTITY (values drawn without a lock) and NOT NULL in `TableRows`; UNIQUE beside
   PRIMARY KEY.
2. Which column a name means, aliases, views and WITH in a module before
   `SelectPipeline`.
3. RegisterUser, which checks and inserts in two lock regions, in `Session`.
