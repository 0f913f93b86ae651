-------------------------------- MODULE Views --------------------------------
(***************************************************************************)
(* The schemas, tables and views of one database: the catalog's maps, what *)
(* Pebble holds of them, and the DDL statements that change first the one  *)
(* and then the other, each change under its own lock.  Of a table only    *)
(* its existence is modelled here; of a view, the sources of its SELECT:   *)
(* the table or view of its FROM, and those its JOINs add.                 *)
(*                                                                         *)
(* A view's SELECT is kept in memory with its sources qualified, and on    *)
(* disk as text, in which a source may be unqualified: the text is parsed  *)
(* again at every start.                                                   *)
(***************************************************************************)
EXTENDS Naturals, Sequences, FiniteSets

CONSTANTS
  Clients,      \* sessions
  Schemas,      \* names of schemas
  Names,        \* names of tables and views
  Public,       \* the default schema
  Unqualified,  \* "the text names no schema"
  None,         \* no view
  Works         \* the workloads

Ids == Schemas \X Names
Sources == (Schemas \cup {Unqualified}) \X Names

Kinds == {"create schema", "drop schema", "drop schema cascade",
          "create table", "drop table", "drop table cascade",
          "create view", "replace view", "drop view", "drop view cascade"}

ASSUME PublicAssumption == Public \in Schemas
ASSUME NamesAssumption == Names # {}
ASSUME UnqualifiedAssumption == Unqualified \notin Schemas
\* A workload: the kinds of statement each client issues, one at a time in the
\* database if they are "alone"; the SELECTs of its views; what it creates in
\* schemas that do not exist; whether unqualified sources are also written in
\* a session of another schema than the view's; whether a crash may come
\* inside a write.
ASSUME WorksAssumption ==
  \A w \in Works : /\ w.does \in [Clients -> SUBSET Kinds]
                   /\ w.alone \in BOOLEAN /\ w.away \in BOOLEAN /\ w.torn \in BOOLEAN
                   /\ w.stray \subseteq {"table", "view"}
                   /\ \A q \in w.texts : q \in Seq(Sources) /\ q # << >>
ASSUME NoneAssumption == None \notin Seq(Ids) /\ None \notin Seq(Sources)

VARIABLES
  work,        \* the workload, chosen for ever at the start
  schemas,     \* the keys of c.tables: the schemas in memory
  tables,      \* the tables of c.tables
  views,       \* c.views: view -> the qualified sources of its SELECT, or None
  diskTables,  \* the keys table:<schema>:<name>
  diskViews,   \* the keys view:<schema>:<name> -> the text's sources, or None
  metaSchemas, \* the schemas of the metadata document
  metaTables,  \* and their tables
  pc,          \* what each client does next
  stmt         \* what its statement has read and looked up so far

vars == <<work, schemas, tables, views, diskTables, diskViews, metaSchemas,
          metaTables, pc, stmt>>
memory == <<schemas, tables, views>>
disk == <<diskTables, diskViews, metaSchemas, metaTables>>

\* obj: the object it names (of a schema, only the first part counts); text and
\* pinned: a view's SELECT as written, and qualified; dep and todo: the
\* dependent view its DROP is at, and those to come.
Statements == [obj : Ids, text : Seq(Sources), pinned : Seq(Ids),
               dep : Ids, todo : SUBSET Ids]

AnyName == CHOOSE n \in Names : TRUE
NoStatement == [obj |-> <<Public, AnyName>>, text |-> << >>, pinned |-> << >>,
                dep |-> <<Public, AnyName>>, todo |-> {}]

Steps == {"idle", "save schema", "remove schema", "delete schema",
          "fetch table", "save table", "drop dependents", "delete dependent",
          "remove table", "delete table", "replace memory", "replace disk",
          "add view", "save view", "remove view", "cascade view",
          "delete view", "delete dependents"}

TypeOK ==
  /\ work \in Works
  /\ schemas \subseteq Schemas /\ tables \subseteq Ids
  /\ views \in [Ids -> Seq(Ids) \cup {None}]
  /\ diskTables \subseteq Ids
  /\ diskViews \in [Ids -> Seq(Sources) \cup {None}]
  /\ metaSchemas \subseteq Schemas /\ metaTables \subseteq Ids
  /\ pc \in [Clients -> Steps]
  /\ stmt \in [Clients -> Statements]

Init ==
  /\ work \in Works
  /\ schemas = {Public} /\ tables = {}
  /\ views = [v \in Ids |-> None]
  /\ diskTables = {} /\ diskViews = [v \in Ids |-> None]
  /\ metaSchemas = {} /\ metaTables = {}
  /\ pc = [c \in Clients |-> "idle"]
  /\ stmt = [c \in Clients |-> NoStatement]

\* A client's statement of a kind; alone, no other is then under way.
Begin(c, kind) ==
  /\ pc[c] = "idle" /\ kind \in work.does[c]
  /\ work.alone => \A d \in Clients : pc[d] = "idle"

Naming(o) == [NoStatement EXCEPT !.obj = o]
At(c, step) == pc[c] = step
Goto(c, step) == pc' = [pc EXCEPT ![c] = step]
Knowing(c, s) == stmt' = [stmt EXCEPT ![c] = s]
Finish(c) == Goto(c, "idle") /\ Knowing(c, NoStatement)

----------------------------------------------------------------------------
(* Reading: which tables and views a SELECT can be made of                 *)

Live == {v \in Ids : views[v] # None}

\* ApplyDefaultSchemaToSelect: unqualified sources get a schema.
Qualify(q, schema) ==
  [i \in 1..Len(q) |->
     IF q[i][1] = Unqualified THEN <<schema, q[i][2]>> ELSE q[i]]

\* executeSelectMain: a SELECT of one source reads a table or else a view; one
\* of several reads tables only.
Answers(q, selectable) ==
  IF Len(q) = 1 THEN q[1] \in selectable
                ELSE \A i \in 1..Len(q) : q[i] \in tables

\* A set that has every table and with a view's sources the view.
Closed(S) ==
  tables \subseteq S /\ \A v \in Live : Answers(views[v], S) => v \in S

\* What can be read, through views over views down to tables: the least of
\* these sets.
Selectable ==
  LET closed == {S \in SUBSET Ids : Closed(S)} IN {o \in Ids : \A S \in closed : o \in S}

\* Mutant: the FROM is all that is looked at.
ViewsUsingFrom(name) == {v \in Live : views[v][1][2] = name}

\* FindDependentViews looks at the bare name of the FROM; FindViewsUsingSource
\* also at that of the first JOIN.
DependentViews(name) == {v \in Live : views[v][1][2] = name}
ViewsUsing(name) ==
  {v \in Live : \E i \in 1..2 : i <= Len(views[v]) /\ views[v][i][2] = name}

----------------------------------------------------------------------------
(* Schemas                                                                 *)

WithoutViewsOf(s) == [v \in Ids |-> IF v[1] = s THEN None ELSE views[v]]

\* CREATE SCHEMA: the schema's views, if it has any, give way to an empty map.
CreateSchema(c) ==
  \E s \in Schemas \ schemas :
    /\ Begin(c, "create schema")
    /\ schemas' = schemas \cup {s}
    /\ views' = WithoutViewsOf(s)
    /\ Goto(c, "save schema")
    /\ Knowing(c, Naming(<<s, AnyName>>))
    /\ UNCHANGED <<work, tables, disk>>

SaveSchema(c) ==
  /\ At(c, "save schema")
  /\ metaSchemas' = metaSchemas \cup {stmt[c].obj[1]}
  /\ Finish(c)
  /\ UNCHANGED <<work, memory, diskTables, diskViews, metaTables>>

SchemaIsEmpty(s) == \A o \in tables \cup Live : o[1] # s

\* DROP SCHEMA checks first; RESTRICT refuses a schema that is not empty.
CheckSchema(c) ==
  \E s \in schemas \ {Public} :
    /\ \/ Begin(c, "drop schema") /\ SchemaIsEmpty(s)
       \/ Begin(c, "drop schema cascade")
    /\ Goto(c, "remove schema")
    /\ Knowing(c, Naming(<<s, AnyName>>))
    /\ UNCHANGED <<work, memory, disk>>

\* catalog.DropSchema takes the schema's tables and views along; it fails if
\* the schema is gone.
RemoveSchema(c) ==
  LET s == stmt[c].obj[1] IN
  /\ At(c, "remove schema")
  /\ IF s \in schemas
     THEN /\ schemas' = schemas \ {s}
          /\ tables' = {t \in tables : t[1] # s}
          /\ views' = WithoutViewsOf(s)
          /\ Goto(c, "delete schema")
          /\ UNCHANGED stmt
     ELSE Finish(c) /\ UNCHANGED memory
  /\ UNCHANGED <<work, disk>>

\* storage.DeleteSchema deletes the tables its metadata lists; views keep
\* their keys.
DeleteSchema(c) ==
  LET s == stmt[c].obj[1] IN
  /\ At(c, "delete schema")
  /\ IF s \in metaSchemas
     THEN /\ diskTables' = {t \in diskTables : t[1] # s \/ t \notin metaTables}
          /\ metaTables' = {t \in metaTables : t[1] # s}
          /\ metaSchemas' = metaSchemas \ {s}
     ELSE UNCHANGED <<diskTables, metaTables, metaSchemas>>
  /\ Finish(c)
  /\ UNCHANGED <<work, memory, diskViews>>

----------------------------------------------------------------------------
(* Tables                                                                  *)

\* CREATE TABLE makes the schema it names; it does not look at the views.
CreateTable(c) ==
  \E t \in Ids \ tables :
    /\ Begin(c, "create table")
    /\ t[1] \in schemas \/ "table" \in work.stray
    /\ schemas' = schemas \cup {t[1]}
    /\ tables' = tables \cup {t}
    /\ Goto(c, "fetch table")
    /\ Knowing(c, Naming(t))
    /\ UNCHANGED <<work, views, disk>>

\* It then looks the table up, to save it; the table may be gone.
FetchTable(c) ==
  /\ At(c, "fetch table")
  /\ IF stmt[c].obj \in tables THEN Goto(c, "save table") /\ UNCHANGED stmt
                               ELSE Finish(c)
  /\ UNCHANGED <<work, memory, disk>>

SaveTable(c) ==
  LET t == stmt[c].obj IN
  /\ At(c, "save table")
  /\ diskTables' = diskTables \cup {t}
  /\ metaTables' = metaTables \cup {t}
  /\ metaSchemas' = metaSchemas \cup {t[1]}
  /\ Finish(c)
  /\ UNCHANGED <<work, memory, diskViews>>

\* DROP TABLE: RESTRICT refuses if a view uses a source of this name; CASCADE
\* drops such views first.
CheckTable(c) ==
  \E t \in tables :
    LET using == ViewsUsing(t[2]) IN
    /\ \/ /\ Begin(c, "drop table") /\ using = {}
          /\ Goto(c, "remove table")
       \/ /\ Begin(c, "drop table cascade")
          /\ Goto(c, IF using = {} THEN "remove table" ELSE "drop dependents")
    /\ Knowing(c, [Naming(t) EXCEPT !.todo = using])
    /\ UNCHANGED <<work, memory, disk>>

\* Mutant: the dependent view's key is left on disk.
ForgetDependent(c) ==
  /\ At(c, "delete dependent")
  /\ Goto(c, IF stmt[c].todo = {} THEN "remove table" ELSE "drop dependents")
  /\ UNCHANGED <<work, memory, disk, stmt>>

\* The next dependent view; if it is gone by now, the statement fails.
DropDependent(c) ==
  /\ At(c, "drop dependents")
  /\ \E v \in stmt[c].todo :
       IF v \in Live
       THEN /\ views' = [views EXCEPT ![v] = None]
            /\ Goto(c, "delete dependent")
            /\ Knowing(c, [stmt[c] EXCEPT !.dep = v, !.todo = @ \ {v}])
       ELSE Finish(c) /\ UNCHANGED views
  /\ UNCHANGED <<work, schemas, tables, disk>>

DeleteDependent(c) ==
  /\ At(c, "delete dependent")
  /\ diskViews' = [diskViews EXCEPT ![stmt[c].dep] = None]
  /\ Goto(c, IF stmt[c].todo = {} THEN "remove table" ELSE "drop dependents")
  /\ UNCHANGED <<work, memory, diskTables, metaSchemas, metaTables, stmt>>

RemoveTable(c) ==
  /\ At(c, "remove table")
  /\ tables' = tables \ {stmt[c].obj}
  /\ IF stmt[c].obj \in tables THEN Goto(c, "delete table") /\ UNCHANGED stmt
                               ELSE Finish(c)
  /\ UNCHANGED <<work, schemas, views, disk>>

DeleteTable(c) ==
  /\ At(c, "delete table")
  /\ diskTables' = diskTables \ {stmt[c].obj}
  /\ metaTables' = metaTables \ {stmt[c].obj}
  /\ Finish(c)
  /\ UNCHANGED <<work, memory, diskViews, metaSchemas>>

----------------------------------------------------------------------------
(* Views                                                                   *)

\* Mutant: the SELECT is not run first.
CheckViewBlindly(c) ==
  \E v \in Ids, q \in work.texts :
    /\ \/ Begin(c, "create view") /\ Goto(c, "add view")
       \/ Begin(c, "replace view") /\ Goto(c, "replace memory")
    /\ v[1] \in schemas
    /\ Knowing(c, [Naming(v) EXCEPT !.text = q, !.pinned = Qualify(q, v[1])])
    /\ UNCHANGED <<work, memory, disk>>

\* CREATE VIEW runs its SELECT, qualified by the session's schema, to see that
\* it can be read; in a session of the default schema nothing is qualified yet
\* and CreateView will use the view's own.
CheckView(c) ==
  \E v \in Ids, q \in work.texts, session \in Schemas :
    /\ \/ Begin(c, "create view") /\ Goto(c, "add view")
       \/ Begin(c, "replace view") /\ Goto(c, "replace memory")
    /\ v[1] \in schemas \/ "view" \in work.stray
    /\ session = v[1] \/ work.away
    /\ Answers(Qualify(q, session), Selectable)
    /\ Knowing(c, [Naming(v) EXCEPT
          !.text = q,
          !.pinned = Qualify(q, IF session = Public THEN v[1] ELSE session)])
    /\ UNCHANGED <<work, memory, disk>>

\* OR REPLACE drops the view it finds, from memory and then from disk.
ReplaceInMemory(c) ==
  /\ At(c, "replace memory")
  /\ views' = [views EXCEPT ![stmt[c].obj] = None]
  /\ Goto(c, "replace disk")
  /\ UNCHANGED <<work, schemas, tables, disk, stmt>>

ReplaceOnDisk(c) ==
  /\ At(c, "replace disk")
  /\ diskViews' = [diskViews EXCEPT ![stmt[c].obj] = None]
  /\ Goto(c, "add view")
  /\ UNCHANGED <<work, memory, diskTables, metaSchemas, metaTables, stmt>>

\* catalog.CreateView: the schema appears in any case; a table or view of the
\* name is an error, and with IF NOT EXISTS a view of it no effect.
AddView(c) ==
  LET v == stmt[c].obj IN
  /\ At(c, "add view")
  /\ schemas' = schemas \cup {v[1]}
  /\ IF v \in tables \cup Live
     THEN Finish(c) /\ UNCHANGED views
     ELSE /\ views' = [views EXCEPT ![v] = stmt[c].pinned]
          /\ Goto(c, "save view")
          /\ UNCHANGED stmt
  /\ UNCHANGED <<work, tables, disk>>

SaveView(c) ==
  /\ At(c, "save view")
  /\ diskViews' = [diskViews EXCEPT ![stmt[c].obj] = stmt[c].text]
  /\ Finish(c)
  /\ UNCHANGED <<work, memory, diskTables, metaSchemas, metaTables>>

\* DROP VIEW looks for the dependent views whose keys it will delete.
CheckDropView(c) ==
  \E v \in Ids :
    /\ \/ Begin(c, "drop view") /\ Goto(c, "remove view")
       \/ Begin(c, "drop view cascade") /\ Goto(c, "cascade view")
    /\ Knowing(c, [Naming(v) EXCEPT !.todo = DependentViews(v[2])])
    /\ UNCHANGED <<work, memory, disk>>

\* DropViewWithBehavior looks for them again: RESTRICT refuses if it finds one,
\* CASCADE removes those that depend on the view, and no others.
RemoveView(c) ==
  LET v == stmt[c].obj
      cascade == At(c, "cascade view")
      dependents == DependentViews(v[2]) IN
  /\ At(c, "remove view") \/ cascade
  /\ IF v \notin Live \/ (dependents # {} /\ ~cascade)
     THEN Finish(c) /\ UNCHANGED views
     ELSE /\ views' = [w \in Ids |-> IF w = v \/ w \in dependents THEN None ELSE views[w]]
          /\ Goto(c, "delete view")
          /\ Knowing(c, [stmt[c] EXCEPT !.todo = IF cascade THEN @ ELSE {}])
  /\ UNCHANGED <<work, schemas, tables, disk>>

DeleteView(c) ==
  /\ At(c, "delete view")
  /\ diskViews' = [diskViews EXCEPT ![stmt[c].obj] = None]
  /\ IF stmt[c].todo = {} THEN Finish(c)
                          ELSE Goto(c, "delete dependents") /\ UNCHANGED stmt
  /\ UNCHANGED <<work, memory, diskTables, metaSchemas, metaTables>>

DeleteDependents(c) ==
  /\ At(c, "delete dependents")
  /\ \E w \in stmt[c].todo :
       /\ diskViews' = [diskViews EXCEPT ![w] = None]
       /\ IF stmt[c].todo = {w}
          THEN Finish(c)
          ELSE Knowing(c, [stmt[c] EXCEPT !.todo = @ \ {w}]) /\ UNCHANGED pc
  /\ UNCHANGED <<work, memory, diskTables, metaSchemas, metaTables>>

----------------------------------------------------------------------------
(* A crash, inside a write perhaps, and the next start                     *)

\* The keys of tables a write that was cut off may have left: it writes the
\* metadata last.
HalfWritten(c) ==
  LET o == stmt[c].obj IN
  CASE At(c, "save table") -> {diskTables \cup {o}}
    [] At(c, "delete table") -> {diskTables \ {o}}
    [] At(c, "delete schema") ->
         {diskTables \ gone : gone \in
            SUBSET {t \in diskTables \cap metaTables : t[1] = o[1] /\ o[1] \in metaSchemas}}
    [] OTHER -> {}

\* loadDatabase: the metadata's schemas, those of the tables, the tables that
\* have keys, and the views, each text qualified by its view's own schema.
LoadedSchemas == {Public} \cup metaSchemas \cup {t[1] : t \in diskTables}

LoadedView(v) ==
  IF diskViews[v] = None THEN None ELSE Qualify(diskViews[v], v[1])

Restart ==
  /\ \/ UNCHANGED diskTables
     \/ work.torn /\ diskTables' \in UNION {HalfWritten(c) : c \in Clients}
  /\ UNCHANGED <<work, diskViews, metaSchemas, metaTables>>
  /\ tables' = diskTables'
  /\ schemas' = LoadedSchemas'
  /\ views' = [v \in Ids |-> LoadedView(v)]
  /\ pc' = [c \in Clients |-> "idle"]
  /\ stmt' = [c \in Clients |-> NoStatement]

----------------------------------------------------------------------------
Schema(c) == CreateSchema(c) \/ SaveSchema(c) \/ CheckSchema(c) \/ RemoveSchema(c)
             \/ DeleteSchema(c)
Table(c) == CreateTable(c) \/ FetchTable(c) \/ SaveTable(c) \/ CheckTable(c)
            \/ DropDependent(c) \/ DeleteDependent(c) \/ RemoveTable(c) \/ DeleteTable(c)
View(c) == CheckView(c) \/ ReplaceInMemory(c) \/ ReplaceOnDisk(c) \/ AddView(c)
           \/ SaveView(c) \/ CheckDropView(c) \/ RemoveView(c) \/ DeleteView(c)
           \/ DeleteDependents(c)

Next == Restart \/ \E c \in Clients : Schema(c) \/ Table(c) \/ View(c)

Spec == Init /\ [][Next]_vars

----------------------------------------------------------------------------
(* What the statements keep                                                *)

\* The objects the clients' statements are at work on.
Touched(c) ==
  LET s == stmt[c] IN
  IF At(c, "idle") THEN {}
  ELSE IF pc[c] \in {"save schema", "remove schema", "delete schema"}
  THEN {<<"schema", s.obj[1]>>} \cup {"table", "view"} \X {o \in Ids : o[1] = s.obj[1]}
  ELSE {<<"schema", s.obj[1]>>, <<"table", s.obj>>, <<"view", s.obj>>, <<"view", s.dep>>}
       \cup {"view"} \X s.todo

Objects == {"schema"} \X Schemas \cup {"table", "view"} \X Ids

InMemory(o) ==
  CASE o[1] = "schema" -> o[2] \in schemas
    [] o[1] = "table" -> o[2] \in tables
    [] o[1] = "view" -> views[o[2]]

OnDisk(o) ==
  CASE o[1] = "schema" -> o[2] \in LoadedSchemas
    [] o[1] = "table" -> o[2] \in diskTables
    [] o[1] = "view" -> LoadedView(o[2])

\* What the database promises of them.
Durable == INSTANCE DurableObjects WITH
  objs <- [o \in Objects |-> InMemory(o)],
  may <- [o \in Objects |-> {InMemory(o), OnDisk(o)}],
  busy <- UNION {Touched(c) : c \in Clients}

\* Schemas, tables and views that no statement is at work on come back from a
\* restart as they are, a view with the same sources, and those of an
\* interrupted statement as they were before or after a step of it.
DurableSpec == Durable!Spec

\* Workloads of one statement at a time that do not issue some of the kinds and
\* create views in schemas that exist, sources of their own schema or named
\* with one; and no crash cuts off a save that makes a table's schema too.
Without(kinds) ==
  /\ work.alone /\ ~work.away /\ "view" \notin work.stray
  /\ "table" \in work.stray => ~work.torn
  /\ \A c \in Clients : work.does[c] \cap kinds = {}

Loop(S) ==
  S # {} /\ \A v \in S : Len(views[v]) = 1 /\ views[v][1] \in S \ tables

\* Without OR REPLACE and DROP SCHEMA CASCADE, no view reads itself, directly or
\* through other views: executeSelect would follow it for ever.  (A table hides
\* a view of its name.)
NoLoops ==
  Without({"replace view", "drop schema cascade"}) => \A S \in SUBSET Live : ~Loop(S)

\* Without OR REPLACE and CASCADE, and with at most one JOIN in a view, RESTRICT
\* keeps every view that can be read readable, whatever is created and dropped
\* around it, and so does a restart.
Careful ==
  /\ Without({"drop schema cascade", "drop table cascade", "drop view cascade",
              "replace view"})
  /\ \A q \in work.texts : Len(q) <= 2

ViewsStayReadable ==
  [][Careful => \A v \in Live \cap Selectable :
                  views'[v] = views[v] => v \in Selectable']_vars
=============================================================================
