------------------------------- MODULE ViewsProofs -------------------------------
(***************************************************************************)
(* For any sessions, schemas, names and workloads: types of what is in     *)
(* memory and on disk, after every step and every restart. When one        *)
(* statement runs at a time: schemas, tables and views survive a restart,  *)
(* no view comes to read itself, and RESTRICT keeps views readable. When   *)
(* sessions only create, at once: what they have created survives as       *)
(* well.                                                                   *)
(***************************************************************************)
EXTENDS Views, TLAPS

LEMMA AnyNameType == AnyName \in Names
  BY NamesAssumption DEF AnyName

LEMMA NoStatementType == NoStatement \in Statements
  BY AnyNameType, PublicAssumption DEF NoStatement, Statements, Ids

LEMMA NamingType ==
  ASSUME NEW o \in Ids
  PROVE  Naming(o) \in Statements
  BY NoStatementType DEF Naming, Statements

\* A qualified source names a schema there can be.
LEMMA QualifyType ==
  ASSUME NEW q \in Seq(Sources), NEW s \in Schemas
  PROVE  Qualify(q, s) \in Seq(Ids)
<1>1. ASSUME NEW i \in 1..Len(q)
      PROVE  (IF q[i][1] = Unqualified THEN <<s, q[i][2]>> ELSE q[i]) \in Ids
  <2>1. q[i] \in Sources
    OBVIOUS
  <2>2. QED
    BY <2>1 DEF Sources, Ids
<1>2. Len(q) \in Nat
  OBVIOUS
<1>3. QED
  BY <1>1, <1>2 DEF Qualify

LEMMA InitType == Init => TypeOK
<1> SUFFICES ASSUME Init PROVE TypeOK
  OBVIOUS
<1>1. stmt \in [Clients -> Statements]
  BY NoStatementType DEF Init
<1>2. pc \in [Clients -> Steps]
  BY DEF Init, Steps
<1>3. QED
  BY <1>1, <1>2, PublicAssumption DEF Init, TypeOK

\* A step of one client: where it goes on, and what its statement knows then.
LEMMA GotoType ==
  ASSUME TypeOK, NEW c \in Clients, NEW step \in Steps, Goto(c, step)
  PROVE  pc' \in [Clients -> Steps]
  BY DEF TypeOK, Goto

LEMMA KnowingType ==
  ASSUME TypeOK, NEW c \in Clients, NEW s \in Statements, Knowing(c, s)
  PROVE  stmt' \in [Clients -> Statements]
  BY DEF TypeOK, Knowing

LEMMA FinishType ==
  ASSUME TypeOK, NEW c \in Clients, Finish(c)
  PROVE  pc' \in [Clients -> Steps] /\ stmt' \in [Clients -> Statements]
<1>1. "idle" \in Steps
  BY DEF Steps
<1>2. QED
  BY <1>1, GotoType, KnowingType, NoStatementType DEF Finish

LEMMA SchemaType ==
  ASSUME TypeOK, NEW c \in Clients, Schema(c)
  PROVE  TypeOK'
<1>1. stmt[c] \in Statements /\ stmt[c].obj[1] \in Schemas
  BY DEF TypeOK, Statements, Ids
<1>2. \A r : WithoutViewsOf(r) \in [Ids -> Seq(Ids) \cup {None}]
  BY DEF WithoutViewsOf, TypeOK
<1>3. CASE CreateSchema(c)
  <2>1. PICK r \in Schemas \ schemas :
          /\ schemas' = schemas \cup {r} /\ views' = WithoutViewsOf(r)
          /\ Goto(c, "save schema") /\ Knowing(c, Naming(<<r, AnyName>>))
          /\ UNCHANGED <<work, tables, disk>>
    BY <1>3 DEF CreateSchema
  <2>2. "save schema" \in Steps /\ Naming(<<r, AnyName>>) \in Statements
    BY AnyNameType, NamingType DEF Steps, Ids
  <2>3. pc' \in [Clients -> Steps] /\ stmt' \in [Clients -> Statements]
    BY <2>1, <2>2, GotoType, KnowingType
  <2>4. QED
    BY <1>2, <2>1, <2>3 DEF TypeOK, disk
<1>4. CASE SaveSchema(c)
  BY <1>1, <1>4, FinishType DEF SaveSchema, TypeOK, memory
<1>5. CASE CheckSchema(c)
  <2>1. PICK r \in schemas :
          Goto(c, "remove schema") /\ Knowing(c, Naming(<<r, AnyName>>))
    BY <1>5 DEF CheckSchema
  <2>2. "remove schema" \in Steps /\ Naming(<<r, AnyName>>) \in Statements
    BY AnyNameType, NamingType DEF Steps, Ids, TypeOK
  <2>3. pc' \in [Clients -> Steps] /\ stmt' \in [Clients -> Statements]
    BY <2>1, <2>2, GotoType, KnowingType
  <2>4. UNCHANGED <<work, memory, disk>>
    BY <1>5 DEF CheckSchema
  <2>5. QED
    BY <2>3, <2>4 DEF TypeOK, memory, disk
<1>6. CASE RemoveSchema(c)
  <2>1. "delete schema" \in Steps
    BY DEF Steps
  <2>2. pc' \in [Clients -> Steps] /\ stmt' \in [Clients -> Statements]
    BY <1>6, <2>1, GotoType, FinishType DEF RemoveSchema, TypeOK
  <2>3. QED
    BY <1>2, <1>6, <2>2 DEF RemoveSchema, TypeOK, memory, disk
<1>7. CASE DeleteSchema(c)
  <2>1. pc' \in [Clients -> Steps] /\ stmt' \in [Clients -> Statements]
    BY <1>7, FinishType DEF DeleteSchema
  <2>2. QED
    BY <1>7, <2>1 DEF DeleteSchema, TypeOK, memory
<1>8. QED
  BY <1>3, <1>4, <1>5, <1>6, <1>7 DEF Schema

LEMMA TableType ==
  ASSUME TypeOK, NEW c \in Clients, Table(c)
  PROVE  TypeOK'
<1>1. stmt[c] \in Statements /\ stmt[c].obj \in Ids /\ stmt[c].dep \in Ids /\ stmt[c].todo \subseteq Ids
  BY DEF TypeOK, Statements
<1>2. ASSUME pc' \in [Clients -> Steps], stmt' \in [Clients -> Statements]
      PROVE  TypeOK'
  <2>1. CASE CreateTable(c)
    <3>1. PICK t \in Ids : schemas' = schemas \cup {t[1]} /\ tables' = tables \cup {t}
                           /\ UNCHANGED <<work, views, disk>>
      BY <2>1 DEF CreateTable
    <3>2. t[1] \in Schemas
      BY DEF Ids
    <3>3. QED
      BY <1>2, <3>1, <3>2 DEF TypeOK, disk
  <2>2. CASE FetchTable(c)
    BY <1>2, <2>2 DEF FetchTable, TypeOK, memory, disk
  <2>3. CASE SaveTable(c)
    <3>1. stmt[c].obj[1] \in Schemas
      BY <1>1 DEF Ids
    <3>2. QED
      BY <1>1, <1>2, <2>3, <3>1 DEF SaveTable, TypeOK, memory
  <2>4. CASE CheckTable(c)
    BY <1>2, <2>4 DEF CheckTable, TypeOK, memory, disk
  <2>5. CASE DropDependent(c)
    BY <1>2, <2>5 DEF DropDependent, TypeOK, disk
  <2>6. CASE DeleteDependent(c)
    BY <1>1, <1>2, <2>6 DEF DeleteDependent, TypeOK, memory
  <2>7. CASE RemoveTable(c)
    BY <1>2, <2>7 DEF RemoveTable, TypeOK, disk
  <2>8. CASE DeleteTable(c)
    BY <1>2, <2>8 DEF DeleteTable, TypeOK, memory
  <2>9. QED
    BY <2>1, <2>2, <2>3, <2>4, <2>5, <2>6, <2>7, <2>8 DEF Table
<1>3. {"fetch table", "save table", "remove table", "drop dependents", "delete dependent",
       "delete table"} \subseteq Steps
  BY DEF Steps
<1>4. \A n : ViewsUsing(n) \subseteq Ids
  BY DEF ViewsUsing, Live
<1>5. pc' \in [Clients -> Steps] /\ stmt' \in [Clients -> Statements]
  <2>1. CASE CreateTable(c)
    <3>1. PICK t \in Ids : Goto(c, "fetch table") /\ Knowing(c, Naming(t))
      BY <2>1 DEF CreateTable
    <3>2. QED
      BY <1>3, <3>1, GotoType, KnowingType, NamingType
  <2>2. CASE FetchTable(c)
    BY <1>3, <2>2, GotoType, FinishType DEF FetchTable, TypeOK
  <2>3. CASE SaveTable(c) \/ DeleteTable(c)
    BY <2>3, FinishType DEF SaveTable, DeleteTable
  <2>4. CASE CheckTable(c)
    <3>1. PICK t \in tables, step \in {"remove table", "drop dependents"} :
            Goto(c, step) /\ Knowing(c, [Naming(t) EXCEPT !.todo = ViewsUsing(t[2])])
      BY <2>4 DEF CheckTable
    <3>2. Naming(t) \in Statements
      BY NamingType DEF TypeOK
    <3>3. [Naming(t) EXCEPT !.todo = ViewsUsing(t[2])] \in Statements
      BY <1>4, <3>2 DEF Statements
    <3>4. QED
      BY <1>3, <3>1, <3>3, GotoType, KnowingType
  <2>5. CASE DropDependent(c)
    <3>1. PICK v \in stmt[c].todo :
            \/ Goto(c, "delete dependent") /\ Knowing(c, [stmt[c] EXCEPT !.dep = v, !.todo = @ \ {v}])
            \/ Finish(c)
      BY <2>5 DEF DropDependent
    <3>2. [stmt[c] EXCEPT !.dep = v, !.todo = @ \ {v}] \in Statements
      BY <1>1 DEF Statements
    <3>3. QED
      BY <1>3, <3>1, <3>2, GotoType, KnowingType, FinishType
  <2>6. CASE DeleteDependent(c)
    BY <1>3, <2>6, GotoType DEF DeleteDependent, TypeOK
  <2>7. CASE RemoveTable(c)
    BY <1>3, <2>7, GotoType, FinishType DEF RemoveTable, TypeOK
  <2>8. QED
    BY <2>1, <2>2, <2>3, <2>4, <2>5, <2>6, <2>7 DEF Table
<1>6. QED
  BY <1>2, <1>5

LEMMA ViewType ==
  ASSUME TypeOK, NEW c \in Clients, View(c)
  PROVE  TypeOK'
<1>1. stmt[c] \in Statements /\ stmt[c].obj \in Ids /\ stmt[c].todo \subseteq Ids
      /\ stmt[c].text \in Seq(Sources) /\ stmt[c].pinned \in Seq(Ids)
  BY DEF TypeOK, Statements
<1>2. stmt[c].obj[1] \in Schemas
  BY <1>1 DEF Ids
<1>3. {"add view", "replace memory", "replace disk", "save view", "remove view", "cascade view",
       "delete view", "delete dependents"} \subseteq Steps
  BY DEF Steps
<1>4. \A n : DependentViews(n) \subseteq Ids
  BY DEF DependentViews, Live
<1>5. \A S \in SUBSET Ids : [stmt[c] EXCEPT !.todo = S] \in Statements
  BY <1>1 DEF Statements
<1>6. ASSUME pc' \in [Clients -> Steps], stmt' \in [Clients -> Statements]
      PROVE  TypeOK'
  <2>1. CASE CheckView(c)
    BY <1>6, <2>1 DEF CheckView, TypeOK, memory, disk
  <2>2. CASE ReplaceInMemory(c)
    BY <1>6, <2>2 DEF ReplaceInMemory, TypeOK, disk
  <2>3. CASE ReplaceOnDisk(c)
    BY <1>6, <2>3 DEF ReplaceOnDisk, TypeOK, memory
  <2>4. CASE AddView(c)
    BY <1>1, <1>2, <1>6, <2>4 DEF AddView, TypeOK, disk
  <2>5. CASE SaveView(c)
    BY <1>1, <1>6, <2>5 DEF SaveView, TypeOK, memory
  <2>6. CASE CheckDropView(c)
    BY <1>6, <2>6 DEF CheckDropView, TypeOK, memory, disk
  <2>7. CASE RemoveView(c)
    <3>1. views' \in [Ids -> Seq(Ids) \cup {None}]
      BY <2>7 DEF RemoveView, TypeOK
    <3>2. QED
      BY <1>6, <2>7, <3>1 DEF RemoveView, TypeOK, disk
  <2>8. CASE DeleteView(c)
    BY <1>6, <2>8 DEF DeleteView, TypeOK, memory
  <2>9. CASE DeleteDependents(c)
    BY <1>6, <2>9 DEF DeleteDependents, TypeOK, memory
  <2>10. QED
    BY <2>1, <2>2, <2>3, <2>4, <2>5, <2>6, <2>7, <2>8, <2>9 DEF View
<1>7. pc' \in [Clients -> Steps] /\ stmt' \in [Clients -> Statements]
  <2>1. CASE CheckView(c)
    <3>1. PICK v \in Ids, q \in work.texts, session \in Schemas,
               step \in {"add view", "replace memory"} :
            /\ Goto(c, step)
            /\ Knowing(c, [Naming(v) EXCEPT
                 !.text = q,
                 !.pinned = Qualify(q, IF session = Public THEN v[1] ELSE session)])
      BY <2>1, Zenon DEF CheckView
    <3>2. v[1] \in Schemas /\ q \in Seq(Sources)
      BY WorksAssumption DEF Ids, TypeOK
    <3> DEFINE pinned == Qualify(q, IF session = Public THEN v[1] ELSE session)
               s == [Naming(v) EXCEPT !.text = q]
    <3>3. pinned \in Seq(Ids)
      BY <3>2, QualifyType
    <3>4. [Naming(v) EXCEPT !.text = q, !.pinned = pinned] \in Statements
      <4>1. s \in Statements
        BY <3>2, NamingType DEF Statements
      <4>2. [Naming(v) EXCEPT !.text = q, !.pinned = pinned] = [s EXCEPT !.pinned = pinned]
        OBVIOUS
      <4> HIDE DEF s, pinned
      <4>3. [s EXCEPT !.pinned = pinned] \in Statements
        BY <3>3, <4>1 DEF Statements
      <4>4. QED
        BY <4>2, <4>3
    <3>5. QED
      BY <1>3, <3>1, <3>4, GotoType, KnowingType
  <2>2. CASE ReplaceInMemory(c) \/ ReplaceOnDisk(c)
    BY <1>3, <2>2, GotoType DEF ReplaceInMemory, ReplaceOnDisk, TypeOK
  <2>3. CASE AddView(c)
    BY <1>3, <2>3, GotoType, FinishType DEF AddView, TypeOK
  <2>4. CASE SaveView(c)
    BY <2>4, FinishType DEF SaveView
  <2>5. CASE CheckDropView(c)
    <3>1. PICK v \in Ids, step \in {"remove view", "cascade view"} :
            Goto(c, step) /\ Knowing(c, [Naming(v) EXCEPT !.todo = DependentViews(v[2])])
      BY <2>5, Zenon DEF CheckDropView
    <3>2. [Naming(v) EXCEPT !.todo = DependentViews(v[2])] \in Statements
      BY <1>4, NamingType DEF Statements
    <3>3. QED
      BY <1>3, <3>1, <3>2, GotoType, KnowingType
  <2>6. CASE RemoveView(c)
    <3>1. \/ Finish(c)
          \/ \E S \in SUBSET Ids :
               Goto(c, "delete view") /\ Knowing(c, [stmt[c] EXCEPT !.todo = S])
      BY <1>1, <2>6 DEF RemoveView
    <3>2. QED
      BY <1>3, <1>5, <3>1, GotoType, KnowingType, FinishType
  <2>7. CASE DeleteView(c)
    BY <1>3, <2>7, GotoType, FinishType DEF DeleteView, TypeOK
  <2>8. CASE DeleteDependents(c)
    <3>1. PICK w \in stmt[c].todo :
            \/ Finish(c)
            \/ Knowing(c, [stmt[c] EXCEPT !.todo = @ \ {w}]) /\ UNCHANGED pc
      BY <2>8 DEF DeleteDependents
    <3>2. [stmt[c] EXCEPT !.todo = @ \ {w}] \in Statements
      BY <1>1 DEF Statements
    <3>3. QED
      BY <3>1, <3>2, KnowingType, FinishType DEF TypeOK
  <2>9. QED
    BY <2>1, <2>2, <2>3, <2>4, <2>5, <2>6, <2>7, <2>8 DEF View
<1>8. QED
  BY <1>6, <1>7

\* Whatever a write that was cut off has left, what is loaded is of its type.
LEMMA RestartType ==
  ASSUME TypeOK, Restart
  PROVE  TypeOK'
<1>1. \A c \in Clients : \A d \in HalfWritten(c) : d \subseteq Ids
  <2>1. ASSUME NEW c \in Clients, NEW d \in HalfWritten(c) PROVE d \subseteq Ids
    <3>1. stmt[c].obj \in Ids /\ diskTables \subseteq Ids
      BY DEF TypeOK, Statements
    <3>2. QED
      BY <2>1, <3>1 DEF HalfWritten
  <2>2. QED
    BY <2>1
<1>2. diskTables' \subseteq Ids
  BY <1>1 DEF Restart, TypeOK
<1>3. UNCHANGED <<work, diskViews, metaSchemas, metaTables>> /\ tables' = diskTables'
  BY DEF Restart
<1>4. schemas' \subseteq Schemas
  <2>1. schemas' = {Public} \cup metaSchemas' \cup {t[1] : t \in diskTables'}
    BY DEF Restart, LoadedSchemas
  <2>2. QED
    BY <1>2, <1>3, <2>1, PublicAssumption DEF TypeOK, Ids
<1>5. views' \in [Ids -> Seq(Ids) \cup {None}]
  <2>1. ASSUME NEW v \in Ids PROVE LoadedView(v) \in Seq(Ids) \cup {None}
    <3>1. v[1] \in Schemas /\ diskViews[v] \in Seq(Sources) \cup {None}
      BY DEF Ids, TypeOK
    <3>2. QED
      BY <3>1, QualifyType DEF LoadedView
  <2>2. QED
    BY <2>1 DEF Restart
<1>6. pc' \in [Clients -> Steps] /\ stmt' \in [Clients -> Statements]
  BY NoStatementType DEF Restart, Steps
<1>7. QED
  BY <1>2, <1>3, <1>4, <1>5, <1>6 DEF TypeOK

LEMMA NextType == TypeOK /\ [Next]_vars => TypeOK'
<1> SUFFICES ASSUME TypeOK, [Next]_vars PROVE TypeOK'
  OBVIOUS
<1>1. CASE UNCHANGED vars
  BY <1>1 DEF vars, TypeOK
<1>2. QED
  BY <1>1, SchemaType, TableType, ViewType, RestartType DEF Next

----------------------------------------------------------------------------
(* What a restart finds, if one statement runs at a time                   *)

Issues(w, kinds) == \E c \in Clients : w.does[c] \cap kinds # {}
Wide(w) == Issues(w, {"drop schema cascade"})

\* Workloads of one statement at a time without what README.md lists under
\* "Views and schemas": views stand in schemas that exist and are made in
\* sessions of their own schema; no write of a table is cut off where it alone
\* would make the schema; and schemas with tables in them are dropped only
\* where there are no views and no write is cut off.
Serial(w) ==
  /\ w.alone /\ ~w.away /\ "view" \notin w.stray
  /\ "table" \in w.stray => ~w.torn
  /\ Wide(w) => ~w.torn /\ ~Issues(w, {"create view", "replace view"})

Stored == {Public} \cup metaSchemas

\* Memory and disk agree but for these schemas, tables and views.
SettledBut(S, T, V) ==
  /\ \A r \in Schemas \ S : r \in schemas <=> r \in Stored
  /\ \A t \in Ids \ T : t \in tables <=> t \in diskTables
  /\ \A v \in Ids \ V : views[v] = LoadedView(v)

\* What holds at every step: whatever stands in a schema, the schema is there.
Housed ==
  /\ \A t \in diskTables : t[1] \in Stored
  /\ \A v \in Ids : diskViews[v] # None => v[1] \in Stored
  /\ \A v \in Live : v[1] \in schemas
  /\ Public \in schemas
  /\ ~work.torn => diskTables \subseteq metaTables
  /\ Wide(work) => \A v \in Ids : views[v] = None /\ diskViews[v] = None

\* What a statement that makes a view knows of it.
Making(s) ==
  /\ s.obj[1] \in schemas /\ ~Wide(work)
  /\ s.text # << >> /\ s.text \in Seq(Sources) /\ s.pinned = Qualify(s.text, s.obj[1])

\* What a statement has left open at each of its steps.
Open(step, s) ==
  LET o == s.obj  r == s.obj[1] IN
  CASE step = "save schema" -> SettledBut({r}, {}, {}) /\ r \in schemas
    [] step = "remove schema" -> /\ SettledBut({}, {}, {}) /\ r # Public
                                 /\ Wide(work) \/ SchemaIsEmpty(r)
    [] step = "delete schema" -> /\ SettledBut({r}, {t \in Ids : t[1] = r}, {})
                                 /\ r # Public /\ r \notin schemas /\ SchemaIsEmpty(r)
                                 /\ Wide(work) \/ \A t \in diskTables : t[1] # r
    [] step \in {"fetch table", "save table"} ->
         /\ SettledBut({r}, {o}, {}) /\ o \in tables /\ r \in schemas
         /\ work.torn => r \in Stored
    [] step \in {"drop dependents", "remove table"} -> SettledBut({}, {}, {})
    [] step = "delete dependent" -> SettledBut({}, {}, {s.dep}) /\ views[s.dep] = None
    [] step = "delete table" -> SettledBut({}, {o}, {}) /\ o \notin tables
    [] step \in {"replace memory", "add view"} -> SettledBut({}, {}, {}) /\ Making(s)
    [] step = "replace disk" -> SettledBut({}, {}, {o}) /\ views[o] = None /\ Making(s)
    [] step = "save view" -> SettledBut({}, {}, {o}) /\ views[o] = s.pinned /\ Making(s)
    [] step \in {"remove view", "cascade view"} ->
         SettledBut({}, {}, {}) /\ s.todo = DependentViews(o[2])
    [] step = "delete view" -> /\ SettledBut({}, {}, {o} \cup s.todo)
                               /\ \A v \in {o} \cup s.todo : views[v] = None
    [] step = "delete dependents" -> /\ SettledBut({}, {}, s.todo)
                                     /\ \A v \in s.todo : views[v] = None
    [] OTHER -> SettledBut({}, {}, {})

SerialInv ==
  /\ TypeOK
  /\ Serial(work)
  /\ Housed
  /\ \A c, d \in Clients : pc[c] # "idle" /\ pc[d] # "idle" => c = d
  /\ (\A c \in Clients : pc[c] = "idle") => SettledBut({}, {}, {})
  /\ \A c \in Clients : pc[c] # "idle" => Open(pc[c], stmt[c])

LEMMA SerialFields ==
  SerialInv => /\ TypeOK /\ Serial(work) /\ Housed /\ work \in Works
               /\ LoadedSchemas = Stored
  BY DEF SerialInv, TypeOK, Housed, LoadedSchemas, Stored

\* A text that is kept is loaded as a view.
LEMMA LoadedNone ==
  ASSUME TypeOK, NEW v \in Ids
  PROVE  LoadedView(v) = None <=> diskViews[v] = None
<1>1. CASE diskViews[v] # None
  <2>1. diskViews[v] \in Seq(Sources) /\ v[1] \in Schemas
    BY <1>1 DEF TypeOK, Ids
  <2>2. Qualify(diskViews[v], v[1]) # None
    BY <2>1, QualifyType, NoneAssumption
  <2>3. QED
    BY <1>1, <2>2 DEF LoadedView
<1>2. QED
  BY <1>1 DEF LoadedView

----------------------------------------------------------------------------
(* Objects of three kinds                                                  *)

Busy == UNION {Touched(c) : c \in Clients}

LEMMA Values ==
  \A o : /\ (InMemory(<<"schema", o>>) = (o \in schemas))
         /\ (OnDisk(<<"schema", o>>) = (o \in LoadedSchemas))
         /\ (InMemory(<<"table", o>>) = (o \in tables))
         /\ (OnDisk(<<"table", o>>) = (o \in diskTables))
         /\ InMemory(<<"view", o>>) = views[o]
         /\ OnDisk(<<"view", o>>) = LoadedView(o)
  BY DEF InMemory, OnDisk

LEMMA ValuesThen ==
  \A o : /\ (InMemory(<<"schema", o>>)' = (o \in schemas'))
         /\ (OnDisk(<<"schema", o>>)' = (o \in LoadedSchemas'))
         /\ (InMemory(<<"table", o>>)' = (o \in tables'))
         /\ (OnDisk(<<"table", o>>)' = (o \in diskTables'))
         /\ InMemory(<<"view", o>>)' = views'[o]
         /\ OnDisk(<<"view", o>>)' = LoadedView(o)'
  BY DEF InMemory, OnDisk

LEMMA ObjectKinds ==
  ASSUME NEW o \in Objects
  PROVE  \/ \E r \in Schemas : o = <<"schema", r>>
         \/ \E t \in Ids : o = <<"table", t>>
         \/ \E v \in Ids : o = <<"view", v>>
  BY DEF Objects

LEMMA TouchedType == TypeOK => Busy \subseteq Objects
<1> SUFFICES ASSUME TypeOK, NEW c \in Clients PROVE Touched(c) \subseteq Objects
  BY DEF Busy
<1>1. stmt[c] \in Statements
  BY DEF TypeOK
<1>2. stmt[c].obj \in Ids /\ stmt[c].obj[1] \in Schemas /\ stmt[c].dep \in Ids /\ stmt[c].todo \subseteq Ids
  BY <1>1 DEF Statements, Ids
<1>3. PICK t : t = stmt[c]
  OBVIOUS
<1>4. CASE At(c, "idle")
  BY <1>4 DEF Touched
<1>5. CASE ~At(c, "idle") /\ pc[c] \in {"save schema", "remove schema", "delete schema"}
  <2>1. Touched(c) = {<<"schema", t.obj[1]>>} \cup {"table", "view"} \X {o \in Ids : o[1] = t.obj[1]}
    BY <1>3, <1>5 DEF Touched
  <2>2. QED
    BY <1>2, <1>3, <2>1 DEF Objects
<1>6. CASE ~At(c, "idle") /\ pc[c] \notin {"save schema", "remove schema", "delete schema"}
  <2>1. Touched(c) = {<<"schema", t.obj[1]>>, <<"table", t.obj>>, <<"view", t.obj>>, <<"view", t.dep>>}
                     \cup {"view"} \X t.todo
    BY <1>3, <1>6 DEF Touched
  <2>2. QED
    BY <1>2, <1>3, <2>1 DEF Objects
<1>7. QED
  BY <1>4, <1>5, <1>6

\* Whatever no statement has touched is on disk as it is in memory.
TouchedOnly ==
  /\ \A r \in Schemas : <<"schema", r>> \notin Busy => (r \in schemas <=> r \in LoadedSchemas)
  /\ \A t \in Ids : <<"table", t>> \notin Busy => (t \in tables <=> t \in diskTables)
  /\ \A v \in Ids : <<"view", v>> \notin Busy => views[v] = LoadedView(v)

LEMMA OpenIsTouched == SerialInv => TouchedOnly
<1> SUFFICES ASSUME SerialInv PROVE TouchedOnly
  OBVIOUS
<1>1. LoadedSchemas = Stored
  BY SerialFields
<1>2. CASE \A c \in Clients : pc[c] = "idle"
  BY <1>1, <1>2 DEF SerialInv, SettledBut, TouchedOnly
<1>3. ASSUME NEW c \in Clients, pc[c] # "idle"
      PROVE  /\ \A r \in Schemas : <<"schema", r>> \notin Touched(c) => (r \in schemas <=> r \in Stored)
             /\ \A t \in Ids : <<"table", t>> \notin Touched(c) => (t \in tables <=> t \in diskTables)
             /\ \A v \in Ids : <<"view", v>> \notin Touched(c) => views[v] = LoadedView(v)
  <2>1. Open(pc[c], stmt[c])
    BY <1>3 DEF SerialInv
  <2>2. PICK S, T, V :
          /\ SettledBut(S, T, V)
          /\ \A r \in S : <<"schema", r>> \in Touched(c)
          /\ \A t \in T : <<"table", t>> \in Touched(c)
          /\ \A v \in V : <<"view", v>> \in Touched(c)
    <3>1. PICK s : s = stmt[c]
      OBVIOUS
    <3>2. CASE pc[c] \in {"save schema", "remove schema", "delete schema"}
      <4>1. Touched(c) = {<<"schema", s.obj[1]>>} \cup {"table", "view"} \X {o \in Ids : o[1] = s.obj[1]}
        BY <3>1, <3>2, <1>3 DEF Touched, At
      <4>2. SettledBut({s.obj[1]}, {}, {}) \/ SettledBut({}, {}, {})
            \/ SettledBut({s.obj[1]}, {t \in Ids : t[1] = s.obj[1]}, {})
        BY <2>1, <3>1, <3>2 DEF Open
      <4>3. QED
        BY <4>1, <4>2
    <3>3. CASE pc[c] \notin {"save schema", "remove schema", "delete schema"}
      <4>1. Touched(c) = {<<"schema", s.obj[1]>>, <<"table", s.obj>>, <<"view", s.obj>>, <<"view", s.dep>>}
                         \cup {"view"} \X s.todo
        BY <3>1, <3>3, <1>3 DEF Touched, At
      <4>2. \/ SettledBut({s.obj[1]}, {s.obj}, {}) \/ SettledBut({}, {}, {})
            \/ SettledBut({}, {}, {s.dep}) \/ SettledBut({}, {s.obj}, {})
            \/ SettledBut({}, {}, {s.obj}) \/ SettledBut({}, {}, {s.obj} \cup s.todo)
            \/ SettledBut({}, {}, s.todo)
        BY <2>1, <3>1, <3>3, Zenon DEF Open
      <4>3. QED
        BY <4>1, <4>2
    <3>4. QED
      BY <3>2, <3>3
  <2>3. QED
    BY <2>2 DEF SettledBut
<1>4. QED
  BY <1>1, <1>2, <1>3 DEF Busy, TouchedOnly

\* A step that writes either to memory, what it then counts as at work on, or to
\* disk, what memory holds, is one of the promised ones.
LEMMA WorkMeans ==
  ASSUME TypeOK', TouchedOnly',
         \A r \in Schemas :
           /\ (r \in schemas' <=> r \in schemas) \/ <<"schema", r>> \in Busy'
           /\ (r \in LoadedSchemas' <=> r \in LoadedSchemas) \/ (r \in LoadedSchemas' <=> r \in schemas),
         \A t \in Ids :
           /\ (t \in tables' <=> t \in tables) \/ <<"table", t>> \in Busy'
           /\ (t \in diskTables' <=> t \in diskTables) \/ (t \in diskTables' <=> t \in tables),
         \A v \in Ids :
           /\ views'[v] = views[v] \/ <<"view", v>> \in Busy'
           /\ LoadedView(v)' = LoadedView(v) \/ LoadedView(v)' = views[v]
  PROVE  Durable!Work
<1>1. Busy' \subseteq Objects
  <2>1. (TypeOK => Busy \subseteq Objects)'
    BY TouchedType, PTL
  <2>2. QED
    BY <2>1
<1>2. ASSUME NEW o \in Objects
      PROVE  /\ InMemory(o)' = InMemory(o) \/ o \in Busy'
             /\ OnDisk(o)' \in {OnDisk(o), InMemory(o)}
             /\ o \in Busy' \/ OnDisk(o)' = InMemory(o)'
  <2>1. /\ \A r \in Schemas : <<"schema", r>> \notin Busy' => (r \in schemas' <=> r \in LoadedSchemas')
        /\ \A t \in Ids : <<"table", t>> \notin Busy' => (t \in tables' <=> t \in diskTables')
        /\ \A v \in Ids : <<"view", v>> \notin Busy' => views'[v] = LoadedView(v)'
    BY DEF TouchedOnly
  <2>2. CASE \E r \in Schemas : o = <<"schema", r>>
    <3>1. PICK r \in Schemas : o = <<"schema", r>>
      BY <2>2
    <3>2. /\ InMemory(o) = (r \in schemas) /\ OnDisk(o) = (r \in LoadedSchemas)
          /\ InMemory(o)' = (r \in schemas') /\ OnDisk(o)' = (r \in LoadedSchemas')
      BY <3>1, Values, ValuesThen, Zenon
    <3>3. /\ (r \in schemas') = (r \in schemas) \/ <<"schema", r>> \in Busy'
          /\ (r \in LoadedSchemas') = (r \in LoadedSchemas) \/ (r \in LoadedSchemas') = (r \in schemas)
          /\ <<"schema", r>> \in Busy' \/ (r \in LoadedSchemas') = (r \in schemas')
      BY <2>1
    <3>4. QED
      BY <3>1, <3>2, <3>3, Zenon
  <2>3. CASE \E t \in Ids : o = <<"table", t>>
    <3>1. PICK t \in Ids : o = <<"table", t>>
      BY <2>3
    <3>2. /\ InMemory(o) = (t \in tables) /\ OnDisk(o) = (t \in diskTables)
          /\ InMemory(o)' = (t \in tables') /\ OnDisk(o)' = (t \in diskTables')
      BY <3>1, Values, ValuesThen, Zenon
    <3>3. /\ (t \in tables') = (t \in tables) \/ <<"table", t>> \in Busy'
          /\ (t \in diskTables') = (t \in diskTables) \/ (t \in diskTables') = (t \in tables)
          /\ <<"table", t>> \in Busy' \/ (t \in diskTables') = (t \in tables')
      BY <2>1
    <3>4. QED
      BY <3>1, <3>2, <3>3, Zenon
  <2>4. CASE \E v \in Ids : o = <<"view", v>>
    <3>1. PICK v \in Ids : o = <<"view", v>>
      BY <2>4
    <3>2. /\ InMemory(o) = views[v] /\ OnDisk(o) = LoadedView(v)
          /\ InMemory(o)' = views'[v] /\ OnDisk(o)' = LoadedView(v)'
      BY <3>1, Values, ValuesThen, Zenon
    <3>3. QED
      BY <2>1, <3>1, <3>2, Zenon
  <2>5. QED
    BY <2>2, <2>3, <2>4, ObjectKinds
<1>3. QED
  BY <1>1, <1>2, Zenon DEF Durable!Work, Durable!Settled, Busy

LEMMA StepMeans ==
  ASSUME SerialInv, SerialInv',
         \A r \in Schemas :
           /\ (r \in schemas' <=> r \in schemas) \/ <<"schema", r>> \in Busy'
           /\ (r \in LoadedSchemas' <=> r \in LoadedSchemas) \/ (r \in LoadedSchemas' <=> r \in schemas),
         \A t \in Ids :
           /\ (t \in tables' <=> t \in tables) \/ <<"table", t>> \in Busy'
           /\ (t \in diskTables' <=> t \in diskTables) \/ (t \in diskTables' <=> t \in tables),
         \A v \in Ids :
           /\ views'[v] = views[v] \/ <<"view", v>> \in Busy'
           /\ LoadedView(v)' = LoadedView(v) \/ LoadedView(v)' = views[v]
  PROVE  Durable!Work
<1>1. TypeOK' /\ TouchedOnly'
  <2>1. (SerialInv => TouchedOnly)'
    BY OpenIsTouched, PTL
  <2>2. QED
    BY <2>1 DEF SerialInv
<1>2. QED
  BY <1>1, WorkMeans

\* The start, and a restart, where every object is on disk as it is in memory.
LEMMA InitMeans ==
  ASSUME Init
  PROVE  Durable!Init
<1>1. /\ \A r \in Schemas : r \in schemas <=> r \in LoadedSchemas
      /\ tables = diskTables
      /\ \A v \in Ids : views[v] = LoadedView(v)
  BY DEF Init, LoadedSchemas, LoadedView
<1>2. ASSUME NEW o \in Objects PROVE OnDisk(o) = InMemory(o)
  <2>1. CASE \E r \in Schemas : o = <<"schema", r>>
    <3>1. PICK r \in Schemas : o = <<"schema", r>>
      BY <2>1
    <3>2. (r \in schemas) = (r \in LoadedSchemas)
      BY <1>1
    <3>3. QED
      BY <3>1, <3>2, Values, Zenon
  <2>2. CASE \E t \in Ids : o = <<"table", t>>
    BY <1>1, <2>2, Values, Zenon
  <2>3. CASE \E v \in Ids : o = <<"view", v>>
    BY <1>1, <2>3, Values, Zenon
  <2>4. QED
    BY <2>1, <2>2, <2>3, ObjectKinds
<1>3. Busy = {}
  BY DEF Busy, Touched, At, Init
<1>4. QED
  BY <1>2, <1>3, Zenon DEF Durable!Init, Busy

LEMMA RestartMeans ==
  ASSUME \A c \in Clients : pc'[c] = "idle",
         \A r \in Schemas :
           /\ r \in schemas' <=> r \in LoadedSchemas'
           /\ (r \in schemas' <=> r \in schemas) \/ (r \in schemas' <=> r \in LoadedSchemas),
         \A t \in Ids :
           /\ t \in tables' <=> t \in diskTables'
           /\ (t \in tables' <=> t \in tables) \/ (t \in tables' <=> t \in diskTables),
         \A v \in Ids : views'[v] = LoadedView(v) /\ views'[v] = LoadedView(v)'
  PROVE  Durable!Restart
<1>1. Busy' = {}
  BY DEF Busy, Touched, At
<1>2. ASSUME NEW o \in Objects
      PROVE  InMemory(o)' \in {InMemory(o), OnDisk(o)} /\ OnDisk(o)' = InMemory(o)'
  <2>1. CASE \E r \in Schemas : o = <<"schema", r>>
    <3>1. PICK r \in Schemas : o = <<"schema", r>>
      BY <2>1
    <3>2. /\ InMemory(o) = (r \in schemas) /\ OnDisk(o) = (r \in LoadedSchemas)
          /\ InMemory(o)' = (r \in schemas') /\ OnDisk(o)' = (r \in LoadedSchemas')
      BY <3>1, Values, ValuesThen, Zenon
    <3>3. /\ (r \in schemas') = (r \in LoadedSchemas')
          /\ (r \in schemas') = (r \in schemas) \/ (r \in schemas') = (r \in LoadedSchemas)
      OBVIOUS
    <3>4. QED
      BY <3>2, <3>3, Zenon
  <2>2. CASE \E t \in Ids : o = <<"table", t>>
    <3>1. PICK t \in Ids : o = <<"table", t>>
      BY <2>2
    <3>2. /\ InMemory(o) = (t \in tables) /\ OnDisk(o) = (t \in diskTables)
          /\ InMemory(o)' = (t \in tables') /\ OnDisk(o)' = (t \in diskTables')
      BY <3>1, Values, ValuesThen, Zenon
    <3>3. /\ (t \in tables') = (t \in diskTables')
          /\ (t \in tables') = (t \in tables) \/ (t \in tables') = (t \in diskTables)
      OBVIOUS
    <3>4. QED
      BY <3>2, <3>3, Zenon
  <2>3. CASE \E v \in Ids : o = <<"view", v>>
    <3>1. PICK v \in Ids : o = <<"view", v>>
      BY <2>3
    <3>2. OnDisk(o) = LoadedView(v)
          /\ InMemory(o)' = views'[v] /\ OnDisk(o)' = LoadedView(v)'
      BY <3>1, Values, ValuesThen, Zenon
    <3>3. QED
      BY <3>2, Zenon
  <2>4. QED
    BY <2>1, <2>2, <2>3, ObjectKinds
<1>3. QED
  BY <1>1, <1>2, Zenon DEF Durable!Restart, Busy

\* Another client has nothing under way.
LEMMA NobodyElse ==
  ASSUME SerialInv, NEW c \in Clients,
         pc[c] # "idle" \/ \E kind : Begin(c, kind)
  PROVE  /\ \A e \in Clients : e # c => pc[e] = "idle"
         /\ pc[c] = "idle" => SettledBut({}, {}, {})
         /\ pc[c] # "idle" => Open(pc[c], stmt[c])
<1>1. \A e \in Clients : e # c => pc[e] = "idle"
  BY DEF SerialInv, Serial, Begin
<1>2. QED
  BY <1>1 DEF SerialInv

LEMMA GoesOn ==
  ASSUME SerialInv, NEW c \in Clients, \A e \in Clients : e # c => pc[e] = "idle",
         NEW step, NEW s, step # "idle", Goto(c, step), Knowing(c, s),
         TypeOK', work' = work, Housed', Open(step, s)'
  PROVE  SerialInv' /\ pc'[c] = step /\ stmt'[c] = s
<1>1. /\ pc'[c] = step /\ stmt'[c] = s
      /\ \A e \in Clients : e # c => pc'[e] = "idle"
  BY DEF SerialInv, TypeOK, Goto, Knowing
<1>2. Serial(work)'
  BY DEF SerialInv, Serial, Issues, Wide
<1>3. Open(pc[c], stmt[c])'
  BY <1>1 DEF Open, SettledBut, Making, SchemaIsEmpty, DependentViews
<1>4. QED
  BY <1>1, <1>2, <1>3 DEF SerialInv

LEMMA Ends ==
  ASSUME SerialInv, NEW c \in Clients, \A e \in Clients : e # c => pc[e] = "idle",
         Finish(c), TypeOK', work' = work, Housed', SettledBut({}, {}, {})'
  PROVE  SerialInv'
<1>1. \A e \in Clients : pc'[e] = "idle"
  BY DEF SerialInv, TypeOK, Finish, Goto
<1>2. Serial(work)'
  BY DEF SerialInv, Serial, Issues, Wide
<1>3. QED
  BY <1>1, <1>2 DEF SerialInv

\* The statement's notes stay as they are.
LEMMA SameNotes ==
  ASSUME TypeOK, NEW c \in Clients, UNCHANGED stmt
  PROVE  Knowing(c, stmt[c])
  BY DEF TypeOK, Knowing

\* Only memory changes.
LEMMA InMemoryStep ==
  ASSUME SerialInv, SerialInv', UNCHANGED disk, NEW c \in Clients,
         \A r \in Schemas : (r \in schemas' <=> r \in schemas) \/ <<"schema", r>> \in Touched(c)',
         \A t \in Ids : (t \in tables' <=> t \in tables) \/ <<"table", t>> \in Touched(c)',
         \A v \in Ids : views'[v] = views[v] \/ <<"view", v>> \in Touched(c)'
  PROVE  Durable!Work
<1>1. LoadedSchemas' = LoadedSchemas /\ diskTables' = diskTables
      /\ \A v \in Ids : LoadedView(v)' = LoadedView(v)
  BY DEF LoadedSchemas, LoadedView, disk
<1>2. \A o \in Touched(c)' : o \in Busy'
  BY DEF Busy
<1>3. QED
  BY <1>1, <1>2, StepMeans

\* Only the disk changes, and to what memory holds.
LEMMA OnDiskStep ==
  ASSUME SerialInv, SerialInv', UNCHANGED memory,
         \A r \in Schemas : (r \in Stored' <=> r \in Stored) \/ (r \in Stored' <=> r \in schemas),
         \A t \in Ids : (t \in diskTables' <=> t \in diskTables) \/ (t \in diskTables' <=> t \in tables),
         \A v \in Ids : LoadedView(v)' = LoadedView(v) \/ LoadedView(v)' = views[v]
  PROVE  Durable!Work
<1>1. LoadedSchemas = Stored /\ LoadedSchemas' = Stored'
  <2>1. LoadedSchemas = Stored
    BY SerialFields
  <2>2. (SerialInv => /\ TypeOK /\ Serial(work) /\ Housed /\ work \in Works
                      /\ LoadedSchemas = Stored)'
    BY SerialFields, PTL
  <2>3. QED
    BY <2>1, <2>2
<1>2. schemas' = schemas /\ tables' = tables /\ views' = views
  BY DEF memory
<1>3. QED
  BY <1>1, <1>2, StepMeans

----------------------------------------------------------------------------
(* One statement at a time: schemas                                        *)

\* A statement that only looks, and where it goes on.
LEMMA LooksSerial ==
  ASSUME SerialInv, NEW c \in Clients, \A e \in Clients : e # c => pc[e] = "idle",
         TypeOK', UNCHANGED <<work, memory, disk>>,
         \/ Finish(c) /\ SettledBut({}, {}, {})
         \/ \E step, s : step # "idle" /\ Goto(c, step) /\ Knowing(c, s) /\ Open(step, s)
  PROVE  SerialInv' /\ Durable!Work
<1>1. Housed' /\ (SettledBut({}, {}, {}) => SettledBut({}, {}, {})')
      /\ \A step, s : Open(step, s) => Open(step, s)'
  <2>1. Housed'
    BY DEF SerialInv, Housed, memory, disk, Live, Stored
  <2>2. \A S, T, V : SettledBut(S, T, V) => SettledBut(S, T, V)'
    BY DEF SettledBut, memory, disk, Stored, LoadedView
  <2>3. \A s : Making(s) => Making(s)'
    BY DEF Making, memory
  <2>4. \A n : DependentViews(n)' = DependentViews(n)
    BY DEF DependentViews, Live, memory
  <2>5. \A r : SchemaIsEmpty(r) => SchemaIsEmpty(r)'
    BY DEF SchemaIsEmpty, Live, memory
  <2>6. ASSUME NEW step, NEW s, Open(step, s) PROVE Open(step, s)'
    BY <2>2, <2>3, <2>4, <2>5, <2>6 DEF Open, memory, disk, Stored
  <2>7. QED
    BY <2>1, <2>2, <2>6
<1>2. SerialInv'
  <2>1. CASE Finish(c) /\ SettledBut({}, {}, {})
    BY <1>1, <2>1, Ends
  <2>2. CASE \E step, s : step # "idle" /\ Goto(c, step) /\ Knowing(c, s) /\ Open(step, s)
    <3>1. PICK step, s : step # "idle" /\ Goto(c, step) /\ Knowing(c, s) /\ Open(step, s)
      BY <2>2
    <3>2. QED
      BY <1>1, <3>1, GoesOn
  <2>3. QED
    BY <2>1, <2>2
<1>3. QED
  BY <1>2, InMemoryStep DEF memory

\* No view stands in a schema that is not there, so none gives way to it.
LEMMA CreateSchemaSerial ==
  ASSUME SerialInv, NEW c \in Clients, CreateSchema(c), TypeOK'
  PROVE  SerialInv' /\ Durable!Work
<1>1. PICK r \in Schemas \ schemas :
        /\ Begin(c, "create schema") /\ schemas' = schemas \cup {r}
        /\ views' = WithoutViewsOf(r) /\ Goto(c, "save schema")
        /\ Knowing(c, Naming(<<r, AnyName>>)) /\ UNCHANGED <<work, tables, disk>>
  BY DEF CreateSchema
<1>2. PICK s : s = Naming(<<r, AnyName>>)
  OBVIOUS
<1>3. s.obj[1] = r
  BY <1>2 DEF Naming, NoStatement
<1>4. /\ \A e \in Clients : e # c => pc[e] = "idle"
      /\ SettledBut({}, {}, {}) /\ TypeOK /\ Housed
  <2>1. pc[c] = "idle"
    BY <1>1 DEF Begin
  <2>2. QED
    BY <1>1, <2>1, NobodyElse DEF SerialInv
<1>5. \A v \in Ids : views'[v] = views[v]
  BY <1>1, <1>4 DEF WithoutViewsOf, Housed, Live
<1>6. Housed'
  BY <1>1, <1>4, <1>5 DEF Housed, Live, Stored, disk
<1>7. Open("save schema", s)'
  <2>1. SettledBut({r}, {}, {})'
    BY <1>1, <1>4, <1>5 DEF SettledBut, Stored, disk, LoadedView
  <2>2. QED
    BY <1>1, <1>3, <2>1 DEF Open
<1>8. SerialInv' /\ pc'[c] = "save schema" /\ stmt'[c] = s
  <2>1. Goto(c, "save schema") /\ Knowing(c, s) /\ work' = work
    BY <1>1, <1>2
  <2>2. QED
    BY <1>4, <1>6, <1>7, <2>1, GoesOn
<1>9. <<"schema", r>> \in Touched(c)'
  BY <1>3, <1>8 DEF Touched, At
<1>10. QED
  BY <1>1, <1>5, <1>8, <1>9, InMemoryStep

LEMMA SaveSchemaSerial ==
  ASSUME SerialInv, NEW c \in Clients, SaveSchema(c), TypeOK'
  PROVE  SerialInv' /\ Durable!Work
<1>1. PICK r : r = stmt[c].obj[1]
  OBVIOUS
<1>2. /\ metaSchemas' = metaSchemas \cup {r} /\ Finish(c)
      /\ UNCHANGED <<work, memory, diskTables, diskViews, metaTables>>
  BY <1>1 DEF SaveSchema
<1>3. /\ \A e \in Clients : e # c => pc[e] = "idle"
      /\ SettledBut({r}, {}, {}) /\ r \in schemas /\ Housed
  <2>1. pc[c] = "save schema"
    BY DEF SaveSchema, At
  <2>2. QED
    BY <1>1, <2>1, NobodyElse DEF SerialInv, Open
<1>4. Housed' /\ SettledBut({}, {}, {})'
  BY <1>2, <1>3 DEF Housed, SettledBut, Live, Stored, LoadedView, memory
<1>5. SerialInv'
  BY <1>2, <1>3, <1>4, Ends
<1>6. QED
  BY <1>2, <1>3, <1>5, OnDiskStep DEF Stored, LoadedView, memory

LEMMA CheckSchemaSerial ==
  ASSUME SerialInv, NEW c \in Clients, CheckSchema(c), TypeOK'
  PROVE  SerialInv' /\ Durable!Work
<1>1. PICK r \in schemas \ {Public} :
        /\ \/ Begin(c, "drop schema") /\ SchemaIsEmpty(r)
           \/ Begin(c, "drop schema cascade")
        /\ Goto(c, "remove schema") /\ Knowing(c, Naming(<<r, AnyName>>))
        /\ UNCHANGED <<work, memory, disk>>
  BY DEF CheckSchema
<1>2. PICK s : s = Naming(<<r, AnyName>>)
  OBVIOUS
<1>3. s.obj[1] = r
  BY <1>2 DEF Naming, NoStatement
<1>4. (\A e \in Clients : e # c => pc[e] = "idle") /\ SettledBut({}, {}, {})
  BY <1>1, NobodyElse DEF Begin
<1>5. Wide(work) \/ SchemaIsEmpty(r)
  BY <1>1 DEF Wide, Issues, Begin
<1>6. Open("remove schema", s)
  BY <1>1, <1>3, <1>4, <1>5 DEF Open
<1>7. QED
  BY <1>1, <1>2, <1>4, <1>6, LooksSerial

LEMMA RemoveSchemaSerial ==
  ASSUME SerialInv, NEW c \in Clients, RemoveSchema(c), TypeOK'
  PROVE  SerialInv' /\ Durable!Work
<1>1. PICK s : s = stmt[c]
  OBVIOUS
<1>2. PICK r : r = s.obj[1]
  OBVIOUS
<1>3. /\ \A e \in Clients : e # c => pc[e] = "idle"
      /\ SettledBut({}, {}, {}) /\ r # Public /\ (Wide(work) \/ SchemaIsEmpty(r))
      /\ Housed /\ TypeOK
  <2>1. pc[c] = "remove schema"
    BY DEF RemoveSchema, At
  <2>2. QED
    BY <1>1, <1>2, <2>1, NobodyElse DEF SerialInv, Open
<1>4. CASE r \notin schemas
  <2>1. Finish(c) /\ UNCHANGED <<work, memory, disk>>
    BY <1>1, <1>2, <1>4 DEF RemoveSchema
  <2>2. QED
    BY <1>3, <2>1, LooksSerial
<1>5. CASE r \in schemas
  <2>1. /\ schemas' = schemas \ {r} /\ tables' = {t \in tables : t[1] # r}
        /\ views' = WithoutViewsOf(r) /\ Goto(c, "delete schema")
        /\ UNCHANGED <<work, disk, stmt>>
    BY <1>1, <1>2, <1>5 DEF RemoveSchema
  <2>2. \A v \in Ids : views'[v] = IF v[1] = r THEN None ELSE views[v]
    BY <2>1 DEF WithoutViewsOf
  <2>3. Housed'
    BY <1>3, <2>1, <2>2 DEF Housed, Live, Stored, disk
  <2>4. SettledBut({r}, {t \in Ids : t[1] = r}, {})'
    <3>1. ASSUME NEW v \in Ids PROVE views'[v] = LoadedView(v)'
      <4>1. LoadedView(v)' = LoadedView(v) /\ views[v] = LoadedView(v)
        BY <1>3, <2>1 DEF LoadedView, disk, SettledBut
      <4>2. v[1] = r => views[v] = None
        BY <1>3 DEF Housed, SchemaIsEmpty, Live
      <4>3. QED
        BY <2>2, <4>1, <4>2
    <3>2. QED
      BY <1>3, <2>1, <3>1 DEF SettledBut, Stored, disk
  <2>5. SchemaIsEmpty(r)'
    BY <2>1, <2>2 DEF SchemaIsEmpty, Live
  <2>6. Wide(work)' \/ \A t \in diskTables' : t[1] # r
    BY <1>3, <2>1 DEF SchemaIsEmpty, SettledBut, disk, TypeOK
  <2>7. Open("delete schema", s)'
    BY <1>2, <1>3, <2>1, <2>4, <2>5, <2>6 DEF Open
  <2>8. Knowing(c, s)
    BY <1>1, <1>3, <2>1, SameNotes
  <2>9. SerialInv' /\ pc'[c] = "delete schema" /\ stmt'[c] = s
    BY <1>3, <2>1, <2>3, <2>7, <2>8, GoesOn
  <2>10. Touched(c)' = {<<"schema", r>>} \cup {"table", "view"} \X {o \in Ids : o[1] = r}
    BY <1>2, <2>9 DEF Touched, At
  <2>11. QED
    BY <2>1, <2>2, <2>9, <2>10, InMemoryStep
<1>6. QED
  BY <1>4, <1>5

\* The keys of the schema's tables are in its metadata, or there are none.
LEMMA DeleteSchemaSerial ==
  ASSUME SerialInv, NEW c \in Clients, DeleteSchema(c), TypeOK'
  PROVE  SerialInv' /\ Durable!Work
<1>1. PICK r : r = stmt[c].obj[1]
  OBVIOUS
<1>2. /\ \A e \in Clients : e # c => pc[e] = "idle"
      /\ SettledBut({r}, {t \in Ids : t[1] = r}, {}) /\ r # Public /\ r \notin schemas
      /\ SchemaIsEmpty(r) /\ (Wide(work) \/ \A t \in diskTables : t[1] # r)
      /\ Housed /\ TypeOK /\ Serial(work)
  <2>1. pc[c] = "delete schema"
    BY DEF DeleteSchema, At
  <2>2. QED
    BY <1>1, <2>1, NobodyElse DEF SerialInv, Open
<1>3. Finish(c) /\ UNCHANGED <<work, memory, diskViews>>
  BY DEF DeleteSchema
<1>4. /\ diskTables' = {t \in diskTables : t[1] # r}
      /\ metaSchemas' = metaSchemas \ {r}
      /\ ~work.torn => diskTables' \subseteq metaTables'
  <2>1. CASE r \in metaSchemas
    <3>1. /\ diskTables' = {t \in diskTables : t[1] # r \/ t \notin metaTables}
          /\ metaTables' = {t \in metaTables : t[1] # r}
          /\ metaSchemas' = metaSchemas \ {r}
      BY <1>1, <2>1 DEF DeleteSchema
    <3>2. \A t \in diskTables : t[1] = r => t \in metaTables
      BY <1>2 DEF Serial, Housed
    <3>3. QED
      BY <1>2, <3>1, <3>2 DEF Housed
  <2>2. CASE r \notin metaSchemas
    <3>1. UNCHANGED <<diskTables, metaTables, metaSchemas>>
      BY <1>1, <2>2 DEF DeleteSchema
    <3>2. \A t \in diskTables : t[1] # r
      BY <1>2, <2>2 DEF Housed, Stored
    <3>3. QED
      BY <1>2, <2>2, <3>1, <3>2 DEF Housed
  <2>3. QED
    BY <2>1, <2>2
<1>5. Stored' = Stored \ {r}
  BY <1>2, <1>4 DEF Stored
<1>6. \A v \in Ids : v[1] = r => diskViews[v] = None
  <2>1. TAKE v \in Ids
  <2>2. HAVE v[1] = r
  <2>3. views[v] = None /\ views[v] = LoadedView(v)
    BY <1>2, <2>2 DEF SchemaIsEmpty, Live, SettledBut
  <2>4. QED
    BY <1>2, <2>3, LoadedNone
<1>7. Housed'
  BY <1>2, <1>3, <1>4, <1>5, <1>6 DEF Housed, Live, memory
<1>8. \A v \in Ids : LoadedView(v)' = LoadedView(v)
  BY <1>3 DEF LoadedView
<1>9. SettledBut({}, {}, {})'
  BY <1>2, <1>3, <1>4, <1>5, <1>8 DEF SettledBut, SchemaIsEmpty, memory, TypeOK
<1>10. SerialInv'
  BY <1>2, <1>3, <1>7, <1>9, Ends
<1>11. \A t \in tables : t[1] # r
  BY <1>2 DEF SchemaIsEmpty
<1>12. QED
  BY <1>2, <1>3, <1>4, <1>5, <1>8, <1>10, <1>11, OnDiskStep

----------------------------------------------------------------------------
(* Tables                                                                  *)

LEMMA CreateTableSerial ==
  ASSUME SerialInv, NEW c \in Clients, CreateTable(c), TypeOK'
  PROVE  SerialInv' /\ Durable!Work
<1>1. PICK t \in Ids \ tables :
        /\ Begin(c, "create table") /\ (t[1] \in schemas \/ "table" \in work.stray)
        /\ schemas' = schemas \cup {t[1]} /\ tables' = tables \cup {t}
        /\ Goto(c, "fetch table") /\ Knowing(c, Naming(t))
        /\ UNCHANGED <<work, views, disk>>
  BY DEF CreateTable
<1>2. PICK s : s = Naming(t)
  OBVIOUS
<1>3. s.obj = t
  BY <1>2 DEF Naming, NoStatement
<1>4. /\ \A e \in Clients : e # c => pc[e] = "idle"
      /\ SettledBut({}, {}, {}) /\ TypeOK /\ Housed /\ Serial(work)
  <2>1. pc[c] = "idle"
    BY <1>1 DEF Begin
  <2>2. QED
    BY <1>1, <2>1, NobodyElse DEF SerialInv
<1>5. Housed'
  BY <1>1, <1>4 DEF Housed, Live, Stored, disk
<1>6. work.torn => t[1] \in Stored
  BY <1>1, <1>4 DEF Serial, SettledBut, TypeOK
<1>7. Open("fetch table", s)'
  <2>1. SettledBut({t[1]}, {t}, {})'
    BY <1>1, <1>4 DEF SettledBut, Stored, disk, LoadedView
  <2>2. t \in tables' /\ t[1] \in schemas' /\ (work'.torn => t[1] \in Stored')
    BY <1>1, <1>6 DEF Stored, disk
  <2>3. QED
    BY <1>3, <2>1, <2>2 DEF Open
<1>8. SerialInv' /\ pc'[c] = "fetch table" /\ stmt'[c] = s
  <2>1. Goto(c, "fetch table") /\ Knowing(c, s) /\ work' = work
    BY <1>1, <1>2
  <2>2. QED
    BY <1>4, <1>5, <1>7, <2>1, GoesOn
<1>9. <<"schema", t[1]>> \in Touched(c)' /\ <<"table", t>> \in Touched(c)'
  BY <1>3, <1>8 DEF Touched, At
<1>10. QED
  BY <1>1, <1>8, <1>9, InMemoryStep

LEMMA FetchTableSerial ==
  ASSUME SerialInv, NEW c \in Clients, FetchTable(c), TypeOK'
  PROVE  SerialInv' /\ Durable!Work
<1>1. PICK s : s = stmt[c]
  OBVIOUS
<1>2. /\ \A e \in Clients : e # c => pc[e] = "idle"
      /\ Open("fetch table", s) /\ TypeOK
  <2>1. pc[c] = "fetch table"
    BY DEF FetchTable, At
  <2>2. QED
    BY <1>1, <2>1, NobodyElse DEF SerialInv
<1>3. s.obj \in tables /\ Open("save table", s)
  BY <1>2 DEF Open
<1>4. Goto(c, "save table") /\ UNCHANGED stmt /\ UNCHANGED <<work, memory, disk>>
  BY <1>1, <1>3 DEF FetchTable
<1>5. Knowing(c, s)
  BY <1>1, <1>2, <1>4, SameNotes
<1>6. QED
  BY <1>2, <1>3, <1>4, <1>5, LooksSerial

LEMMA SaveTableSerial ==
  ASSUME SerialInv, NEW c \in Clients, SaveTable(c), TypeOK'
  PROVE  SerialInv' /\ Durable!Work
<1>1. PICK t : t = stmt[c].obj
  OBVIOUS
<1>2. /\ diskTables' = diskTables \cup {t} /\ metaTables' = metaTables \cup {t}
      /\ metaSchemas' = metaSchemas \cup {t[1]} /\ Finish(c)
      /\ UNCHANGED <<work, memory, diskViews>>
  BY <1>1 DEF SaveTable
<1>3. /\ \A e \in Clients : e # c => pc[e] = "idle"
      /\ SettledBut({t[1]}, {t}, {}) /\ t \in tables /\ t[1] \in schemas
      /\ Housed
  <2>1. pc[c] = "save table"
    BY DEF SaveTable, At
  <2>2. QED
    BY <1>1, <2>1, NobodyElse DEF SerialInv, Open
<1>4. Stored' = Stored \cup {t[1]} /\ \A v \in Ids : LoadedView(v)' = LoadedView(v)
  BY <1>2 DEF Stored, LoadedView
<1>5. Housed'
  BY <1>2, <1>3, <1>4 DEF Housed, Live, memory
<1>6. SettledBut({}, {}, {})'
  BY <1>2, <1>3, <1>4 DEF SettledBut, memory
<1>7. SerialInv'
  BY <1>2, <1>3, <1>5, <1>6, Ends
<1>8. QED
  BY <1>2, <1>3, <1>4, <1>7, OnDiskStep

LEMMA CheckTableSerial ==
  ASSUME SerialInv, NEW c \in Clients, CheckTable(c), TypeOK'
  PROVE  SerialInv' /\ Durable!Work
<1>1. PICK step \in {"remove table", "drop dependents"} :
        \E s : /\ \E kind : Begin(c, kind)
               /\ Goto(c, step) /\ Knowing(c, s) /\ UNCHANGED <<work, memory, disk>>
  <2>1. PICK t \in tables :
          /\ \/ Begin(c, "drop table") /\ Goto(c, "remove table")
             \/ /\ Begin(c, "drop table cascade")
                /\ Goto(c, IF ViewsUsing(t[2]) = {} THEN "remove table" ELSE "drop dependents")
          /\ Knowing(c, [Naming(t) EXCEPT !.todo = ViewsUsing(t[2])])
          /\ UNCHANGED <<work, memory, disk>>
    BY Zenon DEF CheckTable
  <2>2. PICK s : s = [Naming(t) EXCEPT !.todo = ViewsUsing(t[2])]
    OBVIOUS
  <2>3. Knowing(c, s)
    BY <2>1, <2>2
  <2>4. QED
    BY <2>1, <2>3
<1>2. (\A e \in Clients : e # c => pc[e] = "idle") /\ SettledBut({}, {}, {})
  BY <1>1, NobodyElse DEF Begin
<1>3. \A s : Open(step, s)
  BY <1>2 DEF Open
<1>4. QED
  BY <1>1, <1>2, <1>3, LooksSerial

LEMMA DropDependentSerial ==
  ASSUME SerialInv, NEW c \in Clients, DropDependent(c), TypeOK'
  PROVE  SerialInv' /\ Durable!Work
<1>1. /\ \A e \in Clients : e # c => pc[e] = "idle"
      /\ SettledBut({}, {}, {}) /\ Housed /\ TypeOK
  <2>1. pc[c] = "drop dependents"
    BY DEF DropDependent, At
  <2>2. QED
    BY <2>1, NobodyElse DEF SerialInv, Open
<1>2. PICK v \in stmt[c].todo :
        IF v \in Live
        THEN /\ views' = [views EXCEPT ![v] = None] /\ Goto(c, "delete dependent")
             /\ Knowing(c, [stmt[c] EXCEPT !.dep = v, !.todo = @ \ {v}])
        ELSE Finish(c) /\ UNCHANGED views
  BY DEF DropDependent
<1>3. UNCHANGED <<work, schemas, tables, disk>>
  BY DEF DropDependent
<1>4. CASE v \notin Live
  BY <1>1, <1>2, <1>3, <1>4, LooksSerial DEF memory
<1>5. CASE v \in Live
  <2>1. PICK s : s = [stmt[c] EXCEPT !.dep = v, !.todo = @ \ {v}]
    OBVIOUS
  <2>2. s.dep = v
    BY <1>1, <2>1 DEF TypeOK, Statements
  <2>3. Goto(c, "delete dependent") /\ Knowing(c, s)
    BY <1>2, <1>5, <2>1
  <2>4. v \in Ids /\ views'[v] = None /\ \A w \in Ids : w # v => views'[w] = views[w]
    BY <1>1, <1>2, <1>5 DEF TypeOK, Live
  <2>5. Housed'
    BY <1>1, <1>3, <2>4 DEF Housed, Live, Stored, disk
  <2>6. Open("delete dependent", s)'
    <3>1. SettledBut({}, {}, {v})'
      BY <1>1, <1>3, <2>4 DEF SettledBut, Stored, disk, LoadedView
    <3>2. QED
      BY <2>2, <2>4, <3>1 DEF Open
  <2>7. SerialInv' /\ pc'[c] = "delete dependent" /\ stmt'[c] = s
    BY <1>1, <1>3, <2>3, <2>5, <2>6, GoesOn
  <2>8. <<"view", v>> \in Touched(c)'
    BY <2>2, <2>7 DEF Touched, At
  <2>9. QED
    BY <1>3, <2>4, <2>7, <2>8, InMemoryStep
<1>6. QED
  BY <1>4, <1>5

\* A view's key goes that memory no longer has.
LEMMA KeyGone ==
  ASSUME TypeOK, NEW v \in Ids, diskViews' = [diskViews EXCEPT ![v] = None]
  PROVE  /\ LoadedView(v)' = None /\ diskViews'[v] = None
         /\ \A w \in Ids : w # v => LoadedView(w)' = LoadedView(w) /\ diskViews'[w] = diskViews[w]
<1>1. diskViews'[v] = None /\ \A w \in Ids : w # v => diskViews'[w] = diskViews[w]
  BY DEF TypeOK
<1>2. QED
  BY <1>1 DEF LoadedView

LEMMA DeleteDependentSerial ==
  ASSUME SerialInv, NEW c \in Clients, DeleteDependent(c), TypeOK'
  PROVE  SerialInv' /\ Durable!Work
<1>1. PICK s, v : s = stmt[c] /\ v = stmt[c].dep
  OBVIOUS
<1>2. /\ \A e \in Clients : e # c => pc[e] = "idle"
      /\ SettledBut({}, {}, {v}) /\ views[v] = None /\ Housed /\ TypeOK /\ v \in Ids
  <2>1. pc[c] = "delete dependent"
    BY DEF DeleteDependent, At
  <2>2. QED
    BY <1>1, <2>1, NobodyElse DEF SerialInv, Open, TypeOK, Statements
<1>3. PICK step \in {"remove table", "drop dependents"} :
        /\ diskViews' = [diskViews EXCEPT ![v] = None] /\ Goto(c, step)
        /\ UNCHANGED <<work, memory, diskTables, metaSchemas, metaTables, stmt>>
  BY <1>1 DEF DeleteDependent
<1>4. /\ LoadedView(v)' = None /\ diskViews'[v] = None
      /\ \A w \in Ids : w # v => LoadedView(w)' = LoadedView(w) /\ diskViews'[w] = diskViews[w]
  BY <1>2, <1>3, KeyGone
<1>5. Housed'
  BY <1>2, <1>3, <1>4 DEF Housed, Live, Stored, memory
<1>6. SettledBut({}, {}, {})'
  BY <1>2, <1>3, <1>4 DEF SettledBut, Stored, memory
<1>7. Open(step, s)'
  BY <1>6 DEF Open
<1>8. Knowing(c, s)
  BY <1>1, <1>2, <1>3, SameNotes
<1>9. SerialInv'
  BY <1>2, <1>3, <1>5, <1>7, <1>8, GoesOn
<1>10. QED
  BY <1>2, <1>3, <1>4, <1>9, OnDiskStep DEF Stored

LEMMA RemoveTableSerial ==
  ASSUME SerialInv, NEW c \in Clients, RemoveTable(c), TypeOK'
  PROVE  SerialInv' /\ Durable!Work
<1>1. PICK s, t : s = stmt[c] /\ t = s.obj
  OBVIOUS
<1>2. /\ \A e \in Clients : e # c => pc[e] = "idle"
      /\ SettledBut({}, {}, {}) /\ Housed /\ TypeOK
  <2>1. pc[c] = "remove table"
    BY DEF RemoveTable, At
  <2>2. QED
    BY <2>1, NobodyElse DEF SerialInv, Open
<1>3. /\ tables' = tables \ {t} /\ UNCHANGED <<work, schemas, views, disk>>
      /\ IF t \in tables THEN Goto(c, "delete table") /\ UNCHANGED stmt ELSE Finish(c)
  BY <1>1 DEF RemoveTable
<1>4. CASE t \notin tables
  <2>1. tables' = tables /\ Finish(c)
    BY <1>3, <1>4
  <2>2. QED
    BY <1>2, <1>3, <2>1, LooksSerial DEF memory
<1>5. CASE t \in tables
  <2>1. Housed'
    BY <1>2, <1>3 DEF Housed, Live, Stored, disk
  <2>2. Open("delete table", s)'
    <3>1. SettledBut({}, {t}, {})'
      BY <1>2, <1>3 DEF SettledBut, Stored, disk, LoadedView
    <3>2. QED
      BY <1>1, <1>3, <3>1 DEF Open
  <2>3. Goto(c, "delete table") /\ Knowing(c, s) /\ work' = work
    BY <1>1, <1>2, <1>3, <1>5, SameNotes
  <2>4. SerialInv' /\ pc'[c] = "delete table" /\ stmt'[c] = s
    BY <1>2, <2>1, <2>2, <2>3, GoesOn
  <2>5. <<"table", t>> \in Touched(c)'
    BY <1>1, <2>4 DEF Touched, At
  <2>6. QED
    BY <1>3, <2>4, <2>5, InMemoryStep
<1>6. QED
  BY <1>4, <1>5

LEMMA DeleteTableSerial ==
  ASSUME SerialInv, NEW c \in Clients, DeleteTable(c), TypeOK'
  PROVE  SerialInv' /\ Durable!Work
<1>1. PICK t : t = stmt[c].obj
  OBVIOUS
<1>2. /\ \A e \in Clients : e # c => pc[e] = "idle"
      /\ SettledBut({}, {t}, {}) /\ t \notin tables /\ Housed
  <2>1. pc[c] = "delete table"
    BY DEF DeleteTable, At
  <2>2. QED
    BY <1>1, <2>1, NobodyElse DEF SerialInv, Open
<1>3. /\ diskTables' = diskTables \ {t} /\ metaTables' = metaTables \ {t} /\ Finish(c)
      /\ UNCHANGED <<work, memory, diskViews, metaSchemas>>
  BY <1>1 DEF DeleteTable
<1>4. Stored' = Stored /\ \A v \in Ids : LoadedView(v)' = LoadedView(v)
  BY <1>3 DEF Stored, LoadedView
<1>5. Housed'
  BY <1>2, <1>3, <1>4 DEF Housed, Live, memory
<1>6. SettledBut({}, {}, {})'
  BY <1>2, <1>3, <1>4 DEF SettledBut, memory
<1>7. SerialInv'
  BY <1>2, <1>3, <1>5, <1>6, Ends
<1>8. QED
  BY <1>2, <1>3, <1>4, <1>7, OnDiskStep

----------------------------------------------------------------------------
(* Views                                                                   *)

\* In a session of the view's own schema, memory holds what the text says.
LEMMA CheckViewSerial ==
  ASSUME SerialInv, NEW c \in Clients, CheckView(c), TypeOK'
  PROVE  SerialInv' /\ Durable!Work
<1>1. PICK v \in Ids, q \in work.texts, session \in Schemas :
        /\ \/ Begin(c, "create view") /\ Goto(c, "add view")
           \/ Begin(c, "replace view") /\ Goto(c, "replace memory")
        /\ v[1] \in schemas \/ "view" \in work.stray
        /\ session = v[1] \/ work.away
        /\ Knowing(c, [Naming(v) EXCEPT
              !.text = q,
              !.pinned = Qualify(q, IF session = Public THEN v[1] ELSE session)])
        /\ UNCHANGED <<work, memory, disk>>
  BY Zenon DEF CheckView
<1>2. /\ \A e \in Clients : e # c => pc[e] = "idle"
      /\ SettledBut({}, {}, {}) /\ TypeOK /\ Serial(work) /\ work \in Works
  <2>1. pc[c] = "idle" /\ \E kind : Begin(c, kind)
    BY <1>1 DEF Begin
  <2>2. QED
    BY <2>1, NobodyElse, SerialFields
<1>3. PICK pinned : pinned = Qualify(q, IF session = Public THEN v[1] ELSE session)
  OBVIOUS
<1>4. PICK s : s = [Naming(v) EXCEPT !.text = q, !.pinned = pinned]
  OBVIOUS
<1>5. s.obj = v /\ s.text = q /\ s.pinned = pinned
  BY <1>4 DEF Naming, NoStatement
<1>6. session = v[1] /\ pinned = Qualify(q, v[1]) /\ v[1] \in schemas
  <2>1. session = v[1] /\ v[1] \in schemas
    BY <1>1, <1>2 DEF Serial
  <2>2. (IF session = Public THEN v[1] ELSE session) = v[1]
    BY <2>1
  <2>3. QED
    BY <1>3, <2>1, <2>2
<1>7. ~Wide(work)
  BY <1>1, <1>2 DEF Serial, Issues, Begin
<1>8. q # << >> /\ q \in Seq(Sources)
  BY <1>2, WorksAssumption
<1>9. Making(s)
  BY <1>5, <1>6, <1>7, <1>8 DEF Making
<1>10. PICK step \in {"add view", "replace memory"} : Goto(c, step)
  BY <1>1
<1>11. Open(step, s)
  BY <1>2, <1>9 DEF Open
<1>12. Knowing(c, s)
  BY <1>1, <1>3, <1>4
<1>13. QED
  BY <1>1, <1>2, <1>10, <1>11, <1>12, LooksSerial

LEMMA ReplaceInMemorySerial ==
  ASSUME SerialInv, NEW c \in Clients, ReplaceInMemory(c), TypeOK'
  PROVE  SerialInv' /\ Durable!Work
<1>1. PICK s, v : s = stmt[c] /\ v = s.obj
  OBVIOUS
<1>2. /\ \A e \in Clients : e # c => pc[e] = "idle"
      /\ SettledBut({}, {}, {}) /\ Making(s) /\ Housed /\ TypeOK /\ v \in Ids
  <2>1. pc[c] = "replace memory"
    BY DEF ReplaceInMemory, At
  <2>2. QED
    BY <1>1, <2>1, NobodyElse DEF SerialInv, Open, TypeOK, Statements
<1>3. /\ views' = [views EXCEPT ![v] = None] /\ Goto(c, "replace disk")
      /\ UNCHANGED <<work, schemas, tables, disk, stmt>>
  BY <1>1 DEF ReplaceInMemory
<1>4. views'[v] = None /\ \A w \in Ids : w # v => views'[w] = views[w]
  BY <1>2, <1>3 DEF TypeOK
<1>5. Housed'
  BY <1>2, <1>3, <1>4 DEF Housed, Live, Stored, disk
<1>6. Open("replace disk", s)'
  <2>1. SettledBut({}, {}, {v})'
    BY <1>2, <1>3, <1>4 DEF SettledBut, Stored, disk, LoadedView
  <2>2. Making(s)'
    BY <1>2, <1>3 DEF Making
  <2>3. QED
    BY <1>1, <1>4, <2>1, <2>2 DEF Open
<1>7. Knowing(c, s)
  BY <1>1, <1>2, <1>3, SameNotes
<1>8. SerialInv' /\ pc'[c] = "replace disk" /\ stmt'[c] = s
  BY <1>2, <1>3, <1>5, <1>6, <1>7, GoesOn
<1>9. <<"view", v>> \in Touched(c)'
  BY <1>1, <1>8 DEF Touched, At
<1>10. QED
  BY <1>3, <1>4, <1>8, <1>9, InMemoryStep

LEMMA ReplaceOnDiskSerial ==
  ASSUME SerialInv, NEW c \in Clients, ReplaceOnDisk(c), TypeOK'
  PROVE  SerialInv' /\ Durable!Work
<1>1. PICK s, v : s = stmt[c] /\ v = s.obj
  OBVIOUS
<1>2. /\ \A e \in Clients : e # c => pc[e] = "idle"
      /\ SettledBut({}, {}, {v}) /\ views[v] = None /\ Making(s) /\ Housed /\ TypeOK /\ v \in Ids
  <2>1. pc[c] = "replace disk"
    BY DEF ReplaceOnDisk, At
  <2>2. QED
    BY <1>1, <2>1, NobodyElse DEF SerialInv, Open, TypeOK, Statements
<1>3. /\ diskViews' = [diskViews EXCEPT ![v] = None] /\ Goto(c, "add view")
      /\ UNCHANGED <<work, memory, diskTables, metaSchemas, metaTables, stmt>>
  BY <1>1 DEF ReplaceOnDisk
<1>4. /\ LoadedView(v)' = None /\ diskViews'[v] = None
      /\ \A w \in Ids : w # v => LoadedView(w)' = LoadedView(w) /\ diskViews'[w] = diskViews[w]
  BY <1>2, <1>3, KeyGone
<1>5. Housed'
  BY <1>2, <1>3, <1>4 DEF Housed, Live, Stored, memory
<1>6. SettledBut({}, {}, {})'
  BY <1>2, <1>3, <1>4 DEF SettledBut, Stored, memory
<1>7. Open("add view", s)'
  <2>1. Making(s)'
    BY <1>2, <1>3 DEF Making, memory
  <2>2. QED
    BY <1>6, <2>1 DEF Open
<1>8. Knowing(c, s)
  BY <1>1, <1>2, <1>3, SameNotes
<1>9. SerialInv'
  BY <1>2, <1>3, <1>5, <1>7, <1>8, GoesOn
<1>10. QED
  BY <1>2, <1>3, <1>4, <1>9, OnDiskStep DEF Stored

LEMMA AddViewSerial ==
  ASSUME SerialInv, NEW c \in Clients, AddView(c), TypeOK'
  PROVE  SerialInv' /\ Durable!Work
<1>1. PICK s, v : s = stmt[c] /\ v = s.obj
  OBVIOUS
<1>2. /\ \A e \in Clients : e # c => pc[e] = "idle"
      /\ SettledBut({}, {}, {}) /\ Making(s) /\ Housed /\ TypeOK /\ v \in Ids
  <2>1. pc[c] = "add view"
    BY DEF AddView, At
  <2>2. QED
    BY <1>1, <2>1, NobodyElse DEF SerialInv, Open, TypeOK, Statements
<1>3. /\ schemas' = schemas /\ UNCHANGED <<work, tables, disk>>
      /\ IF v \in tables \cup Live
         THEN Finish(c) /\ UNCHANGED views
         ELSE /\ views' = [views EXCEPT ![v] = s.pinned] /\ Goto(c, "save view")
              /\ UNCHANGED stmt
  BY <1>1, <1>2 DEF AddView, Making
<1>4. CASE v \in tables \cup Live
  BY <1>2, <1>3, <1>4, LooksSerial DEF memory
<1>5. CASE v \notin tables \cup Live
  <2>1. views'[v] = s.pinned /\ \A w \in Ids : w # v => views'[w] = views[w]
    BY <1>2, <1>3, <1>5 DEF TypeOK
  <2>2. Housed'
    BY <1>1, <1>2, <1>3, <2>1 DEF Housed, Live, Stored, disk, Making
  <2>3. Open("save view", s)'
    <3>1. SettledBut({}, {}, {v})'
      BY <1>2, <1>3, <2>1 DEF SettledBut, Stored, disk, LoadedView
    <3>2. Making(s)'
      BY <1>2, <1>3 DEF Making
    <3>3. QED
      BY <1>1, <2>1, <3>1, <3>2 DEF Open
  <2>4. Goto(c, "save view") /\ Knowing(c, s) /\ work' = work
    BY <1>1, <1>2, <1>3, <1>5, SameNotes
  <2>5. SerialInv' /\ pc'[c] = "save view" /\ stmt'[c] = s
    BY <1>2, <2>2, <2>3, <2>4, GoesOn
  <2>6. <<"view", v>> \in Touched(c)'
    BY <1>1, <2>5 DEF Touched, At
  <2>7. QED
    BY <1>3, <2>1, <2>5, <2>6, InMemoryStep
<1>6. QED
  BY <1>4, <1>5

\* The text is qualified at the next start as the SELECT in memory is.
LEMMA SaveViewSerial ==
  ASSUME SerialInv, NEW c \in Clients, SaveView(c), TypeOK'
  PROVE  SerialInv' /\ Durable!Work
<1>1. PICK s, v : s = stmt[c] /\ v = s.obj
  OBVIOUS
<1>2. /\ \A e \in Clients : e # c => pc[e] = "idle"
      /\ SettledBut({}, {}, {v}) /\ views[v] = s.pinned /\ Making(s) /\ Housed /\ TypeOK /\ v \in Ids
  <2>1. pc[c] = "save view"
    BY DEF SaveView, At
  <2>2. QED
    BY <1>1, <2>1, NobodyElse DEF SerialInv, Open, TypeOK, Statements
<1>3. /\ diskViews' = [diskViews EXCEPT ![v] = s.text] /\ Finish(c)
      /\ UNCHANGED <<work, memory, diskTables, metaSchemas, metaTables>>
  BY <1>1 DEF SaveView
<1>4. diskViews'[v] = s.text /\ \A w \in Ids : w # v => diskViews'[w] = diskViews[w]
  BY <1>2, <1>3 DEF TypeOK
<1>5. s.text # None
  BY <1>2, NoneAssumption DEF Making
<1>6. LoadedView(v)' = views[v] /\ \A w \in Ids : w # v => LoadedView(w)' = LoadedView(w)
  BY <1>1, <1>2, <1>4, <1>5 DEF LoadedView, Making
<1>7. Stored' = Stored /\ v[1] \in Stored
  <2>1. v[1] \in Schemas /\ v[1] \in schemas
    BY <1>1, <1>2 DEF Making, Ids
  <2>2. QED
    BY <1>2, <1>3, <2>1 DEF SettledBut, Stored
<1>8. Housed'
  BY <1>1, <1>2, <1>3, <1>4, <1>7 DEF Housed, Live, memory, Making
<1>9. SettledBut({}, {}, {})'
  BY <1>2, <1>3, <1>6, <1>7 DEF SettledBut, memory
<1>10. SerialInv'
  BY <1>2, <1>3, <1>8, <1>9, Ends
<1>11. QED
  BY <1>3, <1>6, <1>7, <1>10, OnDiskStep

LEMMA CheckDropViewSerial ==
  ASSUME SerialInv, NEW c \in Clients, CheckDropView(c), TypeOK'
  PROVE  SerialInv' /\ Durable!Work
<1>1. PICK v \in Ids, step \in {"remove view", "cascade view"} :
        /\ \E kind : Begin(c, kind) /\ Goto(c, step)
        /\ Knowing(c, [Naming(v) EXCEPT !.todo = DependentViews(v[2])])
        /\ UNCHANGED <<work, memory, disk>>
  BY Zenon DEF CheckDropView
<1>2. PICK s : s = [Naming(v) EXCEPT !.todo = DependentViews(v[2])]
  OBVIOUS
<1>3. s.obj = v /\ s.todo = DependentViews(v[2])
  BY <1>2 DEF Naming, NoStatement
<1>4. (\A e \in Clients : e # c => pc[e] = "idle") /\ SettledBut({}, {}, {})
  BY <1>1, NobodyElse DEF Begin
<1>5. Open(step, s)
  BY <1>3, <1>4 DEF Open
<1>6. Goto(c, step) /\ Knowing(c, s)
  BY <1>1, <1>2
<1>7. QED
  BY <1>1, <1>4, <1>5, <1>6, LooksSerial

\* What it found before are the views that depend on it still.
LEMMA RemoveViewSerial ==
  ASSUME SerialInv, NEW c \in Clients, RemoveView(c), TypeOK'
  PROVE  SerialInv' /\ Durable!Work
<1>1. PICK s, v : s = stmt[c] /\ v = s.obj
  OBVIOUS
<1>2. PICK D : D = DependentViews(v[2])
  OBVIOUS
<1>3. /\ \A e \in Clients : e # c => pc[e] = "idle"
      /\ SettledBut({}, {}, {}) /\ s.todo = D /\ Housed /\ TypeOK /\ v \in Ids
      /\ s \in Statements
  <2>1. pc[c] \in {"remove view", "cascade view"}
    BY DEF RemoveView, At
  <2>2. Open(pc[c], s) /\ TypeOK /\ Housed /\ \A e \in Clients : e # c => pc[e] = "idle"
    BY <1>1, <2>1, NobodyElse DEF SerialInv
  <2>3. QED
    BY <1>1, <1>2, <2>1, <2>2 DEF Open, TypeOK, Statements
<1>4. UNCHANGED <<work, schemas, tables, disk>>
  BY DEF RemoveView
<1>5. CASE v \notin Live \/ (D # {} /\ ~At(c, "cascade view"))
  <2>1. Finish(c) /\ UNCHANGED views
    BY <1>1, <1>2, <1>5 DEF RemoveView
  <2>2. QED
    BY <1>3, <1>4, <2>1, LooksSerial DEF memory
<1>6. CASE ~(v \notin Live \/ (D # {} /\ ~At(c, "cascade view")))
  <2>1. PICK n : n = [s EXCEPT !.todo = IF At(c, "cascade view") THEN @ ELSE {}]
    OBVIOUS
  <2>2. n.obj = v /\ n.todo = D
    BY <1>1, <1>3, <1>6, <2>1 DEF Statements
  <2>3. /\ views' = [w \in Ids |-> IF w = v \/ w \in D THEN None ELSE views[w]]
        /\ Goto(c, "delete view") /\ Knowing(c, n)
    BY <1>1, <1>2, <1>6, <2>1 DEF RemoveView
  <2>4. \A w \in Ids : views'[w] = IF w \in {v} \cup D THEN None ELSE views[w]
    BY <2>3
  <2>5. Housed'
    BY <1>3, <1>4, <2>4 DEF Housed, Live, Stored, disk
  <2>6. Open("delete view", n)'
    <3>1. SettledBut({}, {}, {v} \cup D)'
      BY <1>3, <1>4, <2>4 DEF SettledBut, Stored, disk, LoadedView
    <3>2. D \subseteq Ids
      BY <1>2 DEF DependentViews, Live
    <3>3. \A w \in {v} \cup D : views'[w] = None
      BY <1>3, <2>4, <3>2
    <3>4. QED
      BY <2>2, <3>1, <3>3 DEF Open
  <2>7. SerialInv' /\ pc'[c] = "delete view" /\ stmt'[c] = n
    BY <1>3, <1>4, <2>3, <2>5, <2>6, GoesOn
  <2>8. \A w \in {v} \cup D : <<"view", w>> \in Touched(c)'
    BY <2>2, <2>7 DEF Touched, At
  <2>9. QED
    BY <1>4, <2>4, <2>7, <2>8, InMemoryStep
<1>7. QED
  BY <1>5, <1>6

LEMMA DeleteViewSerial ==
  ASSUME SerialInv, NEW c \in Clients, DeleteView(c), TypeOK'
  PROVE  SerialInv' /\ Durable!Work
<1>1. PICK s, v : s = stmt[c] /\ v = s.obj
  OBVIOUS
<1>2. /\ \A e \in Clients : e # c => pc[e] = "idle"
      /\ SettledBut({}, {}, {v} \cup s.todo) /\ (\A w \in {v} \cup s.todo : views[w] = None)
      /\ Housed /\ TypeOK /\ v \in Ids
  <2>1. pc[c] = "delete view"
    BY DEF DeleteView, At
  <2>2. QED
    BY <1>1, <2>1, NobodyElse DEF SerialInv, Open, TypeOK, Statements
<1>3. /\ diskViews' = [diskViews EXCEPT ![v] = None]
      /\ IF s.todo = {} THEN Finish(c) ELSE Goto(c, "delete dependents") /\ UNCHANGED stmt
      /\ UNCHANGED <<work, memory, diskTables, metaSchemas, metaTables>>
  BY <1>1 DEF DeleteView
<1>4. /\ LoadedView(v)' = None /\ diskViews'[v] = None
      /\ \A w \in Ids : w # v => LoadedView(w)' = LoadedView(w) /\ diskViews'[w] = diskViews[w]
  BY <1>2, <1>3, KeyGone
<1>5. Housed'
  BY <1>2, <1>3, <1>4 DEF Housed, Live, Stored, memory
<1>6. SettledBut({}, {}, s.todo)'
  BY <1>2, <1>3, <1>4 DEF SettledBut, Stored, memory
<1>7. SerialInv'
  <2>1. CASE s.todo = {}
    BY <1>2, <1>3, <1>5, <1>6, <2>1, Ends
  <2>2. CASE s.todo # {}
    <3>1. Open("delete dependents", s)'
      BY <1>2, <1>3, <1>6 DEF Open, memory
    <3>2. Goto(c, "delete dependents") /\ Knowing(c, s) /\ work' = work
      BY <1>1, <1>2, <1>3, <2>2, SameNotes
    <3>3. QED
      BY <1>2, <1>5, <3>1, <3>2, GoesOn
  <2>3. QED
    BY <2>1, <2>2
<1>8. QED
  BY <1>2, <1>3, <1>4, <1>7, OnDiskStep DEF Stored

LEMMA DeleteDependentsSerial ==
  ASSUME SerialInv, NEW c \in Clients, DeleteDependents(c), TypeOK'
  PROVE  SerialInv' /\ Durable!Work
<1>1. PICK s : s = stmt[c]
  OBVIOUS
<1>2. /\ \A e \in Clients : e # c => pc[e] = "idle"
      /\ SettledBut({}, {}, s.todo) /\ (\A w \in s.todo : views[w] = None)
      /\ Housed /\ TypeOK /\ s \in Statements /\ s.todo \subseteq Ids
  <2>1. pc[c] = "delete dependents"
    BY DEF DeleteDependents, At
  <2>2. QED
    BY <1>1, <2>1, NobodyElse DEF SerialInv, Open, TypeOK, Statements
<1>3. PICK v \in s.todo :
        /\ diskViews' = [diskViews EXCEPT ![v] = None]
        /\ IF s.todo = {v}
           THEN Finish(c)
           ELSE Knowing(c, [s EXCEPT !.todo = @ \ {v}]) /\ UNCHANGED pc
        /\ UNCHANGED <<work, memory, diskTables, metaSchemas, metaTables>>
  BY <1>1 DEF DeleteDependents
<1>4. /\ LoadedView(v)' = None /\ diskViews'[v] = None
      /\ \A w \in Ids : w # v => LoadedView(w)' = LoadedView(w) /\ diskViews'[w] = diskViews[w]
  BY <1>2, <1>3, KeyGone
<1>5. Housed'
  BY <1>2, <1>3, <1>4 DEF Housed, Live, Stored, memory
<1>6. SettledBut({}, {}, s.todo \ {v})'
  BY <1>2, <1>3, <1>4 DEF SettledBut, Stored, memory
<1>7. SerialInv'
  <2>1. CASE s.todo = {v}
    BY <1>2, <1>3, <1>5, <1>6, <2>1, Ends
  <2>2. CASE s.todo # {v}
    <3>1. PICK n : n = [s EXCEPT !.todo = @ \ {v}]
      OBVIOUS
    <3>2. n.todo = s.todo \ {v}
      BY <1>2, <3>1 DEF Statements
    <3>3. Open("delete dependents", n)'
      BY <1>2, <1>3, <1>6, <3>2 DEF Open, memory
    <3>4. Goto(c, "delete dependents") /\ Knowing(c, n) /\ work' = work
      <4>1. pc[c] = "delete dependents" /\ pc' = pc
        BY <1>3, <2>2 DEF DeleteDependents, At
      <4>2. QED
        BY <1>2, <1>3, <2>2, <3>1, <4>1 DEF Goto, TypeOK
    <3>5. QED
      BY <1>2, <1>5, <3>3, <3>4, GoesOn
  <2>3. QED
    BY <2>1, <2>2
<1>8. QED
  BY <1>2, <1>3, <1>4, <1>7, OnDiskStep DEF Stored

----------------------------------------------------------------------------
(* One statement at a time: the start, a restart, every step               *)

LEMMA InitSerial ==
  ASSUME Init, Serial(work)
  PROVE  SerialInv /\ Durable!Init
<1>1. TypeOK
  BY InitType
<1>2. /\ \A r \in Schemas : r \in schemas <=> r \in Stored
      /\ tables = diskTables
      /\ \A v \in Ids : views[v] = None /\ diskViews[v] = None /\ LoadedView(v) = None
  BY DEF Init, Stored, LoadedView
<1>3. Housed
  BY <1>2 DEF Init, Housed, Live
<1>4. SettledBut({}, {}, {})
  BY <1>2 DEF SettledBut
<1>5. SerialInv
  BY <1>1, <1>3, <1>4 DEF SerialInv, Init
<1>6. QED
  BY <1>5, InitMeans

\* What a write that was cut off leaves: the table's key or not, in a schema
\* that stays.
LEMMA TornSerial ==
  ASSUME SerialInv, NEW c \in Clients, work.torn, NEW T \in HalfWritten(c)
  PROVE  /\ T \subseteq Ids
         /\ \A t \in T : t[1] \in Stored
         /\ \A t \in Ids : (t \in T <=> t \in diskTables) \/ (t \in T <=> t \in tables)
<1>1. PICK o : o = stmt[c].obj
  OBVIOUS
<1>2. o \in Ids /\ diskTables \subseteq Ids /\ Housed /\ Serial(work)
  BY <1>1 DEF SerialInv, TypeOK, Statements
<1>3. pc[c] # "idle" => Open(pc[c], stmt[c])
  BY DEF SerialInv
<1>4. CASE At(c, "save table")
  <2>1. T = diskTables \cup {o}
    BY <1>1, <1>4 DEF HalfWritten, At
  <2>2. o \in tables /\ o[1] \in Stored
    BY <1>1, <1>3, <1>4 DEF At, Open
  <2>3. QED
    BY <1>2, <2>1, <2>2 DEF Housed
<1>5. CASE At(c, "delete table")
  <2>1. T = diskTables \ {o}
    BY <1>1, <1>5 DEF HalfWritten, At
  <2>2. o \notin tables
    BY <1>1, <1>3, <1>5 DEF At, Open
  <2>3. QED
    BY <1>2, <2>1, <2>2 DEF Housed
<1>6. CASE At(c, "delete schema")
  <2>1. PICK gone \in SUBSET {t \in diskTables \cap metaTables : t[1] = o[1] /\ o[1] \in metaSchemas} :
          T = diskTables \ gone
    BY <1>1, <1>6 DEF HalfWritten, At
  <2>2. \A t \in diskTables : t[1] # o[1]
    BY <1>1, <1>2, <1>3, <1>6 DEF At, Open, Serial
  <2>3. QED
    BY <1>2, <2>1, <2>2 DEF Housed
<1>7. QED
  BY <1>4, <1>5, <1>6 DEF HalfWritten

LEMMA RestartSerial ==
  ASSUME SerialInv, Restart, TypeOK'
  PROVE  SerialInv' /\ Durable!Restart
<1>1. /\ work' = work /\ diskViews' = diskViews
      /\ metaSchemas' = metaSchemas /\ metaTables' = metaTables
      /\ tables' = diskTables' /\ schemas' = LoadedSchemas'
      /\ \A v \in Ids : views'[v] = LoadedView(v)
      /\ \A c \in Clients : pc'[c] = "idle"
      /\ \/ diskTables' = diskTables
         \/ work.torn /\ \E c \in Clients : diskTables' \in HalfWritten(c)
  BY DEF Restart
<1>2. Housed /\ Serial(work) /\ TypeOK /\ LoadedSchemas = Stored
  BY SerialFields
<1>3. /\ \A t \in diskTables' : t[1] \in Stored
      /\ \A t \in Ids : (t \in diskTables' <=> t \in diskTables) \/ (t \in diskTables' <=> t \in tables)
  <2>1. CASE diskTables' = diskTables
    BY <1>2, <2>1 DEF Housed
  <2>2. CASE work.torn /\ \E c \in Clients : diskTables' \in HalfWritten(c)
    BY <2>2, TornSerial
  <2>3. QED
    BY <1>1, <2>1, <2>2
<1>4. Stored' = Stored /\ schemas' = Stored /\ LoadedSchemas' = Stored
  BY <1>1, <1>3 DEF Stored, LoadedSchemas
<1>5. \A v \in Ids : LoadedView(v)' = LoadedView(v) /\ views'[v] = LoadedView(v)
  BY <1>1 DEF LoadedView
<1>6. Housed'
  <2>1. \A v \in Ids : LoadedView(v) = None <=> diskViews[v] = None
    BY <1>2, LoadedNone
  <2>2. \A v \in Live' : v[1] \in schemas'
    BY <1>2, <1>4, <1>5, <2>1 DEF Live, Housed
  <2>3. ~work'.torn => diskTables' \subseteq metaTables'
    BY <1>1, <1>2 DEF Housed
  <2>4. Wide(work)' => \A v \in Ids : views'[v] = None /\ diskViews'[v] = None
    BY <1>1, <1>2, <1>5, <2>1 DEF Housed
  <2>5. \A v \in Ids : diskViews'[v] # None => v[1] \in Stored'
    BY <1>1, <1>2, <1>4 DEF Housed
  <2>6. Public \in schemas'
    BY <1>4 DEF Stored
  <2>7. QED
    BY <1>3, <1>4, <2>2, <2>3, <2>4, <2>5, <2>6 DEF Housed
<1>7. SettledBut({}, {}, {})'
  BY <1>1, <1>4, <1>5 DEF SettledBut
<1>8. SerialInv'
  BY <1>1, <1>2, <1>6, <1>7 DEF SerialInv, Serial, Issues, Wide
<1>9. /\ \A r \in Schemas : r \in schemas' <=> r \in LoadedSchemas
      /\ \A t \in Ids : (t \in tables' <=> t \in tables) \/ (t \in tables' <=> t \in diskTables)
      /\ schemas' = LoadedSchemas' /\ tables' = diskTables'
  BY <1>1, <1>2, <1>3, <1>4
<1>10. Durable!Restart
  BY <1>1, <1>5, <1>9, RestartMeans
<1>11. QED
  BY <1>8, <1>10

LEMMA NextSerial ==
  ASSUME Serial(work), SerialInv, [Next]_vars
  PROVE  /\ SerialInv' /\ Serial(work)'
         /\ \/ Durable!Next
            \/ UNCHANGED <<[o \in Objects |-> InMemory(o)],
                           [o \in Objects |-> {InMemory(o), OnDisk(o)}],
                           UNION {Touched(c) : c \in Clients}>>
<1>1. TypeOK'
  BY NextType DEF SerialInv
<1>2. ASSUME NEW c \in Clients, Schema(c) PROVE SerialInv' /\ Durable!Work
  BY <1>1, <1>2, CreateSchemaSerial, SaveSchemaSerial, CheckSchemaSerial,
     RemoveSchemaSerial, DeleteSchemaSerial DEF Schema
<1>3. ASSUME NEW c \in Clients, Table(c) PROVE SerialInv' /\ Durable!Work
  BY <1>1, <1>3, CreateTableSerial, FetchTableSerial, SaveTableSerial, CheckTableSerial,
     DropDependentSerial, DeleteDependentSerial, RemoveTableSerial, DeleteTableSerial DEF Table
<1>4. ASSUME NEW c \in Clients, View(c) PROVE SerialInv' /\ Durable!Work
  BY <1>1, <1>4, CheckViewSerial, ReplaceInMemorySerial, ReplaceOnDiskSerial, AddViewSerial,
     SaveViewSerial, CheckDropViewSerial, RemoveViewSerial, DeleteViewSerial,
     DeleteDependentsSerial DEF View
<1>5. CASE Restart
  BY <1>1, <1>5, RestartSerial, SerialFields DEF Durable!Next, SerialInv
<1>6. CASE UNCHANGED vars
  <2>1. SerialInv'
    <3>1. Housed' /\ Serial(work)'
      BY <1>6 DEF SerialInv, Housed, Live, Stored, Serial, Issues, Wide, vars
    <3>2. \A S, T, V : SettledBut(S, T, V) => SettledBut(S, T, V)'
      BY <1>6 DEF SettledBut, vars, Stored, LoadedView
    <3>3. ASSUME NEW step, NEW s, Open(step, s) PROVE Open(step, s)'
      BY <1>6, <3>2, <3>3 DEF Open, vars, Stored, Making, DependentViews, Live, SchemaIsEmpty
    <3>4. pc' = pc /\ stmt' = stmt
      BY <1>6 DEF vars
    <3>5. QED
      BY <1>1, <3>1, <3>2, <3>3, <3>4 DEF SerialInv
  <2>2. \A o \in Objects : InMemory(o)' = InMemory(o) /\ OnDisk(o)' = OnDisk(o)
    BY <1>6, Zenon DEF InMemory, OnDisk, LoadedSchemas, LoadedView, vars
  <2>3. \A c \in Clients : Touched(c)' = Touched(c)
    BY <1>6 DEF vars, Touched, At
  <2>4. QED
    BY <2>1, <2>2, <2>3 DEF SerialInv
<1>7. QED
  BY <1>2, <1>3, <1>4, <1>5, <1>6 DEF Next, Durable!Next, SerialInv

----------------------------------------------------------------------------
(* What a restart finds, if sessions only create                           *)

\* Workloads of sessions that create at once and drop nothing, schemas or views
\* but not both: a view whose schema was never saved would give way to the next
\* CREATE SCHEMA.
Growing(w) ==
  /\ ~w.away /\ "view" \notin w.stray
  /\ \A c \in Clients : w.does[c] \subseteq {"create schema", "create table", "create view"}
  /\ ~(Issues(w, {"create schema"}) /\ Issues(w, {"create view"}))

Growth(step, s) ==
  /\ step \in {"idle", "save schema", "fetch table", "save table", "add view", "save view"}
  /\ step # "idle" => s.obj[1] \in schemas
  /\ step \in {"fetch table", "save table"} => s.obj \in tables
  /\ step \in {"add view", "save view"} => /\ ~Issues(work, {"create schema"})
                                           /\ s.pinned = Qualify(s.text, s.obj[1])
  /\ step = "save view" => views[s.obj] = s.pinned

\* The statements that are to save a schema, a table, a view.
SavesSchema(c, r) == pc[c] \in {"save schema", "fetch table", "save table"} /\ stmt[c].obj[1] = r
SavesTable(c, t) == pc[c] \in {"fetch table", "save table"} /\ stmt[c].obj = t
SavesView(c, v) == pc[c] = "save view" /\ stmt[c].obj = v

\* Whatever is on disk is in memory, and what is not yet on disk somebody saves.
GrowInv ==
  /\ TypeOK /\ Growing(work)
  /\ LoadedSchemas \subseteq schemas /\ diskTables \subseteq tables
  /\ \A v \in Ids : LoadedView(v) \in {None, views[v]}
  /\ Issues(work, {"create schema"}) => \A v \in Ids : views[v] = None
  /\ \A r \in schemas : r \in LoadedSchemas \/ \E c \in Clients : SavesSchema(c, r)
  /\ \A t \in tables : t \in diskTables \/ \E c \in Clients : SavesTable(c, t)
  /\ \A v \in Ids : LoadedView(v) = views[v] \/ \E c \in Clients : SavesView(c, v)
  /\ \A c \in Clients : Growth(pc[c], stmt[c])

LEMMA GrowTouched == GrowInv => TouchedOnly
<1> SUFFICES ASSUME GrowInv PROVE TouchedOnly
  OBVIOUS
<1>1. ASSUME NEW c \in Clients, NEW r, SavesSchema(c, r) PROVE <<"schema", r>> \in Touched(c)
  BY <1>1 DEF SavesSchema, Touched, At
<1>2. ASSUME NEW c \in Clients, NEW t, SavesTable(c, t) PROVE <<"table", t>> \in Touched(c)
  BY <1>2 DEF SavesTable, Touched, At
<1>3. ASSUME NEW c \in Clients, NEW v, SavesView(c, v) PROVE <<"view", v>> \in Touched(c)
  BY <1>3 DEF SavesView, Touched, At
<1>4. QED
  BY <1>1, <1>2, <1>3 DEF GrowInv, TouchedOnly, Busy

\* A step of a statement that goes on to do step, knowing s: it adds to memory
\* what it is to save, or saves what memory holds.
Adds(c, step, s) ==
  /\ schemas \subseteq schemas' /\ tables \subseteq tables'
  /\ LoadedSchemas \subseteq LoadedSchemas' /\ LoadedSchemas' \subseteq schemas
  /\ diskTables \subseteq diskTables' /\ diskTables' \subseteq tables
  /\ \A r \in schemas' : \/ r \in schemas /\ ~SavesSchema(c, r)
                         \/ r \in LoadedSchemas'
                         \/ step \in {"save schema", "fetch table", "save table"} /\ s.obj[1] = r
  /\ \A t \in tables' : \/ t \in tables /\ ~SavesTable(c, t)
                        \/ t \in diskTables'
                        \/ step \in {"fetch table", "save table"} /\ s.obj = t
  /\ \A v \in Ids : /\ views'[v] = views[v] \/ (views[v] = None /\ step = "save view" /\ s.obj = v)
                    /\ LoadedView(v)' \in {LoadedView(v), views[v]}
                    /\ \/ views'[v] = views[v] /\ ~SavesView(c, v)
                       \/ LoadedView(v)' = views'[v]
                       \/ step = "save view" /\ s.obj = v

LEMMA GrowStep ==
  ASSUME GrowInv, NEW c \in Clients, NEW step, NEW s, Goto(c, step), Knowing(c, s),
         TypeOK', work' = work, Adds(c, step, s), Growth(step, s)'
  PROVE  GrowInv' /\ Durable!Work
<1>1. /\ pc'[c] = step /\ stmt'[c] = s
      /\ \A e \in Clients : e # c => pc'[e] = pc[e] /\ stmt'[e] = stmt[e]
  BY DEF GrowInv, TypeOK, Goto, Knowing
<1>2. /\ \A r : step \in {"save schema", "fetch table", "save table"} /\ s.obj[1] = r
                  => SavesSchema(c, r)'
      /\ \A t : step \in {"fetch table", "save table"} /\ s.obj = t => SavesTable(c, t)'
      /\ \A v : step = "save view" /\ s.obj = v => SavesView(c, v)'
  BY <1>1 DEF SavesSchema, SavesTable, SavesView
<1>3. ASSUME NEW e \in Clients, e # c
      PROVE  /\ \A r : SavesSchema(e, r) => SavesSchema(e, r)'
             /\ \A t : SavesTable(e, t) => SavesTable(e, t)'
             /\ \A v : SavesView(e, v) => SavesView(e, v)'
  BY <1>1, <1>3 DEF SavesSchema, SavesTable, SavesView
<1>4. \A r \in schemas' : r \in LoadedSchemas' \/ \E e \in Clients : SavesSchema(e, r)'
  BY <1>2, <1>3 DEF GrowInv, Adds
<1>5. \A t \in tables' : t \in diskTables' \/ \E e \in Clients : SavesTable(e, t)'
  BY <1>2, <1>3 DEF GrowInv, Adds
<1>6. ASSUME NEW v \in Ids
      PROVE  /\ LoadedView(v)' \in {None, views'[v]}
             /\ LoadedView(v)' = views'[v] \/ \E e \in Clients : SavesView(e, v)'
             /\ views[v] # None => views'[v] = views[v]
  <2>1. /\ LoadedView(v) \in {None, views[v]}
        /\ LoadedView(v) = views[v] \/ \E e \in Clients : SavesView(e, v)
    BY DEF GrowInv
  <2>2. /\ views'[v] = views[v] \/ (views[v] = None /\ step = "save view" /\ s.obj = v)
        /\ LoadedView(v)' \in {LoadedView(v), views[v]}
        /\ \/ views'[v] = views[v] /\ ~SavesView(c, v)
           \/ LoadedView(v)' = views'[v]
           \/ step = "save view" /\ s.obj = v
    BY DEF Adds
  <2>3. LoadedView(v)' \in {None, views'[v]} /\ (views[v] # None => views'[v] = views[v])
    BY <2>1, <2>2
  <2>4. CASE views'[v] = views[v] /\ ~SavesView(c, v)
    BY <1>3, <2>1, <2>2, <2>3, <2>4
  <2>5. CASE step = "save view" /\ s.obj = v
    BY <1>2, <2>3, <2>5
  <2>6. QED
    BY <2>2, <2>3, <2>4, <2>5
<1>7. Issues(work', {"create schema"}) => \A v \in Ids : views'[v] = None
  <2>1. step = "save view" => ~Issues(work', {"create schema"})
    BY DEF Growth
  <2>2. QED
    BY <2>1 DEF GrowInv, Adds
<1>8. ASSUME NEW e \in Clients PROVE Growth(pc[e], stmt[e])'
  <2>1. CASE e = c
    BY <1>1, <2>1 DEF Growth
  <2>2. CASE e # c
    <3>1. pc'[e] = pc[e] /\ stmt'[e] = stmt[e] /\ Growth(pc[e], stmt[e])
      BY <1>1, <2>2 DEF GrowInv
    <3>2. stmt[e].obj \in Ids /\ stmt[e].pinned # None
      <4>1. stmt[e] \in Statements
        BY DEF GrowInv, TypeOK
      <4>2. QED
        BY <4>1, NoneAssumption DEF Statements
    <3>3. schemas \subseteq schemas' /\ tables \subseteq tables'
      BY DEF Adds
    <3>4. QED
      BY <1>6, <3>1, <3>2, <3>3 DEF Growth
  <2>3. QED
    BY <2>1, <2>2
<1>9. GrowInv'
  <2>1. Growing(work)' /\ LoadedSchemas' \subseteq schemas' /\ diskTables' \subseteq tables'
    BY DEF GrowInv, Adds
  <2>2. QED
    BY <1>4, <1>5, <1>6, <1>7, <1>8, <2>1 DEF GrowInv
<1>10. TouchedOnly'
  <2>1. (GrowInv => TouchedOnly)'
    BY GrowTouched, PTL
  <2>2. QED
    BY <1>9, <2>1
<1>11. /\ step \in {"save schema", "fetch table", "save table"}
            => <<"schema", s.obj[1]>> \in Touched(c)'
       /\ step \in {"fetch table", "save table"} => <<"table", s.obj>> \in Touched(c)'
       /\ step = "save view" => <<"view", s.obj>> \in Touched(c)'
  BY <1>1 DEF Touched, At
<1>12. \A o : o \in Touched(c)' => o \in Busy'
  BY DEF Busy
<1>13. ASSUME NEW r \in Schemas
       PROVE  /\ (r \in schemas' <=> r \in schemas) \/ <<"schema", r>> \in Busy'
              /\ \/ (r \in LoadedSchemas' <=> r \in LoadedSchemas)
                 \/ (r \in LoadedSchemas' <=> r \in schemas)
  BY <1>11, <1>12 DEF Adds
<1>14. ASSUME NEW t \in Ids
       PROVE  /\ (t \in tables' <=> t \in tables) \/ <<"table", t>> \in Busy'
              /\ (t \in diskTables' <=> t \in diskTables) \/ (t \in diskTables' <=> t \in tables)
  BY <1>11, <1>12 DEF Adds
<1>15. ASSUME NEW v \in Ids
       PROVE  /\ views'[v] = views[v] \/ <<"view", v>> \in Busy'
              /\ LoadedView(v)' = LoadedView(v) \/ LoadedView(v)' = views[v]
  BY <1>11, <1>12 DEF Adds
<1>16. Durable!Work
  BY <1>10, <1>13, <1>14, <1>15, WorkMeans
<1>17. QED
  BY <1>9, <1>16

\* What a statement has at hand, in its types.
LEMMA GrowNotes ==
  ASSUME GrowInv, NEW c \in Clients
  PROVE  /\ stmt[c] \in Statements /\ stmt[c].obj \in Ids /\ stmt[c].obj[1] \in Schemas
         /\ stmt[c].text \in Seq(Sources)
         /\ Growth(pc[c], stmt[c])
<1>1. stmt[c] \in Statements
  BY DEF GrowInv, TypeOK
<1>2. QED
  BY <1>1 DEF GrowInv, Statements, Ids

\* What is named of a statement that has not read anything else.
LEMMA NamingMeans == \A o : Naming(o).obj = o
  BY DEF Naming, NoStatement

\* A statement that saves nothing yet.
LEMMA GrowLooks ==
  ASSUME GrowInv, NEW c \in Clients, UNCHANGED <<memory, disk>>,
         pc[c] \in {"idle", "add view"}, NEW step, NEW s
  PROVE  Adds(c, step, s)
<1>1. /\ schemas' = schemas /\ tables' = tables /\ views' = views
      /\ LoadedSchemas' = LoadedSchemas /\ diskTables' = diskTables
      /\ \A v \in Ids : LoadedView(v)' = LoadedView(v)
  BY DEF memory, disk, LoadedSchemas, LoadedView
<1>2. /\ \A r : ~SavesSchema(c, r)
      /\ \A t : ~SavesTable(c, t)
      /\ \A v : ~SavesView(c, v)
  BY DEF SavesSchema, SavesTable, SavesView
<1>3. LoadedSchemas \subseteq schemas /\ diskTables \subseteq tables
  BY DEF GrowInv
<1>4. QED
  BY <1>1, <1>2, <1>3 DEF Adds

LEMMA CreateSchemaGrows ==
  ASSUME GrowInv, TypeOK', NEW c \in Clients, CreateSchema(c)
  PROVE  GrowInv' /\ Durable!Work
<1>1. PICK r \in Schemas \ schemas :
        /\ Begin(c, "create schema") /\ schemas' = schemas \cup {r}
        /\ views' = WithoutViewsOf(r)
        /\ Goto(c, "save schema") /\ Knowing(c, Naming(<<r, AnyName>>))
        /\ UNCHANGED <<work, tables, disk>>
  BY DEF CreateSchema
<1>2. pc[c] = "idle" /\ Issues(work, {"create schema"})
  BY <1>1 DEF Begin, Issues
<1>3. /\ tables' = tables /\ \A v \in Ids : views'[v] = views[v]
      /\ LoadedSchemas' = LoadedSchemas /\ diskTables' = diskTables
      /\ \A v \in Ids : LoadedView(v)' = LoadedView(v)
  BY <1>1, <1>2 DEF GrowInv, WithoutViewsOf, disk, LoadedSchemas, LoadedView
<1>4. PICK s : s = Naming(<<r, AnyName>>)
  OBVIOUS
<1>5. s.obj[1] = r
  BY <1>4, NamingMeans
<1>6. /\ \A q : ~SavesSchema(c, q)
      /\ \A t : ~SavesTable(c, t)
      /\ \A v : ~SavesView(c, v)
  BY <1>2 DEF SavesSchema, SavesTable, SavesView
<1>7. LoadedSchemas \subseteq schemas /\ diskTables \subseteq tables
  BY DEF GrowInv
<1>8. Adds(c, "save schema", s)
  BY <1>1, <1>3, <1>5, <1>6, <1>7 DEF Adds
<1>9. Growth("save schema", s)'
  BY <1>1, <1>5 DEF Growth
<1>10. QED
  BY <1>1, <1>4, <1>8, <1>9, GrowStep

LEMMA SaveSchemaGrows ==
  ASSUME GrowInv, TypeOK', NEW c \in Clients, SaveSchema(c)
  PROVE  GrowInv' /\ Durable!Work
<1>1. PICK r : r = stmt[c].obj[1]
  OBVIOUS
<1>2. /\ pc[c] = "save schema" /\ metaSchemas' = metaSchemas \cup {r} /\ Finish(c)
      /\ UNCHANGED <<work, memory, diskTables, diskViews, metaTables>>
  BY <1>1 DEF SaveSchema, At
<1>3. r \in schemas
  BY <1>1, <1>2, GrowNotes DEF Growth
<1>4. /\ schemas' = schemas /\ tables' = tables /\ views' = views
      /\ LoadedSchemas' = LoadedSchemas \cup {r} /\ diskTables' = diskTables
      /\ \A v \in Ids : LoadedView(v)' = LoadedView(v)
  BY <1>2 DEF memory, LoadedSchemas, LoadedView
<1>5. /\ \A q : SavesSchema(c, q) => q = r
      /\ \A t : ~SavesTable(c, t)
      /\ \A v : ~SavesView(c, v)
  BY <1>1, <1>2 DEF SavesSchema, SavesTable, SavesView
<1>6. LoadedSchemas \subseteq schemas /\ diskTables \subseteq tables
  BY DEF GrowInv
<1>7. Adds(c, "idle", NoStatement)
  BY <1>3, <1>4, <1>5, <1>6 DEF Adds
<1>8. Growth("idle", NoStatement)'
  BY DEF Growth
<1>9. QED
  BY <1>2, <1>7, <1>8, GrowStep DEF Finish

LEMMA CreateTableGrows ==
  ASSUME GrowInv, TypeOK', NEW c \in Clients, CreateTable(c)
  PROVE  GrowInv' /\ Durable!Work
<1>1. PICK t \in Ids \ tables :
        /\ Begin(c, "create table")
        /\ schemas' = schemas \cup {t[1]} /\ tables' = tables \cup {t}
        /\ Goto(c, "fetch table") /\ Knowing(c, Naming(t))
        /\ UNCHANGED <<work, views, disk>>
  BY DEF CreateTable
<1>2. pc[c] = "idle"
  BY <1>1 DEF Begin
<1>3. /\ views' = views /\ LoadedSchemas' = LoadedSchemas /\ diskTables' = diskTables
      /\ \A v \in Ids : LoadedView(v)' = LoadedView(v)
  BY <1>1 DEF disk, LoadedSchemas, LoadedView
<1>4. PICK s : s = Naming(t)
  OBVIOUS
<1>5. s.obj = t
  BY <1>4, NamingMeans
<1>6. /\ \A q : ~SavesSchema(c, q)
      /\ \A o : ~SavesTable(c, o)
      /\ \A v : ~SavesView(c, v)
  BY <1>2 DEF SavesSchema, SavesTable, SavesView
<1>7. LoadedSchemas \subseteq schemas /\ diskTables \subseteq tables
  BY DEF GrowInv
<1>8. Adds(c, "fetch table", s)
  BY <1>1, <1>3, <1>5, <1>6, <1>7 DEF Adds
<1>9. Growth("fetch table", s)'
  BY <1>1, <1>5 DEF Growth
<1>10. QED
  BY <1>1, <1>4, <1>8, <1>9, GrowStep

LEMMA FetchTableGrows ==
  ASSUME GrowInv, TypeOK', NEW c \in Clients, FetchTable(c)
  PROVE  GrowInv' /\ Durable!Work
<1>1. PICK s : s = stmt[c]
  OBVIOUS
<1>2. pc[c] = "fetch table" /\ s.obj \in tables /\ s.obj[1] \in schemas
  BY <1>1, GrowNotes DEF FetchTable, At, Growth
<1>3. Goto(c, "save table") /\ Knowing(c, s) /\ UNCHANGED <<work, memory, disk>>
  <2>1. Goto(c, "save table") /\ UNCHANGED stmt /\ UNCHANGED <<work, memory, disk>>
    BY <1>1, <1>2 DEF FetchTable
  <2>2. QED
    BY <1>1, <2>1, SameNotes DEF GrowInv
<1>4. /\ schemas' = schemas /\ tables' = tables /\ views' = views
      /\ LoadedSchemas' = LoadedSchemas /\ diskTables' = diskTables
      /\ \A v \in Ids : LoadedView(v)' = LoadedView(v)
  BY <1>3 DEF memory, disk, LoadedSchemas, LoadedView
<1>5. /\ \A q : SavesSchema(c, q) => q = s.obj[1]
      /\ \A o : SavesTable(c, o) => o = s.obj
      /\ \A v : ~SavesView(c, v)
  BY <1>1, <1>2 DEF SavesSchema, SavesTable, SavesView
<1>6. LoadedSchemas \subseteq schemas /\ diskTables \subseteq tables
  BY DEF GrowInv
<1>7. Adds(c, "save table", s)
  BY <1>4, <1>5, <1>6 DEF Adds
<1>8. Growth("save table", s)'
  BY <1>2, <1>4 DEF Growth
<1>9. QED
  BY <1>3, <1>7, <1>8, GrowStep

LEMMA SaveTableGrows ==
  ASSUME GrowInv, TypeOK', NEW c \in Clients, SaveTable(c)
  PROVE  GrowInv' /\ Durable!Work
<1>1. PICK t : t = stmt[c].obj
  OBVIOUS
<1>2. /\ pc[c] = "save table" /\ Finish(c)
      /\ diskTables' = diskTables \cup {t} /\ metaSchemas' = metaSchemas \cup {t[1]}
      /\ UNCHANGED <<work, memory, diskViews>>
  BY <1>1 DEF SaveTable, At
<1>3. t \in tables /\ t[1] \in schemas
  BY <1>1, <1>2, GrowNotes DEF Growth
<1>4. /\ schemas' = schemas /\ tables' = tables /\ views' = views
      /\ LoadedSchemas' = LoadedSchemas \cup {t[1]}
      /\ \A v \in Ids : LoadedView(v)' = LoadedView(v)
  BY <1>2 DEF memory, LoadedSchemas, LoadedView
<1>5. /\ \A q : SavesSchema(c, q) => q = t[1]
      /\ \A o : SavesTable(c, o) => o = t
      /\ \A v : ~SavesView(c, v)
  BY <1>1, <1>2 DEF SavesSchema, SavesTable, SavesView
<1>6. LoadedSchemas \subseteq schemas /\ diskTables \subseteq tables
  BY DEF GrowInv
<1>7. Adds(c, "idle", NoStatement)
  BY <1>2, <1>3, <1>4, <1>5, <1>6 DEF Adds
<1>8. Growth("idle", NoStatement)'
  BY DEF Growth
<1>9. QED
  BY <1>2, <1>7, <1>8, GrowStep DEF Finish

LEMMA CheckViewGrows ==
  ASSUME GrowInv, TypeOK', NEW c \in Clients, CheckView(c)
  PROVE  GrowInv' /\ Durable!Work
<1>1. PICK v, q, session, s :
        /\ v \in Ids /\ session \in Schemas
        /\ \/ Begin(c, "create view") /\ Goto(c, "add view")
           \/ Begin(c, "replace view") /\ Goto(c, "replace memory")
        /\ v[1] \in schemas \/ "view" \in work.stray
        /\ session = v[1] \/ work.away
        /\ s = [Naming(v) EXCEPT !.text = q,
                 !.pinned = Qualify(q, IF session = Public THEN v[1] ELSE session)]
        /\ Knowing(c, s)
        /\ UNCHANGED <<work, memory, disk>>
  BY Zenon DEF CheckView
<1>2. Growing(work)
  BY DEF GrowInv
<1>3. Begin(c, "create view") /\ Goto(c, "add view") /\ v[1] \in schemas /\ session = v[1]
  BY <1>1, <1>2 DEF Growing, Begin
<1>4. pc[c] = "idle" /\ ~Issues(work, {"create schema"})
  BY <1>2, <1>3 DEF Begin, Growing, Issues
<1>5. s.obj = v /\ s.text = q /\ s.pinned = Qualify(q, v[1])
  BY <1>1, <1>3 DEF Naming, NoStatement
<1>6. Adds(c, "add view", s)
  BY <1>1, <1>4, GrowLooks
<1>7. Growth("add view", s)'
  <2>1. schemas' = schemas /\ work' = work
    BY <1>1 DEF memory
  <2>2. QED
    BY <1>3, <1>4, <1>5, <2>1 DEF Growth, Qualify
<1>8. QED
  BY <1>1, <1>3, <1>6, <1>7, GrowStep

LEMMA AddViewGrows ==
  ASSUME GrowInv, TypeOK', NEW c \in Clients, AddView(c)
  PROVE  GrowInv' /\ Durable!Work
<1>1. PICK s : s = stmt[c]
  OBVIOUS
<1>2. /\ pc[c] = "add view" /\ schemas' = schemas \cup {s.obj[1]}
      /\ UNCHANGED <<work, tables, disk>>
  BY <1>1 DEF AddView, At
<1>3. /\ s.obj \in Ids /\ s.obj[1] \in schemas
      /\ ~Issues(work, {"create schema"}) /\ s.pinned = Qualify(s.text, s.obj[1])
  BY <1>1, <1>2, GrowNotes DEF Growth
<1>4. schemas' = schemas
  BY <1>2, <1>3
<1>5. CASE s.obj \in tables \cup Live
  <2>1. Finish(c) /\ UNCHANGED views
    BY <1>1, <1>5 DEF AddView
  <2>2. UNCHANGED <<memory, disk>>
    BY <1>2, <1>4, <2>1 DEF memory
  <2>3. Adds(c, "idle", NoStatement)
    BY <1>2, <2>2, GrowLooks
  <2>4. Growth("idle", NoStatement)'
    BY DEF Growth
  <2>5. QED
    BY <1>2, <2>1, <2>3, <2>4, GrowStep DEF Finish
<1>6. CASE s.obj \notin tables \cup Live
  <2>1. /\ views' = [views EXCEPT ![s.obj] = s.pinned]
        /\ Goto(c, "save view") /\ Knowing(c, s)
    <3>1. /\ views' = [views EXCEPT ![s.obj] = s.pinned]
          /\ Goto(c, "save view") /\ UNCHANGED stmt
      BY <1>1, <1>6 DEF AddView
    <3>2. QED
      BY <1>1, <3>1, SameNotes DEF GrowInv
  <2>2. /\ views[s.obj] = None /\ views'[s.obj] = s.pinned
        /\ \A v \in Ids : v # s.obj => views'[v] = views[v]
    BY <1>3, <1>6, <2>1 DEF Live, GrowInv, TypeOK
  <2>3. /\ tables' = tables /\ LoadedSchemas' = LoadedSchemas /\ diskTables' = diskTables
        /\ \A v \in Ids : LoadedView(v)' = LoadedView(v)
    BY <1>2 DEF disk, LoadedSchemas, LoadedView
  <2>4. /\ \A r : ~SavesSchema(c, r)
        /\ \A t : ~SavesTable(c, t)
        /\ \A v : ~SavesView(c, v)
    BY <1>2 DEF SavesSchema, SavesTable, SavesView
  <2>5. LoadedSchemas \subseteq schemas /\ diskTables \subseteq tables
    BY DEF GrowInv
  <2>6. Adds(c, "save view", s)
    BY <1>4, <2>2, <2>3, <2>4, <2>5 DEF Adds
  <2>7. Growth("save view", s)'
    BY <1>2, <1>3, <1>4, <2>2 DEF Growth, Qualify
  <2>8. QED
    BY <1>2, <2>1, <2>6, <2>7, GrowStep
<1>7. QED
  BY <1>5, <1>6

LEMMA SaveViewGrows ==
  ASSUME GrowInv, TypeOK', NEW c \in Clients, SaveView(c)
  PROVE  GrowInv' /\ Durable!Work
<1>1. PICK s : s = stmt[c]
  OBVIOUS
<1>2. /\ pc[c] = "save view" /\ diskViews' = [diskViews EXCEPT ![s.obj] = s.text]
      /\ Finish(c)
      /\ UNCHANGED <<work, memory, diskTables, metaSchemas, metaTables>>
  BY <1>1 DEF SaveView, At
<1>3. /\ s.obj \in Ids /\ s.text \in Seq(Sources)
      /\ views[s.obj] = Qualify(s.text, s.obj[1])
  BY <1>1, <1>2, GrowNotes DEF Growth
<1>4. /\ schemas' = schemas /\ tables' = tables /\ views' = views
      /\ LoadedSchemas' = LoadedSchemas /\ diskTables' = diskTables
  BY <1>2 DEF memory, LoadedSchemas
<1>5. /\ LoadedView(s.obj)' = views[s.obj]
      /\ \A v \in Ids : v # s.obj => LoadedView(v)' = LoadedView(v)
  <2>1. diskViews'[s.obj] = s.text /\ s.text # None
    BY <1>2, <1>3, NoneAssumption DEF GrowInv, TypeOK
  <2>2. \A v \in Ids : v # s.obj => diskViews'[v] = diskViews[v]
    BY <1>2, <1>3 DEF GrowInv, TypeOK
  <2>3. QED
    BY <1>3, <2>1, <2>2 DEF LoadedView, Qualify
<1>6. /\ \A r : ~SavesSchema(c, r)
      /\ \A t : ~SavesTable(c, t)
      /\ \A v : SavesView(c, v) => v = s.obj
  BY <1>1, <1>2 DEF SavesSchema, SavesTable, SavesView
<1>7. LoadedSchemas \subseteq schemas /\ diskTables \subseteq tables
  BY DEF GrowInv
<1>8. Adds(c, "idle", NoStatement)
  BY <1>4, <1>5, <1>6, <1>7 DEF Adds
<1>9. Growth("idle", NoStatement)'
  BY DEF Growth
<1>10. QED
  BY <1>2, <1>8, <1>9, GrowStep DEF Finish

LEMMA InitGrows ==
  ASSUME Init, Growing(work)
  PROVE  GrowInv
<1>1. TypeOK
  BY InitType
<1>2. /\ LoadedSchemas = schemas /\ diskTables = tables
      /\ \A v \in Ids : views[v] = None /\ LoadedView(v) = None
  BY DEF Init, LoadedSchemas, LoadedView
<1>3. \A c \in Clients : Growth(pc[c], stmt[c])
  BY DEF Init, Growth
<1>4. QED
  BY <1>1, <1>2, <1>3 DEF GrowInv

\* What a write that was cut off leaves is a table its statement has made.
LEMMA RestartGrows ==
  ASSUME GrowInv, TypeOK', Restart
  PROVE  GrowInv' /\ Durable!Restart
<1>1. /\ work' = work /\ diskViews' = diskViews /\ metaSchemas' = metaSchemas
      /\ tables' = diskTables' /\ schemas' = LoadedSchemas'
      /\ \A v \in Ids : views'[v] = LoadedView(v)
      /\ \A c \in Clients : pc'[c] = "idle"
      /\ diskTables' = diskTables \/ \E c \in Clients : diskTables' \in HalfWritten(c)
  BY DEF Restart
<1>2. /\ Growing(work) /\ LoadedSchemas \subseteq schemas /\ diskTables \subseteq tables
      /\ \A v \in Ids : LoadedView(v) \in {None, views[v]}
  BY DEF GrowInv
<1>3. /\ diskTables \subseteq diskTables' /\ diskTables' \subseteq tables
      /\ \A t \in diskTables' : t \in diskTables \/ t[1] \in schemas
  <2>1. CASE diskTables' = diskTables
    BY <1>2, <2>1
  <2>2. ASSUME NEW c \in Clients, diskTables' \in HalfWritten(c)
        PROVE  /\ diskTables \subseteq diskTables' /\ diskTables' \subseteq tables
               /\ \A t \in diskTables' : t \in diskTables \/ t[1] \in schemas
    <3>1. PICK o : o = stmt[c].obj
      OBVIOUS
    <3>2. pc[c] = "save table" /\ diskTables' = diskTables \cup {o}
      BY <2>2, <3>1, GrowNotes DEF HalfWritten, At, Growth
    <3>3. o \in tables /\ o[1] \in schemas
      BY <3>1, <3>2, GrowNotes DEF Growth
    <3>4. QED
      BY <1>2, <3>2, <3>3
  <2>3. QED
    BY <1>1, <2>1, <2>2
<1>4. LoadedSchemas \subseteq LoadedSchemas' /\ LoadedSchemas' \subseteq schemas
  <2>1. /\ LoadedSchemas' = {Public} \cup metaSchemas \cup {t[1] : t \in diskTables'}
        /\ LoadedSchemas = {Public} \cup metaSchemas \cup {t[1] : t \in diskTables}
    BY <1>1 DEF LoadedSchemas
  <2>2. QED
    BY <1>2, <1>3, <2>1
<1>5. \A v \in Ids : LoadedView(v)' = LoadedView(v)
  BY <1>1 DEF LoadedView
<1>6. GrowInv'
  <2>1. \A c \in Clients : Growth(pc[c], stmt[c])'
    BY <1>1 DEF Growth
  <2>2. Issues(work', {"create schema"}) => \A v \in Ids : views'[v] = None
    BY <1>1, <1>2 DEF GrowInv
  <2>3. QED
    BY <1>1, <1>2, <1>5, <2>1, <2>2 DEF GrowInv
<1>7. ASSUME NEW r \in Schemas
      PROVE  /\ r \in schemas' <=> r \in LoadedSchemas'
             /\ (r \in schemas' <=> r \in schemas) \/ (r \in schemas' <=> r \in LoadedSchemas)
  BY <1>1, <1>2, <1>4
<1>8. ASSUME NEW t \in Ids
      PROVE  /\ t \in tables' <=> t \in diskTables'
             /\ (t \in tables' <=> t \in tables) \/ (t \in tables' <=> t \in diskTables)
  BY <1>1, <1>3
<1>9. Durable!Restart
  BY <1>1, <1>5, <1>7, <1>8, RestartMeans
<1>10. QED
  BY <1>6, <1>9

LEMMA NextGrows ==
  ASSUME Growing(work), GrowInv, [Next]_vars
  PROVE  /\ GrowInv' /\ Growing(work)'
         /\ \/ Durable!Next
            \/ UNCHANGED <<[o \in Objects |-> InMemory(o)],
                           [o \in Objects |-> {InMemory(o), OnDisk(o)}],
                           UNION {Touched(c) : c \in Clients}>>
<1>1. TypeOK'
  BY NextType DEF GrowInv
<1>2. ASSUME NEW c \in Clients
      PROVE  /\ ~Begin(c, "drop schema") /\ ~Begin(c, "drop schema cascade")
             /\ ~Begin(c, "drop table") /\ ~Begin(c, "drop table cascade")
             /\ ~Begin(c, "drop view") /\ ~Begin(c, "drop view cascade")
             /\ pc[c] \in {"idle", "save schema", "fetch table", "save table", "add view", "save view"}
  BY GrowNotes DEF Growing, Begin, Growth
<1>3. ASSUME NEW c \in Clients, Schema(c) PROVE GrowInv' /\ Durable!Work
  <2>1. CreateSchema(c) \/ SaveSchema(c)
    <3>1. ~CheckSchema(c)
      BY <1>2, Zenon DEF CheckSchema
    <3>2. ~RemoveSchema(c) /\ ~DeleteSchema(c)
      BY <1>2 DEF RemoveSchema, DeleteSchema, At
    <3>3. QED
      BY <1>3, <3>1, <3>2 DEF Schema
  <2>2. QED
    BY <1>1, <2>1, CreateSchemaGrows, SaveSchemaGrows
<1>4. ASSUME NEW c \in Clients, Table(c) PROVE GrowInv' /\ Durable!Work
  <2>1. CreateTable(c) \/ FetchTable(c) \/ SaveTable(c)
    <3>1. ~CheckTable(c)
      BY <1>2, Zenon DEF CheckTable
    <3>2. ~DropDependent(c) /\ ~DeleteDependent(c) /\ ~RemoveTable(c) /\ ~DeleteTable(c)
      BY <1>2 DEF DropDependent, DeleteDependent, RemoveTable, DeleteTable, At
    <3>3. QED
      BY <1>4, <3>1, <3>2 DEF Table
  <2>2. QED
    BY <1>1, <2>1, CreateTableGrows, FetchTableGrows, SaveTableGrows
<1>5. ASSUME NEW c \in Clients, View(c) PROVE GrowInv' /\ Durable!Work
  <2>1. CheckView(c) \/ AddView(c) \/ SaveView(c)
    <3>1. ~CheckDropView(c)
      BY <1>2, Zenon DEF CheckDropView
    <3>2. ~ReplaceInMemory(c) /\ ~ReplaceOnDisk(c) /\ ~RemoveView(c) /\ ~DeleteView(c)
          /\ ~DeleteDependents(c)
      BY <1>2 DEF ReplaceInMemory, ReplaceOnDisk, RemoveView, DeleteView, DeleteDependents, At
    <3>3. QED
      BY <1>5, <3>1, <3>2 DEF View
  <2>2. QED
    BY <1>1, <2>1, CheckViewGrows, AddViewGrows, SaveViewGrows
<1>6. CASE Restart
  <2>1. GrowInv' /\ Durable!Restart
    BY <1>1, <1>6, RestartGrows
  <2>2. QED
    BY <2>1 DEF Durable!Next, GrowInv
<1>7. CASE UNCHANGED vars
  <2>1. /\ work' = work /\ schemas' = schemas /\ tables' = tables /\ views' = views
        /\ diskTables' = diskTables /\ diskViews' = diskViews /\ metaSchemas' = metaSchemas
        /\ pc' = pc /\ stmt' = stmt
    BY <1>7 DEF vars
  <2>2. LoadedSchemas' = LoadedSchemas /\ \A v \in Ids : LoadedView(v)' = LoadedView(v)
    BY <2>1 DEF LoadedSchemas, LoadedView
  <2>3. GrowInv'
    <3>1. \A c \in Clients : Growth(pc[c], stmt[c])'
      BY <2>1 DEF GrowInv, Growth
    <3>2. /\ \A c, r : SavesSchema(c, r)' = SavesSchema(c, r)
          /\ \A c, t : SavesTable(c, t)' = SavesTable(c, t)
          /\ \A c, v : SavesView(c, v)' = SavesView(c, v)
      BY <2>1, Zenon DEF SavesSchema, SavesTable, SavesView
    <3>3. /\ \A r \in schemas : r \in LoadedSchemas \/ \E c \in Clients : SavesSchema(c, r)'
          /\ \A t \in tables : t \in diskTables \/ \E c \in Clients : SavesTable(c, t)'
          /\ \A v \in Ids : LoadedView(v) = views[v] \/ \E c \in Clients : SavesView(c, v)'
      BY <3>2 DEF GrowInv
    <3>4. QED
      BY <1>1, <2>1, <2>2, <3>1, <3>3 DEF GrowInv
  <2>4. \A o \in Objects : InMemory(o)' = InMemory(o) /\ OnDisk(o)' = OnDisk(o)
    BY <2>1, <2>2, Zenon DEF InMemory, OnDisk, LoadedSchemas, LoadedView
  <2>5. \A c \in Clients : Touched(c)' = Touched(c)
    BY <2>1 DEF Touched, At
  <2>6. QED
    BY <2>3, <2>4, <2>5 DEF GrowInv
<1>8. QED
  BY <1>3, <1>4, <1>5, <1>6, <1>7 DEF Next, Durable!Next, GrowInv

----------------------------------------------------------------------------
(* Which views can be read                                                 *)

\* Workloads in which views are only made of what can be read.
Plain == Without({"replace view", "drop schema cascade"})

\* With the tables T and the views w, no views read only each other ...
NoCircle(T, w) ==
  \A S \in SUBSET Ids :
    ~ /\ S # {}
      /\ \A v \in S : w[v] # None /\ Len(w[v]) = 1 /\ w[v][1] \in S \ T

\* ... and all can be read.
AnswersIn(T, q, S) ==
  IF Len(q) = 1 THEN q[1] \in S ELSE \A i \in 1..Len(q) : q[i] \in T

ClosedIn(S, T, w) ==
  T \subseteq S /\ \A v \in Ids : w[v] # None /\ AnswersIn(T, w[v], S) => v \in S

AllReadable(T, w) ==
  \A v \in Ids : w[v] # None =>
    /\ Len(w[v]) <= 2
    /\ \A S \in SUBSET Ids : ClosedIn(S, T, w) => AnswersIn(T, w[v], S)

Sound(T, w) == NoCircle(T, w) /\ (Careful => AllReadable(T, w))

Loaded == [v \in Ids |-> LoadedView(v)]

\* What a statement has seen to before each of its steps.
Sees(step, s) ==
  /\ step \notin {"replace memory", "replace disk"}
  /\ step = "add view" =>
       /\ \A S \in SUBSET Ids : ClosedIn(S, tables, views) => AnswersIn(tables, s.pinned, S)
       /\ Careful => Len(s.pinned) <= 2
  /\ step \in {"drop dependents", "delete dependent", "remove table"} =>
       ViewsUsing(s.obj[2]) \subseteq s.todo
  /\ step = "remove table" => s.todo = {}
  /\ Careful => /\ step \notin {"drop dependents", "delete dependent", "cascade view",
                                "delete dependents"}
                /\ step = "delete view" => s.todo = {}

ReadInv ==
  /\ Plain /\ SerialInv
  /\ Sound(tables, views)
  /\ Sound(diskTables, Loaded)
  /\ \A c \in Clients : Sees(pc[c], stmt[c])

LEMMA WorkStays == [Next]_vars => work' = work
<1>1. ASSUME NEW c \in Clients, Schema(c) PROVE work' = work
  BY <1>1 DEF Schema, CreateSchema, SaveSchema, CheckSchema, RemoveSchema, DeleteSchema
<1>2. ASSUME NEW c \in Clients, Table(c) PROVE work' = work
  BY <1>2 DEF Table, CreateTable, FetchTable, SaveTable, CheckTable, DropDependent,
     DeleteDependent, RemoveTable, DeleteTable
<1>3. ASSUME NEW c \in Clients, View(c) PROVE work' = work
  <2>1. CheckView(c) => work' = work
    BY Zenon DEF CheckView
  <2>2. CheckDropView(c) => work' = work
    BY Zenon DEF CheckDropView
  <2>3. QED
    BY <1>3, <2>1, <2>2 DEF View, ReplaceInMemory, ReplaceOnDisk, AddView, SaveView,
       RemoveView, DeleteView, DeleteDependents
<1>4. QED
  BY <1>1, <1>2, <1>3 DEF Next, Restart, vars

LEMMA PlainMeans ==
  Plain => /\ Serial(work) /\ ~Wide(work)
           /\ \A c \in Clients : work.does[c] \cap {"replace view", "drop schema cascade"} = {}
           /\ Careful => \A c \in Clients :
                work.does[c] \cap {"drop table cascade", "drop view cascade"} = {}
  BY DEF Plain, Without, Serial, Wide, Issues, Careful

LEMMA FewerCircles ==
  ASSUME NEW T, NEW U, NEW w, NEW x, NoCircle(T, w),
         \A v \in Ids : x[v] # None =>
           /\ w[v] = x[v]
           /\ Len(x[v]) = 1 => (x[v][1] \in T => x[v][1] \in U)
  PROVE  NoCircle(U, x)
  BY DEF NoCircle

\* A view whose sources can be read closes no circle.
LEMMA AddsNoCircle ==
  ASSUME NEW T \in SUBSET Ids, NEW w, NEW x, NEW q, NEW v \in Ids, NoCircle(T, w),
         w[v] = None, x[v] = q, \A u \in Ids : u # v => x[u] = w[u],
         \A S \in SUBSET Ids : ClosedIn(S, T, w) => AnswersIn(T, q, S)
  PROVE  NoCircle(T, x)
<1> SUFFICES ASSUME NEW S \in SUBSET Ids, S # {},
                    \A u \in S : x[u] # None /\ Len(x[u]) = 1 /\ x[u][1] \in S \ T
             PROVE  FALSE
  BY DEF NoCircle
<1>1. CASE v \notin S
  <2>1. \A u \in S : w[u] # None /\ Len(w[u]) = 1 /\ w[u][1] \in S \ T
    BY <1>1
  <2>2. QED
    BY <2>1 DEF NoCircle
<1>2. CASE v \in S
  <2>1. PICK P : P = Ids \ (S \ T)
    OBVIOUS
  <2>2. ClosedIn(P, T, w)
    <3>1. ASSUME NEW u \in Ids, w[u] # None, u \notin P PROVE ~AnswersIn(T, w[u], P)
      <4>1. u \in S /\ x[u] = w[u]
        BY <2>1, <3>1
      <4>2. Len(w[u]) = 1 /\ w[u][1] \notin P
        BY <2>1, <4>1
      <4>3. QED
        BY <4>2 DEF AnswersIn
    <3>2. QED
      BY <2>1, <3>1 DEF ClosedIn
  <2>3. AnswersIn(T, q, P)
    BY <2>1, <2>2
  <2>4. QED
    BY <1>2, <2>1, <2>3 DEF AnswersIn
<1>3. QED
  BY <1>1, <1>2

\* More tables, and more views over what can be read.
LEMMA MoreReadable ==
  ASSUME NEW T, NEW U, NEW w, NEW x, AllReadable(T, w), T \subseteq U,
         \A v \in Ids :
           \/ x[v] = w[v]
           \/ /\ w[v] = None /\ Len(x[v]) <= 2
              /\ \A S \in SUBSET Ids : ClosedIn(S, T, w) => AnswersIn(T, x[v], S)
  PROVE  AllReadable(U, x)
<1>1. ASSUME NEW S \in SUBSET Ids, ClosedIn(S, U, x) PROVE ClosedIn(S, T, w)
  BY <1>1 DEF ClosedIn, AnswersIn
<1>2. ASSUME NEW v \in Ids, x[v] # None, NEW S \in SUBSET Ids, ClosedIn(S, U, x)
      PROVE  Len(x[v]) <= 2 /\ AnswersIn(U, x[v], S)
  <2>1. Len(x[v]) <= 2 /\ AnswersIn(T, x[v], S)
    BY <1>1, <1>2 DEF AllReadable
  <2>2. QED
    BY <2>1 DEF AnswersIn
<1>3. ASSUME NEW v \in Ids, x[v] # None PROVE Len(x[v]) <= 2
  BY <1>3 DEF AllReadable
<1>4. QED
  BY <1>2, <1>3 DEF AllReadable

\* A table or view no view needs is removed.
LEMMA StillReadable ==
  ASSUME NEW T, NEW U, NEW w, NEW x, NEW o \in Ids, AllReadable(T, w), T \subseteq U \cup {o},
         \A v \in Ids : x[v] = w[v] \/ (v = o /\ x[v] = None),
         \A v \in Ids : x[v] # None =>
           IF Len(x[v]) = 1 THEN x[v][1] # o
                            ELSE \A i \in 1..Len(x[v]) : x[v][i] \in T => x[v][i] \in U
  PROVE  AllReadable(U, x)
<1>1. ASSUME NEW v \in Ids, x[v] # None, NEW S, AnswersIn(T, w[v], S \cup {o})
      PROVE  AnswersIn(U, x[v], S)
  <2>1. x[v] = w[v]
    BY <1>1
  <2>2. CASE Len(x[v]) = 1
    BY <1>1, <2>1, <2>2 DEF AnswersIn
  <2>3. CASE Len(x[v]) # 1
    BY <1>1, <2>1, <2>3 DEF AnswersIn
  <2>4. QED
    BY <2>2, <2>3
<1>2. ASSUME NEW S \in SUBSET Ids, ClosedIn(S, U, x) PROVE ClosedIn(S \cup {o}, T, w)
  <2>1. ASSUME NEW u \in Ids, w[u] # None, AnswersIn(T, w[u], S \cup {o}), u # o PROVE u \in S
    <3>1. x[u] # None
      BY <2>1
    <3>2. AnswersIn(U, x[u], S)
      BY <1>1, <2>1, <3>1
    <3>3. QED
      BY <1>2, <3>1, <3>2 DEF ClosedIn
  <2>2. T \subseteq S \cup {o}
    BY <1>2 DEF ClosedIn
  <2>3. QED
    BY <2>1, <2>2 DEF ClosedIn
<1>3. ASSUME NEW v \in Ids, x[v] # None, NEW S \in SUBSET Ids, ClosedIn(S, U, x)
      PROVE  AnswersIn(U, x[v], S)
  <2>1. ClosedIn(S \cup {o}, T, w) /\ S \cup {o} \in SUBSET Ids
    BY <1>2, <1>3
  <2>2. w[v] # None
    BY <1>3
  <2>3. AnswersIn(T, w[v], S \cup {o})
    BY <2>1, <2>2 DEF AllReadable
  <2>4. QED
    BY <1>1, <1>3, <2>3
<1>4. ASSUME NEW v \in Ids, x[v] # None PROVE Len(x[v]) <= 2
  BY <1>4 DEF AllReadable
<1>5. QED
  BY <1>3, <1>4 DEF AllReadable

LEMMA SoundThen ==
  ASSUME work' = work
  PROVE  /\ Careful' = Careful /\ Plain' = Plain
         /\ Sound(tables, views)' <=> /\ NoCircle(tables', views')
                                      /\ Careful => AllReadable(tables', views')
         /\ Sound(diskTables, Loaded)' <=> /\ NoCircle(diskTables', Loaded')
                                           /\ Careful => AllReadable(diskTables', Loaded')
<1>1. Careful' = Careful /\ Plain' = Plain
  BY DEF Careful, Plain, Without
<1>2. QED
  BY <1>1 DEF Sound, NoCircle, AllReadable, ClosedIn, AnswersIn

\* What the check of CREATE VIEW shows of its SELECT.
LEMMA AnswersMeans ==
  ASSUME NEW q, Answers(q, Selectable), NEW S \in SUBSET Ids, ClosedIn(S, tables, views)
  PROVE  AnswersIn(tables, q, S)
<1>1. Closed(S)
  BY DEF ClosedIn, AnswersIn, Closed, Answers, Live
<1>2. Selectable \subseteq S
  BY <1>1 DEF Selectable
<1>3. QED
  BY <1>2 DEF Answers, AnswersIn


----------------------------------------------------------------------------
(* Which views can be read: the start, and how statements go on            *)

LEMMA InitReads ==
  ASSUME Init, Plain
  PROVE  ReadInv
<1>1. SerialInv
  BY PlainMeans, InitSerial
<1>2. \A v \in Ids : views[v] = None /\ Loaded[v] = None
  BY DEF Init, Loaded, LoadedView
<1>3. /\ NoCircle(tables, views) /\ AllReadable(tables, views)
      /\ NoCircle(diskTables, Loaded) /\ AllReadable(diskTables, Loaded)
  BY <1>2 DEF NoCircle, AllReadable
<1>4. \A c \in Clients : Sees(pc[c], stmt[c])
  BY DEF Init, Sees
<1>5. QED
  BY <1>1, <1>3, <1>4 DEF ReadInv, Sound

\* At rest the disk holds what memory holds.
LEMMA RestReads ==
  ASSUME Plain', SerialInv', \A e \in Clients : pc'[e] = "idle", Sound(tables, views)'
  PROVE  ReadInv'
<1>1. /\ SettledBut({}, {}, {})' /\ tables' \subseteq Ids /\ diskTables' \subseteq Ids
      /\ views' = [v \in Ids |-> views'[v]]
  BY DEF SerialInv, TypeOK
<1>2. tables' = diskTables'
  BY <1>1 DEF SettledBut
<1>3. views' = Loaded'
  BY <1>1 DEF SettledBut, Loaded
<1>4. Sound(diskTables, Loaded)'
  BY <1>2, <1>3 DEF Sound, NoCircle, AllReadable, ClosedIn, AnswersIn
<1>5. \A c \in Clients : Sees(pc[c], stmt[c])'
  BY DEF Sees
<1>6. QED
  BY <1>4, <1>5 DEF ReadInv

LEMMA FinishReads ==
  ASSUME ReadInv, SerialInv', work' = work, NEW c \in Clients,
         \A e \in Clients : e # c => pc[e] = "idle", Finish(c),
         \/ UNCHANGED memory
         \/ UNCHANGED <<tables, views>>
  PROVE  ReadInv'
<1>1. \A e \in Clients : pc'[e] = "idle"
  BY DEF ReadInv, SerialInv, TypeOK, Finish, Goto
<1>2. tables' = tables /\ views' = views
  BY DEF memory
<1>3. Sound(tables, views)' /\ Plain'
  BY <1>2, SoundThen DEF ReadInv, Sound
<1>4. QED
  BY <1>1, <1>3, RestReads

LEMMA GoesOnReads ==
  ASSUME ReadInv, SerialInv', work' = work, NEW c \in Clients,
         \A e \in Clients : e # c => pc[e] = "idle",
         NEW step, NEW s, Goto(c, step), Knowing(c, s),
         Sees(step, s)', Sound(tables, views)', Sound(diskTables, Loaded)'
  PROVE  ReadInv'
<1>1. /\ pc'[c] = step /\ stmt'[c] = s
      /\ \A e \in Clients : e # c => pc'[e] = "idle"
  BY DEF ReadInv, SerialInv, TypeOK, Goto, Knowing
<1>2. Sees(pc[c], stmt[c])'
  BY <1>1 DEF Sees
<1>3. \A e \in Clients : e # c => Sees(pc[e], stmt[e])'
  BY <1>1 DEF Sees
<1>4. Plain'
  BY SoundThen DEF ReadInv
<1>5. QED
  BY <1>2, <1>3, <1>4 DEF ReadInv

\* Memory stays, or the disk.
LEMMA StaysSound ==
  ASSUME ReadInv, work' = work
  PROVE  /\ UNCHANGED <<tables, views>> => Sound(tables, views)'
         /\ UNCHANGED memory => Sound(tables, views)'
         /\ UNCHANGED <<diskTables, diskViews>> => Sound(diskTables, Loaded)'
         /\ UNCHANGED disk => Sound(diskTables, Loaded)'
<1>1. UNCHANGED <<diskTables, diskViews>> => Loaded' = Loaded
  BY DEF Loaded, LoadedView
<1>2. QED
  BY <1>1, SoundThen DEF ReadInv, Sound, memory, disk

LEMMA SeesStays ==
  ASSUME work' = work, UNCHANGED <<tables, views>>, NEW step, NEW s, Sees(step, s)
  PROVE  Sees(step, s)'
<1>1. Careful' <=> Careful
  BY SoundThen
<1>2. ViewsUsing(s.obj[2])' = ViewsUsing(s.obj[2])
  BY DEF ViewsUsing, Live
<1>3. step = "add view" => /\ \A S \in SUBSET Ids : ClosedIn(S, tables, views)'
                                                   => AnswersIn(tables, s.pinned, S)'
                           /\ Careful => Len(s.pinned) <= 2
  BY DEF Sees, ClosedIn, AnswersIn
<1>4. QED
  BY <1>1, <1>2, <1>3 DEF Sees

\* Nothing but the next step changes.
LEMMA LooksReads ==
  ASSUME ReadInv, SerialInv', UNCHANGED <<work, memory, disk>>, NEW c \in Clients,
         \A e \in Clients : e # c => pc[e] = "idle",
         \/ Finish(c)
         \/ \E step, s : Goto(c, step) /\ Knowing(c, s) /\ Sees(step, s)
  PROVE  ReadInv'
<1>1. CASE Finish(c)
  BY <1>1, FinishReads
<1>2. CASE \E step, s : Goto(c, step) /\ Knowing(c, s) /\ Sees(step, s)
  <2>1. PICK step, s : Goto(c, step) /\ Knowing(c, s) /\ Sees(step, s)
    BY <1>2
  <2>2. Sees(step, s)'
    BY <2>1, SeesStays DEF memory
  <2>3. Sound(tables, views)' /\ Sound(diskTables, Loaded)'
    BY StaysSound
  <2>4. QED
    BY <2>1, <2>2, <2>3, GoesOnReads
<1>3. QED
  BY <1>1, <1>2

\* Who else there is, and what the statement has seen to.
LEMMA ReadsAlone ==
  ASSUME ReadInv, NEW c \in Clients, pc[c] # "idle" \/ \E kind : Begin(c, kind)
  PROVE  /\ \A e \in Clients : e # c => pc[e] = "idle"
         /\ Sees(pc[c], stmt[c]) /\ Housed /\ TypeOK /\ SerialInv
         /\ pc[c] # "idle" => Open(pc[c], stmt[c])
         /\ ~Wide(work)
  BY NobodyElse, PlainMeans DEF ReadInv, SerialInv

\* A view's key is gone from the disk.
LEMMA FewerKeys ==
  ASSUME ReadInv, NEW v \in Ids, diskViews' = [diskViews EXCEPT ![v] = None],
         diskTables' = diskTables, work' = work, ~Careful
  PROVE  Sound(diskTables, Loaded)'
<1>1. /\ LoadedView(v)' = None
      /\ \A u \in Ids : u # v => LoadedView(u)' = LoadedView(u)
  BY KeyGone DEF ReadInv, SerialInv
<1>2. \A u \in Ids : Loaded'[u] # None => Loaded[u] = Loaded'[u]
  BY <1>1 DEF Loaded
<1>3. NoCircle(diskTables, Loaded)
  BY DEF ReadInv, Sound
<1>4. NoCircle(diskTables', Loaded')
  BY <1>2, <1>3, FewerCircles
<1>5. QED
  BY <1>4, SoundThen


----------------------------------------------------------------------------
(* Which views can be read: schemas                                        *)

LEMMA CreateSchemaReads ==
  ASSUME ReadInv, SerialInv', NEW c \in Clients, CreateSchema(c)
  PROVE  ReadInv'
<1>1. PICK r \in Schemas \ schemas :
        /\ Begin(c, "create schema") /\ views' = WithoutViewsOf(r) /\ Goto(c, "save schema")
        /\ Knowing(c, Naming(<<r, AnyName>>)) /\ UNCHANGED <<work, tables, disk>>
  BY DEF CreateSchema
<1>2. (\A e \in Clients : e # c => pc[e] = "idle") /\ Housed /\ TypeOK
  BY <1>1, ReadsAlone
<1>3. views' = views
  <2>1. \A v \in Ids : views'[v] = views[v]
    BY <1>1, <1>2 DEF WithoutViewsOf, Housed, Live
  <2>2. views = [v \in Ids |-> views[v]] /\ views' = [v \in Ids |-> views'[v]]
    BY <1>1, <1>2 DEF TypeOK, WithoutViewsOf
  <2>3. QED
    BY <2>1, <2>2
<1>4. Sound(tables, views)' /\ Sound(diskTables, Loaded)'
  BY <1>1, <1>3, StaysSound
<1>5. Sees("save schema", Naming(<<r, AnyName>>))'
  BY DEF Sees
<1>6. QED
  BY <1>1, <1>2, <1>4, <1>5, GoesOnReads

LEMMA CheckSchemaReads ==
  ASSUME ReadInv, SerialInv', NEW c \in Clients, CheckSchema(c)
  PROVE  ReadInv'
<1>1. PICK r \in schemas \ {Public} :
        /\ \E kind : Begin(c, kind)
        /\ Goto(c, "remove schema") /\ Knowing(c, Naming(<<r, AnyName>>))
        /\ UNCHANGED <<work, memory, disk>>
  BY DEF CheckSchema
<1>2. \A e \in Clients : e # c => pc[e] = "idle"
  BY <1>1, ReadsAlone
<1>3. Sees("remove schema", Naming(<<r, AnyName>>))
  BY DEF Sees
<1>4. QED
  BY <1>1, <1>2, <1>3, LooksReads

\* The schema is empty.
LEMMA RemoveSchemaReads ==
  ASSUME ReadInv, SerialInv', NEW c \in Clients, RemoveSchema(c)
  PROVE  ReadInv'
<1>1. PICK s : s = stmt[c]
  OBVIOUS
<1>2. PICK r : r = s.obj[1]
  OBVIOUS
<1>3. (\A e \in Clients : e # c => pc[e] = "idle") /\ TypeOK /\ SchemaIsEmpty(r)
  <2>1. pc[c] = "remove schema"
    BY DEF RemoveSchema, At
  <2>2. QED
    BY <1>1, <1>2, <2>1, ReadsAlone DEF Open
<1>4. CASE r \notin schemas
  <2>1. Finish(c) /\ UNCHANGED <<work, memory, disk>>
    BY <1>1, <1>2, <1>4 DEF RemoveSchema
  <2>2. QED
    BY <1>3, <2>1, LooksReads
<1>5. CASE r \in schemas
  <2>1. /\ tables' = {t \in tables : t[1] # r} /\ views' = WithoutViewsOf(r)
        /\ Goto(c, "delete schema") /\ UNCHANGED <<work, disk, stmt>>
    BY <1>1, <1>2, <1>5 DEF RemoveSchema
  <2>2. views' = views
    <3>1. \A v \in Ids : views'[v] = views[v]
      BY <1>3, <2>1 DEF WithoutViewsOf, SchemaIsEmpty, Live
    <3>2. views = [v \in Ids |-> views[v]] /\ views' = [v \in Ids |-> views'[v]]
      BY <1>3, <2>1 DEF TypeOK, WithoutViewsOf
    <3>3. QED
      BY <3>1, <3>2
  <2>3. tables' = tables
    BY <1>3, <2>1 DEF SchemaIsEmpty
  <2>4. Sound(tables, views)' /\ Sound(diskTables, Loaded)'
    BY <2>1, <2>2, <2>3, StaysSound
  <2>5. Knowing(c, s) /\ Sees("delete schema", s)'
    BY <1>1, <1>3, <2>1, SameNotes DEF Sees
  <2>6. QED
    BY <1>3, <2>1, <2>4, <2>5, GoesOnReads
<1>6. QED
  BY <1>4, <1>5

\* Saved, or deleted: the statements that end.
LEMMA DiskReads ==
  ASSUME ReadInv, SerialInv', NEW c \in Clients,
         SaveSchema(c) \/ DeleteSchema(c) \/ SaveTable(c) \/ DeleteTable(c) \/ SaveView(c)
  PROVE  ReadInv'
<1>1. pc[c] # "idle" /\ Finish(c) /\ UNCHANGED <<work, memory>>
  BY DEF SaveSchema, DeleteSchema, SaveTable, DeleteTable, SaveView, At
<1>2. QED
  BY <1>1, ReadsAlone, FinishReads

----------------------------------------------------------------------------
(* Which views can be read: tables                                         *)

LEMMA CreateTableReads ==
  ASSUME ReadInv, SerialInv', NEW c \in Clients, CreateTable(c)
  PROVE  ReadInv'
<1>1. PICK t \in Ids \ tables :
        /\ Begin(c, "create table") /\ tables' = tables \cup {t} /\ Goto(c, "fetch table")
        /\ Knowing(c, Naming(t)) /\ UNCHANGED <<work, views, disk>>
  BY DEF CreateTable
<1>2. \A e \in Clients : e # c => pc[e] = "idle"
  BY <1>1, ReadsAlone
<1>3. Sound(tables, views)'
  <2>1. NoCircle(tables, views) => NoCircle(tables', views')
    BY <1>1, FewerCircles
  <2>2. AllReadable(tables, views) => AllReadable(tables', views')
    <3>1. tables \subseteq tables' /\ \A v \in Ids : views'[v] = views[v]
      BY <1>1
    <3>2. QED
      BY <3>1, MoreReadable, Zenon
  <2>3. QED
    BY <1>1, <2>1, <2>2, SoundThen DEF ReadInv, Sound
<1>4. Sound(diskTables, Loaded)' /\ Sees("fetch table", Naming(t))'
  BY <1>1, StaysSound DEF Sees
<1>5. QED
  BY <1>1, <1>2, <1>3, <1>4, GoesOnReads

LEMMA FetchTableReads ==
  ASSUME ReadInv, SerialInv', NEW c \in Clients, FetchTable(c)
  PROVE  ReadInv'
<1>1. (\A e \in Clients : e # c => pc[e] = "idle") /\ TypeOK
  BY ReadsAlone DEF FetchTable, At
<1>2. UNCHANGED <<work, memory, disk>>
  BY DEF FetchTable
<1>3. CASE Finish(c)
  BY <1>1, <1>2, <1>3, LooksReads
<1>4. CASE Goto(c, "save table") /\ UNCHANGED stmt
  <2>1. Knowing(c, stmt[c]) /\ Sees("save table", stmt[c])
    BY <1>1, <1>4, SameNotes DEF Sees
  <2>2. QED
    BY <1>1, <1>2, <1>4, <2>1, LooksReads
<1>5. QED
  BY <1>3, <1>4 DEF FetchTable

LEMMA CheckTableReads ==
  ASSUME ReadInv, SerialInv', NEW c \in Clients, CheckTable(c)
  PROVE  ReadInv'
<1>1. PICK t \in tables :
        /\ \/ Begin(c, "drop table") /\ ViewsUsing(t[2]) = {} /\ Goto(c, "remove table")
           \/ /\ Begin(c, "drop table cascade")
              /\ Goto(c, IF ViewsUsing(t[2]) = {} THEN "remove table" ELSE "drop dependents")
        /\ Knowing(c, [Naming(t) EXCEPT !.todo = ViewsUsing(t[2])])
        /\ UNCHANGED <<work, memory, disk>>
  BY DEF CheckTable
<1>2. PICK s : s = [Naming(t) EXCEPT !.todo = ViewsUsing(t[2])]
  OBVIOUS
<1>3. s.obj = t /\ s.todo = ViewsUsing(t[2])
  BY <1>2 DEF Naming, NoStatement
<1>4. \A e \in Clients : e # c => pc[e] = "idle"
  BY <1>1, ReadsAlone
<1>5. CASE ViewsUsing(t[2]) = {} /\ Goto(c, "remove table")
  <2>1. Sees("remove table", s)
    BY <1>1, <1>3, <1>5 DEF Sees
  <2>2. QED
    BY <1>1, <1>2, <1>4, <1>5, <2>1, LooksReads
<1>6. CASE Begin(c, "drop table cascade") /\ Goto(c, "drop dependents")
  <2>1. ~Careful
    BY <1>6, PlainMeans DEF ReadInv, Begin
  <2>2. Sees("drop dependents", s)
    BY <1>1, <1>3, <2>1 DEF Sees
  <2>3. QED
    BY <1>1, <1>2, <1>4, <1>6, <2>2, LooksReads
<1>7. QED
  BY <1>1, <1>5, <1>6

LEMMA DropDependentReads ==
  ASSUME ReadInv, SerialInv', NEW c \in Clients, DropDependent(c)
  PROVE  ReadInv'
<1>1. PICK s : s = stmt[c]
  OBVIOUS
<1>2. /\ \A e \in Clients : e # c => pc[e] = "idle"
      /\ TypeOK /\ s \in Statements /\ s.todo \subseteq Ids
      /\ ~Careful /\ ViewsUsing(s.obj[2]) \subseteq s.todo
  <2>1. pc[c] = "drop dependents"
    BY DEF DropDependent, At
  <2>2. Sees("drop dependents", s) /\ TypeOK
    BY <1>1, <2>1, ReadsAlone
  <2>3. s \in Statements
    BY <1>1, <2>2 DEF TypeOK
  <2>4. QED
    BY <2>1, <2>2, <2>3, ReadsAlone DEF Sees, Statements
<1>3. PICK v \in s.todo :
        /\ IF v \in Live
           THEN /\ views' = [views EXCEPT ![v] = None]
                /\ Goto(c, "delete dependent")
                /\ Knowing(c, [s EXCEPT !.dep = v, !.todo = @ \ {v}])
           ELSE Finish(c) /\ UNCHANGED views
        /\ UNCHANGED <<work, schemas, tables, disk>>
  BY <1>1 DEF DropDependent
<1>4. CASE v \notin Live
  BY <1>2, <1>3, <1>4, LooksReads DEF memory
<1>5. CASE v \in Live
  <2>1. PICK n : n = [s EXCEPT !.dep = v, !.todo = @ \ {v}]
    OBVIOUS
  <2>2. n.todo = s.todo \ {v} /\ n.obj = s.obj
    BY <1>2, <2>1 DEF Statements
  <2>3. views'[v] = None /\ \A u \in Ids : u # v => views'[u] = views[u]
    BY <1>2, <1>3, <1>5 DEF TypeOK
  <2>4. Sound(tables, views)'
    <3>1. PICK T, w, x : T = tables /\ w = views /\ x = views'
      OBVIOUS
    <3>2. \A u \in Ids : x[u] # None => w[u] = x[u]
      BY <2>3, <3>1
    <3>3. NoCircle(T, w)
      BY <3>1 DEF ReadInv, Sound
    <3>4. NoCircle(T, x)
      BY <3>2, <3>3, FewerCircles
    <3>5. tables' = tables
      BY <1>3
    <3>6. QED
      BY <1>2, <1>3, <3>1, <3>4, <3>5, SoundThen
  <2>5. Sound(diskTables, Loaded)'
    BY <1>3, StaysSound
  <2>6. ViewsUsing(n.obj[2])' \subseteq n.todo
    BY <1>2, <2>2, <2>3 DEF ViewsUsing, Live
  <2>7. Sees("delete dependent", n)'
    <3>1. ~Careful'
      BY <1>2, <1>3, SoundThen
    <3>2. QED
      BY <2>6, <3>1 DEF Sees
  <2>8. QED
    BY <1>2, <1>3, <1>5, <2>1, <2>4, <2>5, <2>7, GoesOnReads
<1>6. QED
  BY <1>4, <1>5


LEMMA DeleteDependentReads ==
  ASSUME ReadInv, SerialInv', NEW c \in Clients, DeleteDependent(c)
  PROVE  ReadInv'
<1>1. PICK s, v, step :
        /\ s = stmt[c] /\ v = stmt[c].dep
        /\ step = IF stmt[c].todo = {} THEN "remove table" ELSE "drop dependents"
  OBVIOUS
<1>2. /\ \A e \in Clients : e # c => pc[e] = "idle"
      /\ TypeOK /\ v \in Ids /\ ~Careful /\ ViewsUsing(s.obj[2]) \subseteq s.todo
  <2>1. pc[c] = "delete dependent"
    BY DEF DeleteDependent, At
  <2>2. QED
    BY <1>1, <2>1, ReadsAlone DEF Sees, TypeOK, Statements
<1>3. /\ diskViews' = [diskViews EXCEPT ![v] = None] /\ Goto(c, step)
      /\ UNCHANGED <<work, memory, diskTables, metaSchemas, metaTables, stmt>>
  BY <1>1 DEF DeleteDependent
<1>4. Sound(tables, views)' /\ Sound(diskTables, Loaded)'
  BY <1>2, <1>3, StaysSound, FewerKeys
<1>5. Knowing(c, s)
  BY <1>1, <1>2, <1>3, SameNotes
<1>6. Sees(step, s)'
  <2>1. ~Careful' /\ ViewsUsing(s.obj[2])' \subseteq s.todo
    BY <1>2, <1>3, SoundThen DEF ViewsUsing, Live, memory
  <2>2. QED
    BY <1>1, <2>1 DEF Sees
<1>7. QED
  BY <1>2, <1>3, <1>4, <1>5, <1>6, GoesOnReads

\* No view has the table among its sources.
LEMMA RemoveTableReads ==
  ASSUME ReadInv, SerialInv', NEW c \in Clients, RemoveTable(c)
  PROVE  ReadInv'
<1>1. PICK s, o : s = stmt[c] /\ o = stmt[c].obj
  OBVIOUS
<1>2. /\ \A e \in Clients : e # c => pc[e] = "idle"
      /\ TypeOK /\ o \in Ids /\ ViewsUsing(o[2]) = {}
  <2>1. pc[c] = "remove table"
    BY DEF RemoveTable, At
  <2>2. QED
    BY <1>1, <2>1, ReadsAlone DEF Sees, TypeOK, Statements
<1>3. /\ tables' = tables \ {o} /\ UNCHANGED <<work, schemas, views, disk>>
      /\ \/ Goto(c, "delete table") /\ UNCHANGED stmt
         \/ Finish(c) /\ o \notin tables
  BY <1>1 DEF RemoveTable
<1>4. \A v \in Ids : views[v] # None =>
        \A i \in 1..Len(views[v]) : i <= 2 => views[v][i] # o
  <2>1. SUFFICES ASSUME NEW v \in Ids, views[v] # None,
                        NEW i \in 1..Len(views[v]), i <= 2, views[v][i] = o
                 PROVE  FALSE
    OBVIOUS
  <2>2. Len(views[v]) \in Nat
    BY <1>2, <2>1 DEF TypeOK
  <2>3. i \in 1..2 /\ i <= Len(views[v])
    BY <2>1, <2>2
  <2>4. v \in ViewsUsing(o[2])
    BY <2>1, <2>3 DEF ViewsUsing, Live
  <2>5. QED
    BY <1>2, <2>4
<1>5. Sound(tables, views)'
  <2>1. PICK T, U, w : T = tables /\ U = tables' /\ w = views
    OBVIOUS
  <2>2. U = T \ {o} /\ views' = w
    BY <1>3, <2>1
  <2>3. \A v \in Ids : w[v] # None /\ Len(w[v]) = 1 => w[v][1] # o
    BY <1>4, <2>1
  <2>4. ASSUME NoCircle(T, w) PROVE NoCircle(U, w)
    BY <2>2, <2>3, <2>4, FewerCircles
  <2>5. ASSUME AllReadable(T, w) PROVE AllReadable(U, w)
    <3>1. ASSUME NEW v \in Ids, w[v] # None, NEW i \in 1..Len(w[v]) PROVE w[v][i] # o
      <4>1. Len(w[v]) <= 2 /\ Len(w[v]) \in Nat
        BY <1>2, <2>1, <2>5, <3>1 DEF AllReadable, TypeOK
      <4>2. i <= 2
        BY <3>1, <4>1
      <4>3. QED
        BY <1>4, <2>1, <3>1, <4>2
    <3>2. \A v \in Ids : w[v] # None =>
            IF Len(w[v]) = 1 THEN w[v][1] # o
                             ELSE \A i \in 1..Len(w[v]) : w[v][i] \in T => w[v][i] \in U
      BY <2>2, <2>3, <3>1
    <3>3. T \subseteq U \cup {o}
      BY <2>2
    <3>4. QED
      BY <1>2, <2>5, <3>2, <3>3, StillReadable
  <2>6. QED
    BY <1>3, <2>1, <2>2, <2>4, <2>5, SoundThen DEF ReadInv, Sound
<1>6. CASE Finish(c) /\ o \notin tables
  BY <1>2, <1>3, <1>6, FinishReads
<1>7. CASE Goto(c, "delete table") /\ UNCHANGED stmt
  <2>1. Knowing(c, s) /\ Sees("delete table", s)' /\ Sound(diskTables, Loaded)'
    BY <1>1, <1>2, <1>3, <1>7, SameNotes, StaysSound DEF Sees
  <2>2. QED
    BY <1>2, <1>3, <1>5, <1>7, <2>1, GoesOnReads
<1>8. QED
  BY <1>3, <1>6, <1>7

----------------------------------------------------------------------------
(* Which views can be read: views                                          *)

LEMMA CheckViewReads ==
  ASSUME ReadInv, SerialInv', NEW c \in Clients, CheckView(c)
  PROVE  ReadInv'
<1>1. PICK v \in Ids, q \in work.texts, session \in Schemas :
        /\ \/ Begin(c, "create view") /\ Goto(c, "add view")
           \/ Begin(c, "replace view")
        /\ session = v[1] \/ work.away
        /\ Answers(Qualify(q, session), Selectable)
        /\ Knowing(c, [Naming(v) EXCEPT
              !.text = q,
              !.pinned = Qualify(q, IF session = Public THEN v[1] ELSE session)])
        /\ UNCHANGED <<work, memory, disk>>
  BY Zenon DEF CheckView
<1>2. ~work.away /\ \A kind : Begin(c, kind) => kind # "replace view"
  BY PlainMeans DEF ReadInv, Serial, Begin
<1>3. PICK pinned : pinned = Qualify(q, session)
  OBVIOUS
<1>4. PICK s : s = [Naming(v) EXCEPT !.text = q, !.pinned = pinned]
  OBVIOUS
<1>5. s.pinned = pinned
  BY <1>4 DEF Naming, NoStatement
<1>6. Goto(c, "add view") /\ Knowing(c, s)
  BY <1>1, <1>2, <1>3, <1>4
<1>7. (\A e \in Clients : e # c => pc[e] = "idle") /\ TypeOK
  BY <1>1, ReadsAlone
<1>8. Careful => Len(pinned) <= 2
  <2>1. q \in Seq(Sources)
    BY <1>1, <1>7, WorksAssumption DEF TypeOK
  <2>2. Len(pinned) = Len(q)
    BY <1>3, <2>1 DEF Qualify
  <2>3. QED
    BY <1>1, <2>2 DEF Careful
<1>9. \A S \in SUBSET Ids : ClosedIn(S, tables, views) => AnswersIn(tables, pinned, S)
  BY <1>1, <1>3, AnswersMeans
<1>10. Sees("add view", s)
  BY <1>5, <1>8, <1>9 DEF Sees
<1>11. QED
  BY <1>1, <1>6, <1>7, <1>10, LooksReads

\* The view's sources can still be read, and are not the view.
LEMMA AddViewReads ==
  ASSUME ReadInv, SerialInv', NEW c \in Clients, AddView(c)
  PROVE  ReadInv'
<1>1. PICK s, v : s = stmt[c] /\ v = stmt[c].obj
  OBVIOUS
<1>2. /\ \A e \in Clients : e # c => pc[e] = "idle"
      /\ TypeOK /\ v \in Ids /\ s \in Statements /\ Sees("add view", s)
  <2>1. pc[c] = "add view"
    BY DEF AddView, At
  <2>2. QED
    BY <1>1, <2>1, ReadsAlone DEF TypeOK, Statements
<1>3. /\ UNCHANGED <<work, tables, disk>>
      /\ \/ Finish(c) /\ UNCHANGED views
         \/ /\ v \notin tables \cup Live
            /\ views' = [views EXCEPT ![v] = s.pinned]
            /\ Goto(c, "save view") /\ UNCHANGED stmt
  BY <1>1 DEF AddView
<1>4. CASE Finish(c) /\ UNCHANGED views
  BY <1>2, <1>3, <1>4, FinishReads
<1>5. CASE /\ v \notin tables \cup Live /\ views' = [views EXCEPT ![v] = s.pinned]
           /\ Goto(c, "save view") /\ UNCHANGED stmt
  <2>1. PICK T, w, x : T = tables /\ w = views /\ x = views'
    OBVIOUS
  <2>2. /\ T \subseteq Ids /\ v \notin T /\ w[v] = None /\ x[v] = s.pinned
        /\ \A u \in Ids : u # v => x[u] = w[u]
    BY <1>2, <1>5, <2>1 DEF TypeOK, Live
  <2>3. /\ \A S \in SUBSET Ids : ClosedIn(S, T, w) => AnswersIn(T, s.pinned, S)
        /\ Careful => Len(s.pinned) <= 2
    BY <1>2, <2>1 DEF Sees
  <2>4. NoCircle(T, w) => NoCircle(T, x)
    BY <1>2, <2>2, <2>3, AddsNoCircle
  <2>5. ASSUME Careful, AllReadable(T, w) PROVE AllReadable(T, x)
    <3>1. \A u \in Ids :
            \/ x[u] = w[u]
            \/ /\ w[u] = None /\ Len(x[u]) <= 2
               /\ \A S \in SUBSET Ids : ClosedIn(S, T, w) => AnswersIn(T, x[u], S)
      BY <2>2, <2>3, <2>5
    <3>2. QED
      BY <2>5, <3>1, MoreReadable
  <2>6. Sound(tables, views)' /\ Sound(diskTables, Loaded)'
    <3>1. tables' = T
      BY <1>3, <2>1
    <3>2. QED
      BY <1>3, <2>1, <2>4, <2>5, <3>1, SoundThen, StaysSound DEF ReadInv, Sound
  <2>7. Knowing(c, s) /\ Sees("save view", s)'
    BY <1>1, <1>2, <1>5, SameNotes DEF Sees
  <2>8. QED
    BY <1>2, <1>3, <1>5, <2>6, <2>7, GoesOnReads
<1>6. QED
  BY <1>3, <1>4, <1>5


LEMMA CheckDropViewReads ==
  ASSUME ReadInv, SerialInv', NEW c \in Clients, CheckDropView(c)
  PROVE  ReadInv'
<1>1. PICK v \in Ids :
        /\ \/ Begin(c, "drop view") /\ Goto(c, "remove view")
           \/ Begin(c, "drop view cascade") /\ Goto(c, "cascade view")
        /\ Knowing(c, [Naming(v) EXCEPT !.todo = DependentViews(v[2])])
        /\ UNCHANGED <<work, memory, disk>>
  BY Zenon DEF CheckDropView
<1>2. PICK s : s = [Naming(v) EXCEPT !.todo = DependentViews(v[2])]
  OBVIOUS
<1>3. \A e \in Clients : e # c => pc[e] = "idle"
  BY <1>1, ReadsAlone
<1>4. CASE Goto(c, "remove view")
  <2>1. Sees("remove view", s)
    BY DEF Sees
  <2>2. QED
    BY <1>1, <1>2, <1>3, <1>4, <2>1, LooksReads
<1>5. CASE Begin(c, "drop view cascade") /\ Goto(c, "cascade view")
  <2>1. ~Careful
    BY <1>5, PlainMeans DEF ReadInv, Begin
  <2>2. Sees("cascade view", s)
    BY <2>1 DEF Sees
  <2>3. QED
    BY <1>1, <1>2, <1>3, <1>5, <2>2, LooksReads
<1>6. QED
  BY <1>1, <1>4, <1>5

\* Without CASCADE only a view goes that no view reads.
LEMMA RemoveViewReads ==
  ASSUME ReadInv, SerialInv', NEW c \in Clients, RemoveView(c)
  PROVE  ReadInv'
<1>1. PICK s, v, gone, cascade :
        /\ s = stmt[c] /\ v = stmt[c].obj
        /\ gone = {stmt[c].obj} \cup DependentViews(stmt[c].obj[2])
        /\ cascade = At(c, "cascade view")
  OBVIOUS
<1>2. /\ \A e \in Clients : e # c => pc[e] = "idle"
      /\ TypeOK /\ v \in Ids /\ s \in Statements /\ (Careful => ~cascade)
  <2>1. pc[c] # "idle"
    BY DEF RemoveView, At
  <2>2. Sees(pc[c], stmt[c]) /\ TypeOK
    BY <2>1, ReadsAlone
  <2>3. Careful => ~cascade
    BY <1>1, <2>2 DEF Sees, At
  <2>4. QED
    BY <1>1, <2>1, <2>2, <2>3, ReadsAlone DEF TypeOK, Statements
<1>3. /\ UNCHANGED <<work, schemas, tables, disk>>
      /\ \/ Finish(c) /\ UNCHANGED views
         \/ /\ ~cascade => DependentViews(v[2]) = {}
            /\ views' = [w \in Ids |-> IF w \in gone THEN None ELSE views[w]]
            /\ Goto(c, "delete view")
            /\ Knowing(c, [s EXCEPT !.todo = IF cascade THEN @ ELSE {}])
  BY <1>1 DEF RemoveView
<1>4. CASE Finish(c) /\ UNCHANGED views
  BY <1>2, <1>3, <1>4, FinishReads
<1>5. CASE /\ ~cascade => DependentViews(v[2]) = {}
           /\ views' = [w \in Ids |-> IF w \in gone THEN None ELSE views[w]]
           /\ Goto(c, "delete view")
           /\ Knowing(c, [s EXCEPT !.todo = IF cascade THEN @ ELSE {}])
  <2>1. PICK n, T, w, x : /\ n = [s EXCEPT !.todo = IF cascade THEN @ ELSE {}]
                          /\ T = tables /\ w = views /\ x = views'
    OBVIOUS
  <2>2. \A u \in Ids : x[u] = IF u \in gone THEN None ELSE w[u]
    BY <1>5, <2>1
  <2>3. NoCircle(T, w) => NoCircle(T, x)
    BY <2>2, FewerCircles
  <2>4. ASSUME Careful, AllReadable(T, w) PROVE AllReadable(T, x)
    <3>1. DependentViews(v[2]) = {} /\ gone = {v}
      BY <1>1, <1>2, <1>5, <2>4
    <3>2. \A u \in Ids : x[u] = w[u] \/ (u = v /\ x[u] = None)
      BY <2>2, <3>1
    <3>3. ASSUME NEW u \in Ids, x[u] # None
          PROVE  x[u][1] # v
      <4>1. u \in Live /\ x[u] = views[u]
        BY <2>1, <2>2, <3>3 DEF Live
      <4>2. QED
        BY <3>1, <4>1 DEF DependentViews
    <3>4. QED
      BY <1>2, <2>4, <3>2, <3>3, StillReadable
  <2>5. Sound(tables, views)' /\ Sound(diskTables, Loaded)'
    <3>1. tables' = T
      BY <1>3, <2>1
    <3>2. QED
      BY <1>3, <2>1, <2>3, <2>4, <3>1, SoundThen, StaysSound DEF ReadInv, Sound
  <2>6. Sees("delete view", n)'
    <3>1. Careful' => n.todo = {}
      BY <1>2, <1>3, <2>1, SoundThen DEF Statements
    <3>2. QED
      BY <3>1 DEF Sees
  <2>7. QED
    BY <1>2, <1>3, <1>5, <2>1, <2>5, <2>6, GoesOnReads
<1>6. QED
  BY <1>3, <1>4, <1>5

LEMMA DeleteViewReads ==
  ASSUME ReadInv, SerialInv', NEW c \in Clients, DeleteView(c)
  PROVE  ReadInv'
<1>1. PICK s, o : s = stmt[c] /\ o = stmt[c].obj
  OBVIOUS
<1>2. /\ \A e \in Clients : e # c => pc[e] = "idle"
      /\ TypeOK /\ o \in Ids /\ (Careful => s.todo = {})
  <2>1. pc[c] = "delete view"
    BY DEF DeleteView, At
  <2>2. QED
    BY <1>1, <2>1, ReadsAlone DEF Sees, TypeOK, Statements
<1>3. /\ diskViews' = [diskViews EXCEPT ![o] = None]
      /\ UNCHANGED <<work, memory, diskTables, metaSchemas, metaTables>>
      /\ \/ s.todo = {} /\ Finish(c)
         \/ s.todo # {} /\ Goto(c, "delete dependents") /\ UNCHANGED stmt
  BY <1>1 DEF DeleteView
<1>4. CASE Finish(c)
  BY <1>2, <1>3, <1>4, FinishReads
<1>5. CASE s.todo # {} /\ Goto(c, "delete dependents") /\ UNCHANGED stmt
  <2>1. ~Careful
    BY <1>2, <1>5
  <2>2. Sound(tables, views)' /\ Sound(diskTables, Loaded)'
    BY <1>2, <1>3, <2>1, StaysSound, FewerKeys
  <2>3. Knowing(c, s)
    BY <1>1, <1>2, <1>5, SameNotes
  <2>4. Sees("delete dependents", s)'
    <3>1. ~Careful'
      BY <1>3, <2>1, SoundThen
    <3>2. QED
      BY <3>1 DEF Sees
  <2>5. QED
    BY <1>2, <1>3, <1>5, <2>2, <2>3, <2>4, GoesOnReads
<1>6. QED
  BY <1>3, <1>4, <1>5

LEMMA DeleteDependentsReads ==
  ASSUME ReadInv, SerialInv', NEW c \in Clients, DeleteDependents(c)
  PROVE  ReadInv'
<1>1. PICK s : s = stmt[c]
  OBVIOUS
<1>2. /\ \A e \in Clients : e # c => pc[e] = "idle"
      /\ pc[c] = "delete dependents" /\ TypeOK /\ s.todo \subseteq Ids /\ ~Careful
  <2>1. pc[c] = "delete dependents"
    BY DEF DeleteDependents, At
  <2>2. QED
    BY <1>1, <2>1, ReadsAlone DEF Sees, TypeOK, Statements
<1>3. PICK v \in s.todo :
        /\ diskViews' = [diskViews EXCEPT ![v] = None]
        /\ Finish(c) \/ (Knowing(c, [s EXCEPT !.todo = @ \ {v}]) /\ UNCHANGED pc)
        /\ UNCHANGED <<work, memory, diskTables, metaSchemas, metaTables>>
  BY <1>1 DEF DeleteDependents
<1>4. CASE Finish(c)
  BY <1>2, <1>3, <1>4, FinishReads
<1>5. CASE Knowing(c, [s EXCEPT !.todo = @ \ {v}]) /\ UNCHANGED pc
  <2>1. Sound(tables, views)' /\ Sound(diskTables, Loaded)'
    BY <1>2, <1>3, StaysSound, FewerKeys
  <2>2. Goto(c, "delete dependents")
    BY <1>2, <1>5 DEF Goto, TypeOK
  <2>3. Sees("delete dependents", [s EXCEPT !.todo = @ \ {v}])'
    <3>1. ~Careful'
      BY <1>2, <1>3, SoundThen
    <3>2. QED
      BY <3>1 DEF Sees
  <2>4. QED
    BY <1>2, <1>3, <1>5, <2>1, <2>2, <2>3, GoesOnReads
<1>6. QED
  BY <1>3, <1>4, <1>5

----------------------------------------------------------------------------
(* Which views can be read: a restart, and every step                      *)

\* A crash takes back the statement, or lets it stand.
LEMMA RestartReads ==
  ASSUME ReadInv, SerialInv', Restart
  PROVE  ReadInv'
<1>1. /\ work' = work /\ tables' = diskTables' /\ views' = Loaded
      /\ \A c \in Clients : pc'[c] = "idle"
      /\ \/ diskTables' = diskTables
         \/ work.torn /\ \E c \in Clients : diskTables' \in HalfWritten(c)
  BY DEF Restart, Loaded
<1>2. TypeOK /\ Housed /\ ~Wide(work)
  BY PlainMeans DEF ReadInv, SerialInv
<1>3. CASE diskTables' = diskTables
  <2>1. Sound(tables, views)' /\ Plain'
    BY <1>1, <1>3, SoundThen DEF ReadInv, Sound
  <2>2. QED
    BY <1>1, <2>1, RestReads
<1>4. ASSUME NEW c \in Clients, diskTables' \in HalfWritten(c), diskTables' # diskTables
      PROVE  ReadInv'
  <2>1. PICK o : o = stmt[c].obj
    OBVIOUS
  <2>2. pc[c] \in {"save table", "delete table", "delete schema"}
    BY <1>4 DEF HalfWritten, At
  <2>3. Open(pc[c], stmt[c]) /\ o \in Ids
    BY <1>2, <2>1, <2>2 DEF ReadInv, SerialInv, TypeOK, Statements
  <2>4. pc[c] # "delete schema"
    <3>1. ASSUME pc[c] = "delete schema" PROVE FALSE
      <4>1. \A t \in diskTables : t[1] # o[1]
        BY <1>2, <2>1, <2>3, <3>1 DEF Open
      <4>2. PICK gone \in SUBSET {t \in diskTables \cap metaTables : t[1] = o[1] /\ o[1] \in metaSchemas} :
              diskTables' = diskTables \ gone
        BY <1>4, <2>1, <3>1 DEF HalfWritten, At
      <4>3. QED
        BY <1>4, <4>1, <4>2
    <3>2. QED
      BY <3>1
  <2>5. /\ diskTables' = IF pc[c] = "save table" THEN diskTables \cup {o} ELSE diskTables \ {o}
        /\ o \in tables <=> pc[c] = "save table"
        /\ \E r : SettledBut({r}, {o}, {}) \/ SettledBut({}, {o}, {})
    BY <1>4, <2>1, <2>2, <2>3, <2>4 DEF HalfWritten, At, Open
  <2>6. tables' = tables /\ views' = views
    <3>1. /\ \A t \in Ids \ {o} : t \in tables <=> t \in diskTables
          /\ \A v \in Ids : views[v] = Loaded[v]
      BY <2>5 DEF SettledBut, Loaded
    <3>2. views = [v \in Ids |-> views[v]] /\ Loaded = [v \in Ids |-> Loaded[v]]
      BY <1>2 DEF TypeOK, Loaded
    <3>3. views' = views
      BY <1>1, <3>1, <3>2
    <3>4. tables \subseteq Ids /\ diskTables \subseteq Ids
      BY <1>2 DEF TypeOK
    <3>5. QED
      BY <1>1, <2>3, <2>5, <3>1, <3>3, <3>4
  <2>7. Sound(tables, views)' /\ Plain'
    BY <1>1, <2>6, SoundThen DEF ReadInv, Sound
  <2>8. QED
    BY <1>1, <2>7, RestReads
<1>5. QED
  BY <1>1, <1>3, <1>4

LEMMA NextReads ==
  ASSUME ReadInv, [Next]_vars
  PROVE  ReadInv'
<1>1. SerialInv'
  BY PlainMeans, NextSerial DEF ReadInv
<1>2. \A c \in Clients : ~ReplaceInMemory(c) /\ ~ReplaceOnDisk(c)
  BY DEF ReadInv, Sees, ReplaceInMemory, ReplaceOnDisk, At
<1>3. ASSUME NEW c \in Clients, Schema(c) PROVE ReadInv'
  BY <1>1, <1>3, CreateSchemaReads, CheckSchemaReads, RemoveSchemaReads, DiskReads DEF Schema
<1>4. ASSUME NEW c \in Clients, Table(c) PROVE ReadInv'
  BY <1>1, <1>4, CreateTableReads, FetchTableReads, CheckTableReads, DropDependentReads,
     DeleteDependentReads, RemoveTableReads, DiskReads DEF Table
<1>5. ASSUME NEW c \in Clients, View(c) PROVE ReadInv'
  BY <1>1, <1>2, <1>5, CheckViewReads, AddViewReads, CheckDropViewReads, RemoveViewReads,
     DeleteViewReads, DeleteDependentsReads, DiskReads DEF View
<1>6. CASE Restart
  BY <1>1, <1>6, RestartReads
<1>7. CASE UNCHANGED vars
  <2>1. work' = work /\ tables' = tables /\ views' = views
        /\ diskTables' = diskTables /\ diskViews' = diskViews /\ pc' = pc /\ stmt' = stmt
    BY <1>7 DEF vars
  <2>2. Sound(tables, views)' /\ Sound(diskTables, Loaded)' /\ Plain'
    BY <2>1, SoundThen, StaysSound DEF ReadInv
  <2>3. ASSUME NEW c \in Clients PROVE Sees(pc[c], stmt[c])'
    <3>1. PICK step, t : step = pc[c] /\ t = stmt[c]
      OBVIOUS
    <3>2. Sees(step, t)
      BY <3>1 DEF ReadInv
    <3>3. Sees(step, t)'
      BY <2>1, <3>2, SeesStays
    <3>4. QED
      BY <2>1, <3>1, <3>3 DEF Sees
  <2>4. QED
    BY <1>1, <2>2, <2>3 DEF ReadInv
<1>8. QED
  BY <1>3, <1>4, <1>5, <1>6, <1>7 DEF Next

\* No circle, and every view can be read.
LEMMA ReadMeans ==
  ASSUME ReadInv
  PROVE  /\ \A S \in SUBSET Live : ~Loop(S)
         /\ Careful => Live \subseteq Selectable
<1>1. NoCircle(tables, views) /\ (Careful => AllReadable(tables, views))
  BY DEF ReadInv, Sound
<1>2. \A S \in SUBSET Live : ~Loop(S)
  BY <1>1 DEF NoCircle, Loop, Live
<1>3. ASSUME Careful, NEW v \in Live, NEW S \in SUBSET Ids, Closed(S) PROVE v \in S
  <2>1. ClosedIn(S, tables, views)
    BY <1>3 DEF Closed, ClosedIn, Answers, AnswersIn, Live
  <2>2. AnswersIn(tables, views[v], S)
    BY <1>1, <1>3, <2>1 DEF AllReadable, Live
  <2>3. QED
    BY <1>3, <2>1, <2>2 DEF ClosedIn, Live
<1>4. QED
  BY <1>2, <1>3 DEF Selectable, Live


----------------------------------------------------------------------------
(* The theorems                                                            *)

\* Types: every step of every statement, a crash at any step and the load that
\* follows it leave schemas, tables, views and keys that there can be, and every
\* view in memory with qualified sources.
THEOREM TypeCorrect == Spec => []TypeOK
  BY InitType, NextType, PTL DEF Spec

\* Schemas, tables and views that no statement is at work on come back from a
\* restart as they are, and those of an interrupted statement as they were
\* before or after one of its steps: for one statement at a time, and a crash
\* between any two of its steps or inside a write.
THEOREM ViewsAreDurable == Spec /\ Serial(work) => DurableSpec
<1>1. Init /\ Serial(work) => Durable!Init
  BY InitSerial
<1>2. Init /\ Serial(work) => SerialInv
  BY InitSerial
<1>3. Serial(work) /\ SerialInv /\ [Next]_vars => SerialInv' /\ Serial(work)'
  BY NextSerial
<1>4. Serial(work) /\ SerialInv /\ [Next]_vars
        => [Durable!Next]_<<[o \in Objects |-> InMemory(o)],
                            [o \in Objects |-> {InMemory(o), OnDisk(o)}],
                            UNION {Touched(c) : c \in Clients}>>
  BY NextSerial
<1>5. QED
  BY <1>1, <1>2, <1>3, <1>4, PTL DEF Spec, DurableSpec, Durable!Spec

\* So they do while any number of sessions create tables, and schemas or views, at
\* once, in schemas that exist or that CREATE TABLE makes: what is in memory and
\* not yet on disk, the statement that made it saves (SaveTable, SaveSchema,
\* SaveView of pebble_storage.go).
THEOREM GrowingViewsAreDurable == Spec /\ Growing(work) => DurableSpec
<1>1. Init /\ Growing(work) => Durable!Init
  BY InitMeans
<1>2. Init /\ Growing(work) => GrowInv
  BY InitGrows
<1>3. Growing(work) /\ GrowInv /\ [Next]_vars => GrowInv' /\ Growing(work)'
  BY NextGrows
<1>4. Growing(work) /\ GrowInv /\ [Next]_vars
        => [Durable!Next]_<<[o \in Objects |-> InMemory(o)],
                            [o \in Objects |-> {InMemory(o), OnDisk(o)}],
                            UNION {Touched(c) : c \in Clients}>>
  BY NextGrows
<1>5. QED
  BY <1>1, <1>2, <1>3, <1>4, PTL DEF Spec, DurableSpec, Durable!Spec

\* No view reads itself, directly or through other views, whatever is created,
\* dropped and lost in crashes, as long as no statement is an OR REPLACE or a
\* DROP SCHEMA CASCADE: CREATE VIEW has run the SELECT first (executeCreateView).
THEOREM ViewsEnd == Spec => []NoLoops
<1>1. Init /\ Plain => ReadInv
  BY InitReads
<1>2. ReadInv /\ [Next]_vars => ReadInv'
  BY NextReads
<1>3. ReadInv => NoLoops
  BY ReadMeans DEF NoLoops
<1>4. ~Plain /\ [Next]_vars => ~Plain'
  BY WorkStays DEF Plain, Without
<1>5. ~Plain => NoLoops
  BY DEF Plain, NoLoops
<1>6. QED
  BY <1>1, <1>2, <1>3, <1>4, <1>5, PTL DEF Spec

\* RESTRICT keeps every view readable: with no CASCADE and no OR REPLACE, and at
\* most one JOIN in a view, no statement takes a source from under one.
THEOREM ViewsKeepTheirSources == Spec => ViewsStayReadable
<1>1. Init /\ Plain => ReadInv
  BY InitReads
<1>2. ReadInv /\ [Next]_vars => ReadInv'
  BY NextReads
<1>3. (ReadInv => (Careful => Live \subseteq Selectable))'
  BY ReadMeans, PTL
<1>4. ReadInv' /\ [Next]_vars => [Careful => \A v \in Live \cap Selectable :
                                   views'[v] = views[v] => v \in Selectable']_vars
  <2>1. SUFFICES ASSUME ReadInv', [Next]_vars, Careful, NEW v \in Live, views'[v] = views[v]
                 PROVE  v \in Selectable'
    OBVIOUS
  <2>2. v \in Live'
    BY <2>1 DEF Live
  <2>3. Careful'
    BY <2>1, WorkStays, SoundThen
  <2>4. QED
    BY <1>3, <2>1, <2>2, <2>3
<1>5. ~Plain /\ [Next]_vars => ~Plain'
  BY WorkStays DEF Plain, Without
<1>6. ~Plain => ~Careful
  BY DEF Plain, Careful, Without
<1>7. ~Plain => [Careful => \A v \in Live \cap Selectable :
                   views'[v] = views[v] => v \in Selectable']_vars
  BY <1>6
<1>8. QED
  BY <1>1, <1>2, <1>4, <1>5, <1>7, PTL DEF Spec, ViewsStayReadable
=============================================================================
