-------------------------- MODULE TableStoreProofs --------------------------
(***************************************************************************)
(* For any tables, clients and bounds: types; and, for a workload without  *)
(* DROP TABLE, what is saved stays saved.  Without the column changes that *)
(* are applied to the disk a second time, memory and disk agree at rest.   *)
(***************************************************************************)
EXTENDS TableStore, TLAPS

USE DEF None

----------------------------------------------------------------------------
(* Types                                                                   *)

LEMMA InitType == Init => TypeOK
  BY BoundsAssumption
  DEF Init, TypeOK, Gens, Blank, Contents, Absent, Changes, Stored, Steps, Saves

LEMMA GensAreNumbers ==
  ASSUME TypeOK, NEW t \in Tables
  PROVE  /\ last[t] \in Nat /\ tbl[t] \in Nat /\ last[t] <= MaxGens
         /\ tbl[t] <= last[t] /\ 0 \in 0..last[t]
         /\ 1..last[t] \subseteq Gens
         /\ tbl[t] # None => tbl[t] \in 1..last[t] /\ tbl[t] \in Gens
<1>1. last[t] \in 0..MaxGens /\ tbl[t] \in 0..last[t]
  BY DEF TypeOK
<1>2. QED
  BY <1>1, BoundsAssumption DEF Gens

\* One table's contents change.
LEMMA HeapType ==
  ASSUME TypeOK, NEW t \in Tables, NEW g \in Gens, NEW x \in Contents,
         heap' = [heap EXCEPT ![t][g] = x]
  PROVE  heap' \in [Tables -> [Gens -> Contents]]
<1>1. [heap[t] EXCEPT ![g] = x] \in [Gens -> Contents]
  BY DEF TypeOK
<1>2. QED
  BY <1>1 DEF TypeOK

LEMMA ChangeType ==
  ASSUME TypeOK, UNCHANGED work, NEW c \in Clients, NEW t \in Tables, NEW change \in Changes,
         ChangeColumns(c, t, change), NEW kind, Begin(c, kind, t),
         NEW s \in {"retrieve", "retrieveAlter"}, Goto(c, s)
  PROVE  TypeOK'
<1> DEFINE x == [heap[t][tbl[t]] EXCEPT !.cols = Replaced(@, change)]
<1>1. tbl[t] \in Gens
  BY GensAreNumbers DEF ChangeColumns
<1>2. heap[t][tbl[t]] \in Contents
  BY <1>1 DEF TypeOK
<1>3. Replaced(heap[t][tbl[t]].cols, change) \in SUBSET Columns
  BY <1>2 DEF Replaced, Changes, Contents
<1>4. x \in Contents
  BY <1>2, <1>3 DEF Contents
<1>5. heap' = [heap EXCEPT ![t][tbl[t]] = x]
  BY DEF ChangeColumns
<1>6. heap' \in [Tables -> [Gens -> Contents]]
  BY <1>1, <1>4, <1>5, HeapType
<1>7. QED
  BY <1>6 DEF ChangeColumns, Begin, Goto, TypeOK, Steps, Saves, held

LEMMA BumpType ==
  ASSUME TypeOK, NEW t \in Tables, NEW g \in Gens, Bump(t, g)
  PROVE  heap' \in [Tables -> [Gens -> Contents]]
<1> DEFINE x == [heap[t][g] EXCEPT !.ver = @ + 1]
<1>1. heap[t][g] \in Contents
  BY DEF TypeOK
<1>3. x \in Contents
  BY <1>1 DEF Contents
<1>2. heap' = [heap EXCEPT ![t][g] = x]
  BY DEF Bump
<1>4. QED
  BY <1>2, <1>3, HeapType

\* One key is set.
LEMMA KeyType ==
  ASSUME TypeOK, NEW t \in Tables, NEW k \in Stored, k.gen \in 0..last[t],
         key' = [key EXCEPT ![t] = k]
  PROVE  /\ key' \in [Tables -> Stored]
         /\ \A s \in Tables : key'[s].gen \in 0..last[s]
  BY DEF TypeOK

LEMMA StoreType ==
  ASSUME TypeOK, NEW t \in Tables, NEW g \in 1..last[t], Store(t, g)
  PROVE  /\ key' \in [Tables -> Stored]
         /\ \A s \in Tables : key'[s].gen \in 0..last[s]
<1>1. g \in Gens /\ g \in 0..last[t] /\ g \in 0..MaxGens
  BY GensAreNumbers DEF Gens
<1>2. heap[t][g] \in Contents
  BY <1>1 DEF TypeOK
<1> DEFINE k == [gen |-> g, data |-> heap[t][g]]
<1>3. k \in Stored /\ k.gen \in 0..last[t]
  BY <1>1, <1>2 DEF Stored
<1>4. key' = [key EXCEPT ![t] = k]
  BY DEF Store
<1> HIDE DEF k
<1>5. QED
  BY <1>3, <1>4, KeyType

LEMMA NextType == TypeOK /\ [Next]_vars => TypeOK'
<1> SUFFICES ASSUME TypeOK, [Next]_vars PROVE TypeOK'
  OBVIOUS
<1> USE DEF Goto, held, args
<1>0. work' = work
  BY DEF Next, vars
<1> USE <1>0
<1>1. ASSUME NEW c \in Clients, NEW t \in Tables, NEW refs \in SUBSET Tables,
             CreateTable(c, t, refs)
      PROVE  TypeOK'
  <2> DEFINE g == last[t] + 1
  <2>0. last[t] \in Nat /\ g <= MaxGens
    BY <1>1, GensAreNumbers DEF CreateTable
  <2>1. g \in Gens
    BY <2>0, BoundsAssumption DEF Gens
  <2>2. last' \in [Tables -> 0..MaxGens] /\ last'[t] = last[t] + 1
        /\ \A s \in Tables : last[s] \in Nat /\ last'[s] \in Nat /\ last[s] <= last'[s]
    <3>1. last' = [last EXCEPT ![t] = g] /\ last \in [Tables -> 0..MaxGens]
      BY <1>1 DEF CreateTable, TypeOK
    <3>2. QED
      BY <2>1, <3>1, GensAreNumbers DEF Gens
  <2>7. [ver |-> 0, cols |-> {}, refs |-> refs] \in Contents
    BY DEF Contents
  <2>3. heap' \in [Tables -> [Gens -> Contents]]
    BY <1>1, <2>1, <2>7, HeapType DEF CreateTable
  <2>4. tbl' \in [Tables -> 0..MaxGens]
        /\ \A s \in Tables : tbl'[s] \in 0..last'[s] /\ key'[s].gen \in 0..last'[s]
    <3>1. tbl' = [tbl EXCEPT ![t] = g] /\ key' = key /\ tbl \in [Tables -> 0..MaxGens]
      BY <1>1 DEF CreateTable, TypeOK
    <3>2. \A s \in Tables : tbl[s] \in 0..last[s] /\ key[s].gen \in 0..last[s]
      BY DEF TypeOK
    <3>3. QED
      BY <2>0, <2>1, <2>2, <3>1, <3>2 DEF Gens
  <2>5. \A d \in Clients : pc'[d] \in Saves \cup {"write"} =>
          gen'[d] \in 1..last'[at'[d]]
    BY <1>1, <2>2 DEF CreateTable, Begin, TypeOK, Saves
  <2>6. QED
    BY <1>1, <2>2, <2>3, <2>4, <2>5 DEF CreateTable, Begin, TypeOK, Steps
<1>2. ASSUME NEW c \in Clients, Retrieve(c) PROVE TypeOK'
  BY <1>2 DEF Retrieve, Hold, TypeOK, Steps, Saves
<1>3. ASSUME NEW c \in Clients, Save(c) PROVE TypeOK'
  <2>1. gen[c] \in 1..last[at[c]] /\ at[c] \in Tables
    BY <1>3 DEF Save, TypeOK
  <2>2. /\ key' \in [Tables -> Stored]
        /\ \A s \in Tables : key'[s].gen \in 0..last[s]
    BY <1>3, <2>1, StoreType DEF Save
  <2>3. AfterSave(pc[c]) \in Steps \ (Saves \cup {"write"})
    BY <1>3 DEF Save, AfterSave, Saves, Steps
  <2>4. QED
    BY <1>3, <2>2, <2>3 DEF Save, TypeOK
<1>4. ASSUME NEW c \in Clients, NEW t \in Tables, Lookup(c, t) PROVE TypeOK'
  BY <1>4 DEF Lookup, Begin, Hold, TypeOK, Steps, Saves
<1>5. ASSUME NEW c \in Clients, Write(c) PROVE TypeOK'
  <2>4. at[c] \in Tables /\ gen[c] \in 1..last[at[c]]
    BY <1>5 DEF Write, TypeOK
  <2>1. gen[c] \in Gens /\ at[c] \in Tables
    BY <2>4, GensAreNumbers
  <2>2. heap' \in [Tables -> [Gens -> Contents]]
    BY <1>5, <2>1, BumpType DEF Write
  <2>3. QED
    BY <1>5, <2>2 DEF Write, TypeOK
<1>6. ASSUME NEW c \in Clients, EndWrite(c) PROVE TypeOK'
  BY <1>6 DEF EndWrite, TypeOK, Steps, Saves
<1>7. ASSUME NEW c \in Clients, NEW t \in Tables, Alter(c, t) PROVE TypeOK'
  <2>1. tbl[t] \in Gens
    BY <1>7, GensAreNumbers DEF Alter
  <2>2. heap' \in [Tables -> [Gens -> Contents]]
    BY <1>7, <2>1, BumpType DEF Alter
  <2>3. QED
    BY <1>7, <2>2 DEF Alter, Begin, TypeOK, Steps, Saves
<1>8. ASSUME NEW c \in Clients, NEW t \in Tables, NEW m \in Columns, NEW n \in Columns,
             AddColumn(c, t, n) \/ DropColumn(c, t, n) \/ RenameColumn(c, t, m, n)
      PROVE  TypeOK'
  BY <1>8, ChangeType DEF AddColumn, DropColumn, RenameColumn, Changes
<1>9. ASSUME NEW c \in Clients, ColumnData(c) PROVE TypeOK'
  <2> DEFINE t == name[c]
             k == [key[t] EXCEPT !.data.cols = Replaced(@, col[c])]
  <2>3. key[t] \in Stored /\ key[t].data.cols \in SUBSET Columns /\ key[t].gen \in 0..last[t]
    BY DEF TypeOK, Stored, Contents
  <2>4. Replaced(key[t].data.cols, col[c]) \in SUBSET Columns
    BY <2>3 DEF Replaced, TypeOK, Changes
  <2>5. k \in Stored /\ k.gen = key[t].gen
    BY <2>3, <2>4 DEF Stored, Contents
  <2>6. UNCHANGED key \/ key' = [key EXCEPT ![t] = k]
    BY <1>9 DEF ColumnData
  <2>1. key' \in [Tables -> Stored] /\ \A s \in Tables : key'[s].gen \in 0..last[s]
    BY <2>3, <2>5, <2>6, KeyType DEF TypeOK
  <2>2. QED
    BY <1>9, <2>1 DEF ColumnData, TypeOK, Steps, Saves
<1>10. ASSUME NEW c \in Clients, NEW t \in Tables, NEW cascade \in BOOLEAN,
              DropCheck(c, t, cascade)
       PROVE  TypeOK'
  BY <1>10 DEF DropCheck, Begin, TypeOK, Steps, Saves
<1>11. ASSUME NEW c \in Clients, Detach(c) PROVE TypeOK'
  <2>1. Dependents(name[c]) \in SUBSET Tables
    BY DEF Dependents
  <2>2. ASSUME NEW s \in Dependents(name[c])
        PROVE  [heap[s] EXCEPT ![tbl[s]].refs = @ \ {name[c]}] \in [Gens -> Contents]
    <3>1. s \in Tables /\ tbl[s] \in Gens /\ heap[s] \in [Gens -> Contents]
      BY GensAreNumbers DEF Dependents, TypeOK
    <3>2. [heap[s][tbl[s]] EXCEPT !.refs = @ \ {name[c]}] \in Contents
      BY <3>1 DEF Contents
    <3>3. QED
      BY <3>1, <3>2
  <2>3. heap' \in [Tables -> [Gens -> Contents]]
    BY <1>11, <2>2 DEF Detach, TypeOK
  <2>4. QED
    BY <1>11, <2>1, <2>3 DEF Detach, TypeOK, Steps, Saves
<1>12. ASSUME NEW c \in Clients, NEW s \in Tables, RetrieveDependent(c, s) PROVE TypeOK'
  BY <1>12, GensAreNumbers DEF RetrieveDependent, Hold, TypeOK, Steps, Saves
<1>13. ASSUME NEW c \in Clients, DropTable(c) PROVE TypeOK'
  BY <1>13, GensAreNumbers, BoundsAssumption DEF DropTable, TypeOK, Steps, Saves
<1>14. ASSUME NEW c \in Clients, DeleteTable(c) PROVE TypeOK'
  <2>4. name[c] \in Tables /\ 0 \in 0..last[name[c]]
    BY GensAreNumbers DEF TypeOK
  <2>1. Absent \in Stored /\ Absent.gen = 0
    BY BoundsAssumption DEF Absent, Stored, Contents, Blank
  <2>2. key' \in [Tables -> Stored]
        /\ \A s \in Tables : key'[s].gen \in 0..last[s]
    BY <1>14, <2>1, <2>4, KeyType DEF DeleteTable
  <2>3. QED
    BY <1>14, <2>2 DEF DeleteTable, TypeOK, Steps, Saves
<1>15. ASSUME Restart PROVE TypeOK'
  <2>1. ASSUME NEW t \in Tables, key[t].gen # None
        PROVE  [heap[t] EXCEPT ![key[t].gen] = key[t].data] \in [Gens -> Contents]
    <3>1. key[t] \in Stored /\ heap[t] \in [Gens -> Contents]
      BY DEF TypeOK
    <3>2. QED
      BY <3>1 DEF Stored
  <2>3. heap' \in [Tables -> [Gens -> Contents]]
    BY <1>15, <2>1 DEF Restart, TypeOK
  <2>2. QED
    BY <1>15, <2>3 DEF Restart, TypeOK, Steps, Saves, Stored
<1>16. ASSUME UNCHANGED vars PROVE TypeOK'
  BY <1>16 DEF vars, TypeOK
<1>17. QED
  BY <1>1, <1>2, <1>3, <1>4, <1>5, <1>6, <1>7, <1>8, <1>9, <1>10, <1>11, <1>12,
     <1>13, <1>14, <1>15, <1>16 DEF Next, Step, Start

\* No table, key or statement refers to a generation not yet created.
THEOREM TypeCorrect == Spec => []TypeOK
  BY InitType, NextType, PTL DEF Spec

----------------------------------------------------------------------------
(* Without DROP TABLE: a statement that holds a table holds the live one,  *)
(* and the disk holds nothing but earlier versions of live tables.  A      *)
(* restart depends on both: it makes whatever lies on disk live.           *)

HeldIsLive ==
  \A c \in Clients :
    /\ pc[c] \notin {"detach", "dependents", "saveDependent", "drop", "delete"}
    /\ todo[c] = {}
    /\ pc[c] \in {"retrieve", "retrieveAlter"} => tbl[name[c]] # None
    /\ pc[c] \in {"write", "save", "saveAlter"} =>
         at[c] = name[c] /\ tbl[name[c]] # None /\ gen[c] = tbl[name[c]]

KeyIsLive ==
  \A t \in Tables : key[t].gen # None =>
    key[t].gen = tbl[t] /\ key[t].data.ver <= heap[t][tbl[t]].ver

LiveInv == TypeOK /\ HeldIsLive /\ KeyIsLive

LEMMA InitLive == Init => LiveInv
<1> SUFFICES ASSUME Init PROVE LiveInv
  OBVIOUS
<1>1. HeldIsLive /\ KeyIsLive
  BY DEF Init, HeldIsLive, KeyIsLive, Absent
<1>2. QED
  BY <1>1, InitType DEF LiveInv

\* What a Contents record holds is a number and two sets.
LEMMA VersionsAreNumbers ==
  ASSUME TypeOK, NEW t \in Tables
  PROVE  /\ \A g \in Gens : heap[t][g] \in Contents /\ heap[t][g].ver \in Nat
         /\ key[t].data \in Contents /\ key[t].data.ver \in Nat
         /\ key[t].gen \in 0..last[t]
<1>1. key[t] \in Stored /\ key[t].gen \in 0..last[t] /\ heap[t] \in [Gens -> Contents]
  BY DEF TypeOK
<1>2. QED
  BY <1>1 DEF Stored, Contents

LEMMA NextLive ==
  ASSUME "drop" \notin work.kinds, LiveInv, [Next]_vars
  PROVE  LiveInv'
<1> USE DEF Goto, held, args
<1>0. TypeOK /\ HeldIsLive /\ KeyIsLive /\ TypeOK'
  BY NextType DEF LiveInv
<1>1. ASSUME NEW c \in Clients, NEW t \in Tables, NEW refs \in SUBSET Tables,
             CreateTable(c, t, refs)
      PROVE  HeldIsLive' /\ KeyIsLive'
  <2>1. tbl[t] = None /\ tbl' = [tbl EXCEPT ![t] = last[t] + 1] /\ tbl'[t] # None
        /\ name' = [name EXCEPT ![c] = t] /\ pc' = [pc EXCEPT ![c] = "retrieve"]
        /\ UNCHANGED <<key, at, gen, todo>> /\ pc[c] = "idle"
        /\ \A s \in Tables : s # t => tbl'[s] = tbl[s] /\ heap'[s] = heap[s]
    BY <1>0, <1>1, GensAreNumbers DEF CreateTable, Begin, TypeOK
  <2>2. key[t].gen = None
    BY <1>0, <2>1 DEF KeyIsLive
  <2>3. KeyIsLive'
    BY <1>0, <2>1, <2>2 DEF KeyIsLive
  <2>4. HeldIsLive'
    BY <1>0, <2>1 DEF HeldIsLive, TypeOK
  <2>5. QED
    BY <2>3, <2>4
<1>2. ASSUME NEW c \in Clients, Retrieve(c) PROVE HeldIsLive' /\ KeyIsLive'
  <2>1. KeyIsLive'
    BY <1>0, <1>2 DEF Retrieve, KeyIsLive
  <2>2. HeldIsLive'
    BY <1>0, <1>2 DEF Retrieve, Hold, HeldIsLive, TypeOK
  <2>3. QED
    BY <2>1, <2>2
<1>3. ASSUME NEW c \in Clients, Save(c) PROVE HeldIsLive' /\ KeyIsLive'
  <2> DEFINE t == name[c]
  <2>1. t \in Tables /\ at[c] = t /\ gen[c] = tbl[t] /\ tbl[t] # None /\ tbl[t] \in Gens
    BY <1>0, <1>3, GensAreNumbers DEF Save, HeldIsLive, Saves, TypeOK
  <2>2. key' = [key EXCEPT ![t] = [gen |-> tbl[t], data |-> heap[t][tbl[t]]]]
    BY <1>3, <2>1 DEF Save, Store
  <2>3. key'[t].gen = tbl[t] /\ key'[t].data.ver = heap[t][tbl[t]].ver
        /\ \A s \in Tables : s # t => key'[s] = key[s]
    BY <1>0, <2>1, <2>2 DEF TypeOK
  <2>4. KeyIsLive'
    BY <1>0, <1>3, <2>1, <2>3, VersionsAreNumbers DEF Save, KeyIsLive
  <2>5. AfterSave(pc[c]) \in {"idle", "columns"}
    BY <1>0, <1>3 DEF Save, HeldIsLive, Saves, AfterSave
  <2>6. HeldIsLive'
    BY <1>0, <1>3, <2>5 DEF Save, HeldIsLive, TypeOK
  <2>7. QED
    BY <2>4, <2>6
<1>4. ASSUME NEW c \in Clients, NEW t \in Tables, Lookup(c, t)
      PROVE  HeldIsLive' /\ KeyIsLive'
  <2>1. KeyIsLive'
    BY <1>0, <1>4 DEF Lookup, KeyIsLive
  <2>2. HeldIsLive'
    BY <1>0, <1>4 DEF Lookup, Begin, Hold, HeldIsLive, TypeOK
  <2>3. QED
    BY <2>1, <2>2
<1>a. ASSUME NEW t \in Tables, NEW g \in Gens, Bump(t, g), UNCHANGED <<tbl, key>>
      PROVE  KeyIsLive'
  <2>1. heap' = [heap EXCEPT ![t] = [heap[t] EXCEPT ![g] = [heap[t][g] EXCEPT !.ver = @ + 1]]]
    BY <1>a DEF Bump
  <2>2. \A s \in Tables, h \in Gens : heap'[s][h].ver >= heap[s][h].ver
    BY <1>0, <2>1, VersionsAreNumbers DEF TypeOK, Contents
  <2>3. \A s \in Tables, h \in Gens : heap'[s][h].ver \in Nat
    BY <1>0, VersionsAreNumbers DEF TypeOK, Contents
  <2>4. \A s \in Tables : key[s].gen # None => tbl[s] \in Gens
    BY <1>0, GensAreNumbers DEF KeyIsLive
  <2>5. QED
    BY <1>0, <1>a, <2>2, <2>3, <2>4, VersionsAreNumbers DEF KeyIsLive
<1>5. ASSUME NEW c \in Clients, Write(c) PROVE HeldIsLive' /\ KeyIsLive'
  <2>1. at[c] \in Tables /\ gen[c] \in 1..last[at[c]]
    BY <1>0, <1>5 DEF Write, TypeOK
  <2>2. KeyIsLive'
    BY <1>0, <1>a, <1>5, <2>1, GensAreNumbers DEF Write
  <2>3. HeldIsLive'
    BY <1>0, <1>5 DEF Write, HeldIsLive
  <2>4. QED
    BY <2>2, <2>3
<1>6. ASSUME NEW c \in Clients, EndWrite(c) PROVE HeldIsLive' /\ KeyIsLive'
  <2>1. KeyIsLive'
    BY <1>0, <1>6 DEF EndWrite, KeyIsLive
  <2>2. HeldIsLive'
    BY <1>0, <1>6 DEF EndWrite, HeldIsLive, TypeOK
  <2>3. QED
    BY <2>1, <2>2
<1>7. ASSUME NEW c \in Clients, NEW t \in Tables, Alter(c, t)
      PROVE  HeldIsLive' /\ KeyIsLive'
  <2>1. KeyIsLive'
    BY <1>0, <1>a, <1>7, GensAreNumbers DEF Alter
  <2>2. HeldIsLive'
    BY <1>0, <1>7 DEF Alter, Begin, HeldIsLive, TypeOK
  <2>3. QED
    BY <2>1, <2>2
<1>8. ASSUME NEW c \in Clients, NEW t \in Tables, NEW m \in Columns, NEW n \in Columns,
             AddColumn(c, t, n) \/ DropColumn(c, t, n) \/ RenameColumn(c, t, m, n)
      PROVE  HeldIsLive' /\ KeyIsLive'
  <2>1. PICK change \in Changes, kind \in Kinds, s \in {"retrieve", "retrieveAlter"} :
          ChangeColumns(c, t, change) /\ Begin(c, kind, t) /\ Goto(c, s)
    BY <1>8 DEF AddColumn, DropColumn, RenameColumn, Changes, Kinds
  <2>2. tbl[t] # None /\ tbl[t] \in Gens /\ UNCHANGED <<tbl, key, at, gen, todo>>
        /\ heap' = [heap EXCEPT ![t] = [heap[t] EXCEPT ![tbl[t]] =
                      [heap[t][tbl[t]] EXCEPT !.cols = Replaced(@, change)]]]
    BY <1>0, <2>1, GensAreNumbers DEF ChangeColumns
  <2>3. \A s1 \in Tables, h \in Gens : heap'[s1][h].ver = heap[s1][h].ver
    BY <1>0, <2>2, VersionsAreNumbers DEF TypeOK, Contents
  <2>4. KeyIsLive'
    BY <1>0, <2>2, <2>3, GensAreNumbers DEF KeyIsLive
  <2>5. HeldIsLive'
    BY <1>0, <2>1, <2>2 DEF Begin, HeldIsLive, TypeOK
  <2>6. QED
    BY <2>4, <2>5
<1>9. ASSUME NEW c \in Clients, ColumnData(c) PROVE HeldIsLive' /\ KeyIsLive'
  <2> DEFINE t == name[c]
  <2> DEFINE k == [key[t] EXCEPT !.data = [key[t].data EXCEPT !.cols = Replaced(@, col[c])]]
  <2>1. UNCHANGED key \/ key' = [key EXCEPT ![t] = k]
    BY <1>9 DEF ColumnData
  <2>2. key[t] \in Stored /\ key[t].data \in Contents /\ t \in Tables
    BY <1>0 DEF TypeOK, Stored
  <2>7. k.gen = key[t].gen /\ k.data.ver = key[t].data.ver
    BY <2>2 DEF Stored, Contents
  <2> HIDE DEF k
  <2>3. \A s \in Tables : key'[s].gen = key[s].gen /\ key'[s].data.ver = key[s].data.ver
    BY <1>0, <2>1, <2>2, <2>7 DEF TypeOK
  <2>4. KeyIsLive'
    BY <1>0, <1>9, <2>3 DEF ColumnData, KeyIsLive
  <2>5. HeldIsLive'
    BY <1>0, <1>9 DEF ColumnData, HeldIsLive, TypeOK
  <2>6. QED
    BY <2>4, <2>5
<1>10. ASSUME NEW c \in Clients
       PROVE  /\ \A t \in Tables : ~RetrieveDependent(c, t)
              /\ \A t \in Tables, cascade \in BOOLEAN : ~DropCheck(c, t, cascade)
              /\ ~Detach(c) /\ ~DropTable(c) /\ ~DeleteTable(c)
  BY <1>0 DEF DropCheck, Begin, Detach, RetrieveDependent, DropTable, DeleteTable,
              HeldIsLive
<1>11. ASSUME Restart PROVE HeldIsLive' /\ KeyIsLive'
  <2>1. HeldIsLive'
    BY <1>11 DEF Restart, HeldIsLive
  <2>2. ASSUME NEW t \in Tables, key[t].gen # None
        PROVE  tbl'[t] = key[t].gen /\ heap'[t][tbl'[t]].ver = key[t].data.ver
    <3>1. key[t].gen \in Gens /\ heap[t] \in [Gens -> Contents] /\ tbl'[t] = key[t].gen
      BY <1>0, <1>11, <2>2, GensAreNumbers DEF Restart, KeyIsLive, TypeOK
    <3>2. heap'[t] = [heap[t] EXCEPT ![key[t].gen] = key[t].data]
      BY <1>11, <2>2 DEF Restart
    <3>3. QED
      BY <3>1, <3>2
  <2>3. KeyIsLive'
    BY <1>0, <1>11, <2>2, VersionsAreNumbers DEF Restart, KeyIsLive
  <2>4. QED
    BY <2>1, <2>3
<1>12. ASSUME UNCHANGED vars PROVE HeldIsLive' /\ KeyIsLive'
  BY <1>0, <1>12 DEF vars, HeldIsLive, KeyIsLive
<1>13. HeldIsLive' /\ KeyIsLive'
  BY <1>1, <1>2, <1>3, <1>4, <1>5, <1>6, <1>7, <1>8, <1>9, <1>10, <1>11, <1>12
     DEF Next, Step, Start
<1>14. QED
  BY <1>0, <1>13 DEF LiveInv

\* Which steps write a key when nothing is dropped, and what they write.
LEMMA KeyStep ==
  ASSUME "drop" \notin work.kinds, LiveInv, [Next]_vars, key' # key
  PROVE  \E c \in Clients :
           LET t == name[c] IN
           \/ /\ Save(c) /\ t \in Tables /\ at[c] = t /\ tbl[t] \in Gens
              /\ gen[c] = tbl[t]
              /\ key' = [key EXCEPT ![t] = [gen |-> tbl[t], data |-> heap[t][tbl[t]]]]
           \/ /\ ColumnData(c) /\ t \in Tables
              /\ key' = [key EXCEPT ![t] = [key[t] EXCEPT !.data =
                          [key[t].data EXCEPT !.cols = Replaced(@, col[c])]]]
<1>0. TypeOK /\ HeldIsLive
  BY DEF LiveInv
<1>1. PICK c \in Clients : Save(c) \/ ColumnData(c) \/ DeleteTable(c)
  <2>1. ~Restart /\ ~(UNCHANGED vars)
    BY DEF Restart, vars
  <2>2. ASSUME NEW c \in Clients, Start(c) PROVE FALSE
    <3>1. PICK t \in Tables :
            \/ \E refs \in SUBSET Tables : CreateTable(c, t, refs)
            \/ Lookup(c, t) \/ Alter(c, t)
            \/ \E n \in Columns : AddColumn(c, t, n) \/ DropColumn(c, t, n)
            \/ \E m, n \in Columns : RenameColumn(c, t, m, n)
            \/ \E cascade \in BOOLEAN : DropCheck(c, t, cascade)
      BY <2>2 DEF Start
    <3>2. key' = key
      BY <3>1 DEF CreateTable, Lookup, Alter, AddColumn, DropColumn, RenameColumn,
                  ChangeColumns, DropCheck
    <3>3. QED
      BY <3>2
  <2>3. ASSUME NEW c \in Clients, Step(c) PROVE Save(c) \/ ColumnData(c) \/ DeleteTable(c)
    BY <2>3 DEF Step, Retrieve, Write, EndWrite, Detach, DropTable, RetrieveDependent
  <2>4. QED
    BY <2>1, <2>2, <2>3 DEF Next
<1>2. ~DeleteTable(c)
  BY <1>0 DEF DeleteTable, HeldIsLive
<1>3. CASE Save(c)
  <2>1. name[c] \in Tables /\ at[c] = name[c] /\ gen[c] = tbl[name[c]] /\ tbl[name[c]] \in Gens
    BY <1>0, <1>3, GensAreNumbers DEF Save, HeldIsLive, Saves, TypeOK
  <2>2. QED
    BY <1>3, <2>1 DEF Save, Store
<1>4. CASE ColumnData(c)
  BY <1>0, <1>4 DEF ColumnData, TypeOK
<1>5. QED
  BY <1>1, <1>2, <1>3, <1>4

LEMMA SavedStep ==
  ASSUME "drop" \notin work.kinds, LiveInv, [Next]_vars, NEW t \in Tables,
         tbl[t] # None, key[t].gen = tbl[t], tbl'[t] = tbl[t]
  PROVE  key'[t].gen = tbl[t] /\ key'[t].data.ver >= key[t].data.ver
<1>0. TypeOK /\ KeyIsLive
  BY DEF LiveInv
<1>1. CASE key' = key
  BY <1>0, <1>1, VersionsAreNumbers
<1>2. CASE key' # key
  <2>1. PICK c \in Clients :
           LET u == name[c] IN
           \/ /\ Save(c) /\ u \in Tables /\ at[c] = u /\ tbl[u] \in Gens
              /\ gen[c] = tbl[u]
              /\ key' = [key EXCEPT ![u] = [gen |-> tbl[u], data |-> heap[u][tbl[u]]]]
           \/ /\ ColumnData(c) /\ u \in Tables
              /\ key' = [key EXCEPT ![u] = [key[u] EXCEPT !.data =
                          [key[u].data EXCEPT !.cols = Replaced(@, col[c])]]]
    BY <1>2, KeyStep
  <2>2. CASE name[c] # t
    BY <1>0, <2>1, <2>2, VersionsAreNumbers DEF TypeOK
  <2>3. CASE name[c] = t
    <3>1. key[t] \in Stored /\ key[t].data \in Contents /\ key[t].data.ver \in Nat
      BY <1>0, VersionsAreNumbers DEF TypeOK
    <3>2. CASE key' = [key EXCEPT ![t] = [gen |-> tbl[t], data |-> heap[t][tbl[t]]]]
      <4>1. key'[t].gen = tbl[t] /\ key'[t].data.ver = heap[t][tbl[t]].ver
        BY <1>0, <3>2 DEF TypeOK
      <4>2. key[t].data.ver <= heap[t][tbl[t]].ver
        BY <1>0 DEF KeyIsLive
      <4>3. tbl[t] \in Gens
        BY <1>0, GensAreNumbers
      <4>4. QED
        BY <1>0, <3>1, <4>1, <4>2, <4>3, VersionsAreNumbers
    <3>3. CASE key' = [key EXCEPT ![t] = [key[t] EXCEPT !.data =
                         [key[t].data EXCEPT !.cols = Replaced(@, col[c])]]]
      <4> DEFINE k == [key[t] EXCEPT !.data = [key[t].data EXCEPT !.cols = Replaced(@, col[c])]]
      <4>1. k.gen = key[t].gen /\ k.data.ver = key[t].data.ver
        BY <3>1 DEF Stored, Contents
      <4>2. key'[t] = k
        BY <1>0, <3>3 DEF TypeOK
      <4> HIDE DEF k
      <4>3. QED
        BY <3>1, <4>1, <4>2
    <3>4. QED
      BY <2>1, <2>3, <3>2, <3>3
  <2>4. QED
    BY <2>2, <2>3
<1>3. QED
  BY <1>1, <1>2

\* As long as no table is dropped, what is saved stays saved: no save, late
\* or not, no column change and no restart takes a table's data back.
THEOREM SavesAreNeverUndone ==
  ASSUME \A w \in Works : "drop" \notin w.kinds
  PROVE  Spec => SavedStaysSaved
<1>1. LiveInv /\ [Next]_vars => LiveInv'
  BY NextLive DEF LiveInv, TypeOK
<1>2. LiveInv /\ [Next]_vars =>
        [\A t \in Tables : tbl[t] # None /\ key[t].gen = tbl[t] /\ tbl'[t] = tbl[t] =>
           key'[t].gen = tbl[t] /\ key'[t].data.ver >= key[t].data.ver]_vars
  BY SavedStep DEF LiveInv, TypeOK
<1>3. QED
  BY <1>1, <1>2, InitLive, PTL DEF Spec, SavedStaysSaved

----------------------------------------------------------------------------
(* Statements that create, write and widen tables.                         *)

Growing == {"create", "write", "alter", "add"}

\* No statement repeats a column change, a key without a table is empty,
\* and memory and disk agree where nobody is busy.
RestInv ==
  /\ LiveInv
  /\ \A c \in Clients : pc[c] \notin {"retrieveAlter", "saveAlter", "columns"}
  /\ \A t \in Tables : key[t].gen = None => key[t] = Absent
  /\ DiskAgreesAtRest

LEMMA InitRest == Init => RestInv
<1> SUFFICES ASSUME Init PROVE RestInv
  OBVIOUS
<1>1. /\ \A c \in Clients : pc[c] \notin {"retrieveAlter", "saveAlter", "columns"}
      /\ \A t \in Tables : key[t].gen = None => key[t] = Absent
      /\ DiskAgreesAtRest
  BY DEF Init, DiskAgreesAtRest, Durable, Absent
<1>2. QED
  BY <1>1, InitLive DEF RestInv

LEMMA NextRest ==
  ASSUME work.kinds \subseteq Growing, RestInv, [Next]_vars
  PROVE  RestInv'
<1> DEFINE NoRepeat == \A c \in Clients : pc[c] \notin {"retrieveAlter", "saveAlter", "columns"}
           EmptyKeys == \A t \in Tables : key[t].gen = None => key[t] = Absent
<1> USE DEF Goto, held, args
<1>0. /\ "drop" \notin work.kinds /\ "drop column" \notin work.kinds
      /\ "rename" \notin work.kinds
  BY DEF Growing
<1>1. TypeOK /\ HeldIsLive /\ KeyIsLive /\ LiveInv' /\ NoRepeat /\ EmptyKeys /\ DiskAgreesAtRest
  BY <1>0, NextLive DEF RestInv, LiveInv
<1>2. NoRepeat'
  <2>1. ASSUME NEW c \in Clients, Step(c) \/ Start(c) PROVE NoRepeat'
    <3>1. CASE Step(c)
      BY <1>1, <2>1, <3>1 DEF Step, Retrieve, Save, Write, EndWrite, ColumnData, Detach,
         DropTable, DeleteTable, RetrieveDependent, AfterSave, Saves, HeldIsLive, TypeOK
    <3>2. CASE Start(c)
      <4>1. PICK t \in Tables :
            \/ \E refs \in SUBSET Tables : CreateTable(c, t, refs)
            \/ Lookup(c, t) \/ Alter(c, t)
            \/ \E n \in Columns : AddColumn(c, t, n) \/ DropColumn(c, t, n)
            \/ \E m, n \in Columns : RenameColumn(c, t, m, n)
            \/ \E cascade \in BOOLEAN : DropCheck(c, t, cascade)
        BY <3>2 DEF Start
      <4>2. pc' = [pc EXCEPT ![c] = "retrieve"] \/ pc' = [pc EXCEPT ![c] = "write"]
        BY <1>0, <4>1 DEF CreateTable, Lookup, Alter, AddColumn, DropColumn, RenameColumn,
                          DropCheck, Begin
      <4>3. QED
        BY <1>1, <4>2 DEF TypeOK
    <3>3. QED
      BY <2>1, <3>1, <3>2
  <2>2. CASE Restart
    BY <2>2 DEF Restart
  <2>3. CASE UNCHANGED vars
    BY <1>1, <2>3 DEF vars
  <2>4. QED
    BY <2>1, <2>2, <2>3 DEF Next
<1>3. /\ EmptyKeys'
      /\ \/ key' = key
         \/ \E c \in Clients :
              /\ Save(c) /\ name[c] \in Tables /\ at[c] = name[c] /\ tbl[name[c]] \in Gens
              /\ key' = [key EXCEPT ![name[c]] =
                          [gen |-> tbl[name[c]], data |-> heap[name[c]][tbl[name[c]]]]]
  <2>1. CASE key' = key
    BY <1>1, <2>1
  <2>2. CASE key' # key
    <3>1. PICK c \in Clients :
            LET t == name[c] IN
            /\ Save(c) /\ t \in Tables /\ at[c] = t /\ tbl[t] \in Gens
            /\ key' = [key EXCEPT ![t] = [gen |-> tbl[t], data |-> heap[t][tbl[t]]]]
      BY <1>0, <1>1, <2>2, KeyStep DEF RestInv, ColumnData
    <3>2. EmptyKeys'
      BY <1>1, <3>1 DEF TypeOK, Gens
    <3>3. QED
      BY <3>1, <3>2
  <2>3. QED
    BY <2>1, <2>2
<1>4. DiskAgreesAtRest'
  <2> SUFFICES ASSUME NEW t \in Tables, \A d \in Clients : ~Owes(d, t)' PROVE Durable(t)'
    BY DEF DiskAgreesAtRest
  <2>1. CASE Restart
    <3>1. key' = key /\ tbl'[t] = key[t].gen
      BY <2>1 DEF Restart
    <3>2. CASE key[t].gen = None
      BY <1>1, <3>1, <3>2 DEF Durable
    <3>3. CASE key[t].gen # None
      <4>1. heap'[t] = [heap[t] EXCEPT ![key[t].gen] = key[t].data]
        BY <2>1, <3>3 DEF Restart
      <4>2. key[t] \in Stored /\ heap[t] \in [Gens -> Contents] /\ key[t].gen \in Gens
        BY <1>1, <3>3, GensAreNumbers DEF KeyIsLive, TypeOK
      <4>3. heap'[t][key[t].gen] = key[t].data
        BY <4>1, <4>2
      <4>4. key[t] = [gen |-> key[t].gen, data |-> key[t].data]
        BY <4>2 DEF Stored
      <4>5. QED
        BY <3>1, <3>3, <4>3, <4>4 DEF Durable
    <3>4. QED
      BY <3>2, <3>3
  <2>2. CASE UNCHANGED vars
    BY <1>1, <2>2 DEF vars, DiskAgreesAtRest, Durable, Owes
  <2>3. ASSUME NEW c \in Clients, Step(c) \/ Start(c) PROVE Durable(t)'
    <3> DEFINE Same == tbl'[t] = tbl[t] /\ heap'[t] = heap[t] /\ key'[t] = key[t]
               Mine == Owes(c, t) => Owes(c, t)'
    <3>1. ASSUME NEW d \in Clients, d # c
          PROVE  /\ pc'[d] = pc[d] /\ name'[d] = name[d] /\ at'[d] = at[d]
                 /\ wrote'[d] = wrote[d] /\ todo'[d] = todo[d]
      <4>1. CASE Step(c)
        BY <1>1, <3>1, <4>1 DEF Step, Retrieve, Save, Write, EndWrite, ColumnData, Detach,
           DropTable, DeleteTable, RetrieveDependent, Hold, TypeOK
      <4>2. CASE Start(c)
        <5>1. PICK u \in Tables :
              \/ \E refs \in SUBSET Tables : CreateTable(c, u, refs)
              \/ Lookup(c, u) \/ Alter(c, u)
              \/ \E n \in Columns : AddColumn(c, u, n) \/ DropColumn(c, u, n)
              \/ \E m, n \in Columns : RenameColumn(c, u, m, n)
              \/ \E cascade \in BOOLEAN : DropCheck(c, u, cascade)
          BY <4>2 DEF Start
        <5>2. /\ \E s : pc' = [pc EXCEPT ![c] = s]
              /\ name' = [name EXCEPT ![c] = u]
              /\ at' = at \/ at' = [at EXCEPT ![c] = u]
              /\ wrote' = wrote \/ wrote' = [wrote EXCEPT ![c] = FALSE]
              /\ todo' = todo
          BY <5>1 DEF CreateTable, Lookup, Alter, AddColumn, DropColumn,
             RenameColumn, ChangeColumns, DropCheck, Begin, Hold
        <5>3. QED
          BY <1>1, <3>1, <5>2 DEF TypeOK
      <4>3. QED
        BY <2>3, <4>1, <4>2
    <3>2. Same /\ Mine => Durable(t)'
      <4>1. SUFFICES ASSUME Same, Mine PROVE Durable(t)'
        OBVIOUS
      <4>2. \A d \in Clients : ~Owes(d, t)
        BY <3>1, <4>1 DEF Owes
      <4>3. Durable(t)
        BY <1>1, <4>2 DEF DiskAgreesAtRest
      <4>4. QED
        BY <4>1, <4>3 DEF Durable
    <3>3. SUFFICES (Same /\ Mine) \/ Owes(c, t)' \/ Durable(t)'
      BY <3>2
    <3>4. ASSUME NEW u \in Tables, NEW refs \in SUBSET Tables, CreateTable(c, u, refs)
          PROVE  (Same /\ Mine) \/ Owes(c, t)'
      BY <1>1, <3>4 DEF CreateTable, Begin, Owes, TypeOK, HeldIsLive
    <3>5. CASE Retrieve(c)
      BY <1>1, <3>5 DEF Retrieve, Owes, TypeOK, HeldIsLive
    <3>6. CASE Save(c)
      <4>1. name[c] \in Tables /\ at[c] = name[c] /\ gen[c] = tbl[name[c]]
            /\ tbl[name[c]] # None /\ pc[c] = "save"
        BY <1>1, <3>6 DEF Save, Saves, TypeOK, HeldIsLive
      <4>2. UNCHANGED <<tbl, heap>>
            /\ key' = [key EXCEPT ![name[c]] =
                         [gen |-> tbl[name[c]], data |-> heap[name[c]][tbl[name[c]]]]]
        BY <3>6, <4>1 DEF Save, Store
      <4>3. CASE name[c] = t
        BY <1>1, <4>1, <4>2, <4>3 DEF Durable, TypeOK
      <4>4. CASE name[c] # t
        BY <1>1, <4>1, <4>2, <4>4 DEF Owes, HeldIsLive, TypeOK
      <4>5. QED
        BY <4>3, <4>4
    <3>7. ASSUME NEW u \in Tables, Lookup(c, u) PROVE Same /\ Mine
      BY <1>1, <3>7 DEF Lookup, Begin, Owes, HeldIsLive, TypeOK
    <3>8. ASSUME NEW u \in Tables, NEW g \in Gens, Bump(u, g), u # t PROVE heap'[t] = heap[t]
      BY <1>1, <3>8 DEF Bump, TypeOK
    <3>9. CASE Write(c)
      <4>1. name[c] \in Tables /\ at[c] = name[c] /\ gen[c] \in Gens
        BY <1>1, <3>9, GensAreNumbers DEF Write, TypeOK, HeldIsLive
      <4>2. QED
        BY <1>1, <3>8, <3>9, <4>1 DEF Write, Owes, TypeOK
    <3>10. CASE EndWrite(c)
      BY <1>1, <3>10 DEF EndWrite, Owes, TypeOK, HeldIsLive
    <3>11. ASSUME NEW u \in Tables, Alter(c, u) PROVE (Same /\ Mine) \/ Owes(c, t)'
      BY <1>1, <3>8, <3>11, GensAreNumbers DEF Alter, Begin, Owes, TypeOK, HeldIsLive
    <3>12. ASSUME NEW u \in Tables, NEW n \in Columns, AddColumn(c, u, n)
           PROVE  (Same /\ Mine) \/ Owes(c, t)'
      BY <1>1, <3>12 DEF AddColumn, ChangeColumns, Begin, Owes, TypeOK, HeldIsLive
    <3>13. /\ ~Detach(c) /\ ~DropTable(c) /\ ~DeleteTable(c) /\ ~ColumnData(c)
           /\ \A u \in Tables : ~RetrieveDependent(c, u)
           /\ \A u \in Tables, cascade \in BOOLEAN : ~DropCheck(c, u, cascade)
           /\ \A u \in Tables, m, n \in Columns : ~DropColumn(c, u, n) /\ ~RenameColumn(c, u, m, n)
      BY <1>0, <1>1 DEF Detach, DropTable, DeleteTable, ColumnData, RetrieveDependent,
         DropCheck, DropColumn, RenameColumn, Begin, HeldIsLive
    <3>14. QED
      BY <2>3, <3>4, <3>5, <3>6, <3>7, <3>9, <3>10, <3>11, <3>12, <3>13 DEF Step, Start
  <2>4. QED
    BY <2>1, <2>2, <2>3 DEF Next
<1>5. QED
  BY <1>1, <1>2, <1>3, <1>4 DEF RestInv

\* For any tables, columns, clients and bounds: under concurrent CREATE
\* TABLE, INSERT, UPDATE, DELETE, CREATE and DROP INDEX, ALTER COLUMN and
\* ADD COLUMN, and crashes at any point, memory and disk agree on every
\* table nobody is still about to save.
THEOREM GrowingTablesAreDurable ==
  ASSUME \A w \in Works : w.kinds \subseteq Growing
  PROVE  Spec => []DiskAgreesAtRest
<1>1. RestInv /\ [Next]_vars => RestInv'
  BY NextRest DEF RestInv, LiveInv, TypeOK
<1>2. RestInv => DiskAgreesAtRest
  BY DEF RestInv
<1>3. QED
  BY <1>1, <1>2, InitRest, PTL DEF Spec
=============================================================================
