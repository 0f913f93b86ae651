----------------------------- MODULE ForeignKeys -----------------------------
(***************************************************************************)
(* A foreign key: the rows of a parent table, each with its value in the   *)
(* referenced column, and the rows of a child table, each with the value   *)
(* it refers to.                                                           *)
(*                                                                         *)
(* INSERT into the child looks into the parent without the parent's lock.  *)
(* UPDATE of the child checks its new value in one lock region and writes  *)
(* it in another.  DELETE from the parent holds the parent's lock, checks  *)
(* its rows one after the other, each under the child's read lock, and     *)
(* then removes them.  A row is a slot that is free or has a value.        *)
(***************************************************************************)
EXTENDS Naturals, ClientSet

CONSTANTS
  Values,      \* key values
  Null,        \* no reference: NULL or the empty string
  Free,        \* what a slot without a row holds
  ParentRows,  \* slots of the parent table
  ChildRows,   \* slots of the child table
  Forms,       \* the forms in which the child's reference may be declared
  Works        \* the workloads: client -> kinds of statement it issues

Kinds == {"insert parent", "update parent", "delete parent",
          "insert child", "update child", "delete child"}

\* REFERENCES t(id) of the key by the table's own name, by a name with a
\* schema before it, or REFERENCES t(x) of a column that is not the key.
AllForms == {"key", "schema", "column"}

ASSUME FormsAssumption == Forms \subseteq AllForms
ASSUME WorksAssumption == Works \subseteq [Clients -> SUBSET Kinds]
ASSUME ValuesAssumption == Null \notin Values /\ Free \notin Values /\ Null # Free

VARIABLES
  work,    \* the workload, chosen for ever at the start
  form,    \* the form of the reference, chosen with it
  parent,  \* slot -> value in the referenced column, or Free
  child,   \* slot -> referenced key, Null or Free
  lock,    \* who holds the parent's write lock between steps, or Nobody
  pc,      \* what each client does next
  hit,     \* the rows its DELETE is to remove, or its UPDATE to write
  todo,    \* the rows its DELETE has still to check
  val      \* the value its UPDATE sets

vars == <<work, form, parent, child, lock, pc, hit, todo, val>>

TypeOK ==
  /\ work \in Works
  /\ form \in Forms
  /\ parent \in [ParentRows -> Values \cup {Free}]
  /\ child \in [ChildRows -> Values \cup {Null, Free}]
  /\ lock \in Clients \cup {Nobody}
  /\ pc \in [Clients -> {"idle", "write", "check"}]
  /\ hit \in [Clients -> SUBSET ParentRows]
  /\ todo \in [Clients -> SUBSET ParentRows]
  /\ val \in [Clients -> Values \cup {Null}]
  /\ \A c \in Clients : pc[c] = "check" <=> lock = c
  /\ \A c \in Clients : todo[c] \subseteq hit[c]

Init ==
  /\ work \in Works
  /\ form \in Forms
  /\ parent = [p \in ParentRows |-> Free]
  /\ child = [r \in ChildRows |-> Free]
  /\ lock = Nobody
  /\ pc = [c \in Clients |-> "idle"]
  /\ hit = [c \in Clients |-> {}]
  /\ todo = [c \in Clients |-> {}]
  /\ val = [c \in Clients |-> Null]

Begin(c, kind) == pc[c] = "idle" /\ kind \in work[c]
Goto(c, step) == pc' = [pc EXCEPT ![c] = step]

locals == <<pc, hit, todo, val>>

\* ValuesEqual in the referenced column of the parent's rows.
KeyExists(v) == \E p \in ParentRows : parent[p] = v
Referenced(v) == \E r \in ChildRows : child[r] = v

ParentsLive == {p \in ParentRows : parent[p] # Free}
ChildrenLive == {r \in ChildRows : child[r] # Free}

----------------------------------------------------------------------------
(* The parent table                                                        *)

\* insertRowWithValidation: no other row has the key.
InsertParent(c, p, v) ==
  /\ Begin(c, "insert parent")
  /\ lock = Nobody
  /\ parent[p] = Free
  /\ form # "column" => ~KeyExists(v)
  /\ parent' = [parent EXCEPT ![p] = v]
  /\ UNCHANGED <<child, lock, locals>>

\* performUpdate of the column: neither its uniqueness nor its references
\* are looked at.  The condition selects any of the rows.
UpdateParent(c, ps, v) ==
  /\ Begin(c, "update parent")
  /\ lock = Nobody
  /\ ps \subseteq ParentsLive
  /\ parent' = [p \in ParentRows |-> IF p \in ps THEN v ELSE parent[p]]
  /\ UNCHANGED <<child, lock, locals>>

\* performDelete, under the parent's lock until it ends ...
BeginDelete(c, ps) ==
  /\ Begin(c, "delete parent")
  /\ lock = Nobody
  /\ ps \subseteq ParentsLive
  /\ lock' = c
  /\ hit' = [hit EXCEPT ![c] = ps]
  /\ todo' = [todo EXCEPT ![c] = ps]
  /\ Goto(c, "check")
  /\ UNCHANGED <<parent, child, val>>

EndDelete(c) ==
  /\ lock' = Nobody
  /\ hit' = [hit EXCEPT ![c] = {}]
  /\ todo' = [todo EXCEPT ![c] = {}]
  /\ Goto(c, "idle")
  /\ UNCHANGED <<child, val>>

\* CheckForeignKeyReferences goes by the table's name without its schema and
\* by its key column; a reference declared in another way it does not see.
Blocked(p) == form = "key" /\ Referenced(parent[p])

\* Mutant: the check of one row decides for all.
CheckRowOnce(c, p) ==
  /\ pc[c] = "check"
  /\ p \in todo[c]
  /\ IF Blocked(p)
       THEN EndDelete(c) /\ UNCHANGED parent
       ELSE /\ todo' = [todo EXCEPT ![c] = {}]
            /\ UNCHANGED <<parent, child, lock, pc, hit, val>>

\* ... CheckForeignKeyReferences for each row to go; the first it finds
\* referenced ends the statement with an error ...
CheckRow(c, p) ==
  /\ pc[c] = "check"
  /\ p \in todo[c]
  /\ IF Blocked(p)
       THEN EndDelete(c) /\ UNCHANGED parent
       ELSE /\ todo' = [todo EXCEPT ![c] = @ \ {p}]
            /\ UNCHANGED <<parent, child, lock, pc, hit, val>>

\* ... and when all have passed they go together.
RemoveRows(c) ==
  /\ pc[c] = "check"
  /\ todo[c] = {}
  /\ parent' = [p \in ParentRows |-> IF p \in hit[c] THEN Free ELSE parent[p]]
  /\ EndDelete(c)

----------------------------------------------------------------------------
(* The child table                                                         *)

\* insertRowWithValidation: the parent's rows are read without its lock, so
\* while a DELETE of the parent is at its checks as well.
InsertChild(c, r, v) ==
  /\ Begin(c, "insert child")
  /\ child[r] = Free
  /\ v = Null \/ KeyExists(v)
  /\ child' = [child EXCEPT ![r] = v]
  /\ UNCHANGED <<parent, lock, locals>>

\* validateForeignKey, under the parent's read lock ...
ValidateUpdate(c, v) ==
  /\ Begin(c, "update child")
  /\ v = Null \/ (lock = Nobody /\ KeyExists(v))
  /\ val' = [val EXCEPT ![c] = v]
  /\ Goto(c, "write")
  /\ UNCHANGED <<parent, child, lock, hit, todo>>

\* ... and performUpdate, under the child's lock, of any of the rows.
UpdateChildren(c, rs) ==
  /\ pc[c] = "write"
  /\ rs \subseteq ChildrenLive
  /\ child' = [r \in ChildRows |-> IF r \in rs THEN val[c] ELSE child[r]]
  /\ val' = [val EXCEPT ![c] = Null]
  /\ Goto(c, "idle")
  /\ UNCHANGED <<parent, lock, hit, todo>>

DeleteChildren(c, rs) ==
  /\ Begin(c, "delete child")
  /\ rs \subseteq ChildrenLive
  /\ child' = [r \in ChildRows |-> IF r \in rs THEN Free ELSE child[r]]
  /\ UNCHANGED <<parent, lock, locals>>

----------------------------------------------------------------------------
ChildValues == Values \cup {Null}

Next ==
  /\ UNCHANGED <<work, form>>
  /\ \E c \in Clients :
      \/ \E p \in ParentRows, v \in Values : InsertParent(c, p, v)
      \/ \E ps \in SUBSET ParentRows :
           BeginDelete(c, ps) \/ \E v \in Values : UpdateParent(c, ps, v)
      \/ \E p \in ParentRows : CheckRow(c, p)
      \/ RemoveRows(c)
      \/ \E v \in ChildValues :
           ValidateUpdate(c, v) \/ \E r \in ChildRows : InsertChild(c, r, v)
      \/ \E rs \in SUBSET ChildRows : UpdateChildren(c, rs) \/ DeleteChildren(c, rs)

Spec == Init /\ [][Next]_vars

----------------------------------------------------------------------------
(* Properties                                                              *)

\* Workloads in which no UPDATE sets a key, and of those the ones in which
\* the client that adds references is the one that removes parents.
KeysFixed == \A c \in Clients : "update parent" \notin work[c]
OneWriter ==
  /\ KeysFixed
  /\ \A c, d \in Clients :
       work[c] \cap {"insert child", "update child"} # {}
       /\ "delete parent" \in work[d] => c = d

\* "DELETE of a row that a foreign key references is blocked (leaves no
\* orphans)" (README.md:181, in Spanish): every reference has its row.  The
\* code keeps it for the workloads of OneWriter and a reference that names the
\* key by the table's own name; DELETE never sees any other.
NoOrphans ==
  OneWriter /\ form = "key" =>
    \A r \in ChildRows : child[r] \in Values => KeyExists(child[r])
=============================================================================
