---------------------------- MODULE DurableObjects ----------------------------
(***************************************************************************)
(* What a database promises of the objects its DDL statements create: an   *)
(* object nobody is working on survives a restart as it is, and one that a *)
(* statement is working on comes back as it was before or after one of the *)
(* changes the statement has made.                                         *)
(***************************************************************************)
CONSTANT Objects  \* tables, views, schemas, procedures, triggers, jobs

VARIABLES
  objs,   \* object -> its definition, or a value for "there is none"
  may,    \* object -> the definitions a restart may leave
  busy    \* the objects statements are working on

Settled(o) == may[o] = {objs[o]}

Init ==
  /\ DOMAIN objs = Objects
  /\ may = [o \in Objects |-> {objs[o]}]
  /\ busy = {}

\* A statement begins, goes on or ends: it changes objects it works on, leaves
\* no definition to a restart that was not there, and settles what it leaves.
Work ==
  /\ DOMAIN objs' = Objects /\ DOMAIN may' = Objects
  /\ busy' \subseteq Objects
  /\ \A o \in Objects :
       /\ objs'[o] # objs[o] => o \in busy'
       /\ may'[o] \subseteq may[o] \cup {objs'[o]}
       /\ o \notin busy' => Settled(o)'

Restart ==
  /\ DOMAIN objs' = Objects
  /\ \A o \in Objects : objs'[o] \in may[o]
  /\ may' = [o \in Objects |-> {objs'[o]}]
  /\ busy' = {}

Next == Work \/ Restart

Spec == Init /\ [][Next]_<<objs, may, busy>>
=============================================================================
