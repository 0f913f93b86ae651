------------------------------- MODULE Routines -------------------------------
(***************************************************************************)
(* The stored routines of one database: procedures, triggers and jobs.     *)
(* CREATE, DROP and ALTER change the catalog under its lock and the        *)
(* object's key in Pebble later, in a lock region of its own.  Statements  *)
(* run them: INSERT fires the table's triggers around every row, CALL runs *)
(* a procedure's body, and the scheduler runs the jobs that are due.       *)
(*                                                                         *)
(* A running statement is a stack of frames, the innermost first.  Bodies  *)
(* are made of INSERT, CALL, DESCRIBE, which stands for every kind of      *)
(* statement storage cannot encode, and statements that fail.  Of a table  *)
(* only whether it has rows that are not on disk is kept.                  *)
(***************************************************************************)
EXTENDS Integers, Sequences, FiniteSets, SequencesExt

CONSTANTS
  Clients,    \* sessions
  Scheduler,  \* the goroutine that runs the jobs
  Tables,     \* names of tables
  Ids,        \* <<"procedure", name>>, <<"job", name>>, <<"trigger", name, table>>
  None,       \* no routine
  MaxDepth,   \* maxTriggerRecursionDepth
  Interval,   \* job -> the minutes between its runs
  Works       \* the workloads

Threads == Clients \cup {Scheduler}
JobIds == {i \in Ids : i[1] = "job"}
TriggerIds == {i \in Ids : i[1] = "trigger"}

\* What storage calls a routine: a trigger's key does not name its table.
Key(i) == <<i[1], i[2]>>
Keys == {Key(i) : i \in Ids}

\* An INSERT into a table of so many rows, its name written bare or with a
\* schema; a CALL; a DESCRIBE; a statement that fails.
Statements ==
  [do : {"insert", "describe", "fail"}, on : Tables, rows : 0..2, bare : BOOLEAN]
    \cup [do : {"call"}, on : Ids, rows : 0..2, bare : BOOLEAN]

\* A definition: its body, and for a trigger when it fires, for a job whether
\* it is enabled.
Marks == {"", "before", "after", "enabled", "disabled"}
Definitions == [body : Seq(Statements), mark : Marks]

\* registerGobTypes leaves out DESCRIBE, ALTER TABLE and DROP VIEW, INDEX and
\* DATABASE: a body with one of them cannot be saved.
Encodable(def) == \A k \in DOMAIN def.body : def.body[k].do # "describe"

\* A workload: the routines there are at the start; what each client makes,
\* drops or alters, and runs; whether it does so only if no other is at work;
\* whether the scheduler runs; whether the server restarts.
ASSUME WorksAssumption ==
  \A w \in Works :
    /\ w.start \in [Ids -> Definitions \cup {None}]
    /\ \A i \in Ids : w.start[i] # None => Encodable(w.start[i])
    /\ w.makes \in [Clients -> SUBSET (Ids \X Definitions)]
    /\ w.drops \in [Clients -> SUBSET Ids]
    /\ w.alters \in [Clients -> SUBSET JobIds]
    /\ w.runs \in [Clients -> SUBSET Statements]
    /\ \A i, l \in Ids : Key(i) = Key(l) /\ w.start[i] # None /\ w.start[l] # None => i = l
    /\ w.alone \in BOOLEAN /\ w.ticks \in BOOLEAN /\ w.restarts \in BOOLEAN
ASSUME IdsAssumption == IsFiniteSet(Ids) /\ \A i \in TriggerIds : i[3] \in Tables
ASSUME DepthAssumption == MaxDepth \in Nat \ {0}
ASSUME IntervalAssumption == Interval \in [JobIds -> Nat \ {0}]
ASSUME NoneAssumption == None \notin Definitions /\ None \notin Ids \X Definitions
ASSUME SchedulerAssumption == Scheduler \notin Clients

VARIABLES
  work,    \* the workload, chosen for ever at the start
  mem,     \* c.procedures, c.triggers and c.jobs: routine -> definition or None
  order,   \* c.triggers: table -> its triggers, as they fire
  disk,    \* key -> the routine saved under it and its definition, or None
  ddl,     \* what each client's DDL does next
  stack,   \* each thread's frames, the innermost first
  failed,  \* the threads that are on the way out of an error
  reg,     \* the depth a thread has read and not yet written back
  depth,   \* Executor.triggerDepth, which all threads share
  unsaved, \* the tables with rows in memory that are not on disk
  tick,    \* the ticker's channel holds a tick
  due,     \* the jobs of the scheduler's snapshot it has still to look at
  age,     \* the minutes since that snapshot
  since    \* job -> the minutes since its LastRun, its interval if more or never

vars == <<work, mem, order, disk, ddl, stack, failed, reg, depth, unsaved,
          tick, due, age, since>>
catalog == <<mem, order>>
running == <<stack, failed, reg, depth, unsaved>>
timing == <<tick, due, age, since>>

NoDDL == [step |-> "idle", id |-> None, def |-> None, held |-> FALSE]

\* A client's DDL: its next step ("fetch", "save" or "delete"), the routine and
\* what is saved of it.  held: the job is the one in the catalog, and is saved
\* as it then stands.  A job of the snapshot is held likewise.

\* A frame is the running of a body, of an INSERT, or of executeTriggers for
\* one.  todo: the statements to come; of: the procedure or job, or the table;
\* phase: how far it is; rows: those to insert yet; wrote: it has inserted one;
\* bare: the table was named without a schema.
BodyFrames ==
  [kind : {"body"}, todo : Seq(Statements), of : Ids \cup {None}, phase : {"in"},
   rows : {0}, wrote : {FALSE}, bare : {FALSE}]
InsertFrames ==
  [kind : {"insert"}, todo : {<< >>}, of : Tables, phase : {"before", "row", "after", "persist"},
   rows : 0..2, wrote : BOOLEAN, bare : BOOLEAN]
TriggerFrames ==
  [kind : {"trigger"}, todo : Seq(Statements), of : Tables,
   phase : {"entering", "in", "leaving"}, rows : {0}, wrote : {FALSE}, bare : BOOLEAN]
Frames == BodyFrames \cup InsertFrames \cup TriggerFrames

\* What is saved has a definition, under the routine's own key; so has a job
\* that is held, by a statement or in a snapshot, and what is released of it.
TypeOK ==
  /\ work \in Works
  /\ mem \in [Ids -> Definitions \cup {None}]
  /\ order \in [Tables -> Seq(TriggerIds)]
  /\ disk \in [Keys -> (Ids \X Definitions) \cup {None}]
  /\ \A k \in Keys : disk[k] # None => Key(disk[k][1]) = k
  /\ ddl \in [Clients -> [step : {"idle", "fetch", "save", "delete"}, id : Ids \cup {None},
                         def : Definitions \cup {None}, held : BOOLEAN]]
  /\ \A c \in Clients :
       /\ ddl[c].step = "idle" => ddl[c] = NoDDL
       /\ ddl[c].step # "idle" => ddl[c].id \in Ids
       /\ ddl[c].step = "fetch" /\ ddl[c].id \in TriggerIds => ddl[c].def # None
       /\ ddl[c].step = "save" /\ ~ddl[c].held => ddl[c].def # None
       /\ ddl[c].held => ddl[c].step = "save" /\ mem[ddl[c].id] # None
  /\ stack \in [Threads -> Seq(Frames)]
  /\ failed \subseteq Threads /\ reg \in [Threads -> Int] /\ depth \in Int
  /\ unsaved \subseteq Tables
  /\ tick \in BOOLEAN /\ age \in Nat
  /\ due \subseteq [id : JobIds, def : Definitions, due : BOOLEAN, held : BOOLEAN]
  /\ \A r \in due : r.held => mem[r.id] # None
  /\ since \in [JobIds -> Nat] /\ \A j \in JobIds : since[j] <= Interval[j]

\* The triggers of a table, in some order.
Arrangements(S) ==
  {s \in [1..Cardinality(S) -> S] : \A i, j \in DOMAIN s : s[i] = s[j] => i = j}
TriggersOf(defs, t) == {i \in TriggerIds : i[3] = t /\ defs[i] # None}

\* The triggers, in the order of their keys perhaps.
Ordered(o, defs) ==
  \A t \in Tables : /\ {o[t][k] : k \in DOMAIN o[t]} = TriggersOf(defs, t)
                    /\ Len(o[t]) = Cardinality(TriggersOf(defs, t))
Orders == [Tables -> UNION {Arrangements(S) : S \in SUBSET TriggerIds}]

Loaded(i) == IF disk[Key(i)] # None /\ disk[Key(i)][1] = i THEN disk[Key(i)][2] ELSE None

\* Where a routine of the start is saved.
Holder(k) == {i \in Ids : Key(i) = k /\ work.start[i] # None}

Init ==
  /\ work \in Works
  /\ mem = work.start
  /\ order \in {o \in Orders : Ordered(o, mem)}
  /\ disk = [k \in Keys |-> IF Holder(k) = {} THEN None
                            ELSE LET i == CHOOSE i \in Holder(k) : TRUE
                                 IN  <<i, work.start[i]>>]
  /\ ddl = [c \in Clients |-> NoDDL]
  /\ stack = [c \in Threads |-> << >>]
  /\ failed = {} /\ reg = [c \in Threads |-> 0] /\ depth = 0
  /\ unsaved = {}
  /\ tick = FALSE /\ due = {} /\ age = 0
  /\ since = Interval

\* A thread with nothing under way; a client may then begin a statement.
Quiet(c) == stack[c] = << >> /\ (c \in Clients => ddl[c] = NoDDL)
Begin(c) == Quiet(c) /\ (work.alone => \A d \in Threads : Quiet(d))

----------------------------------------------------------------------------
(* CREATE, ALTER and DROP                                                  *)

NextDDL(c, d) == ddl' = [ddl EXCEPT ![c] = d]

\* The catalog gets the routine, a trigger as its table's last; a new job has
\* never run.
Create(c) ==
  \E m \in work.makes[c] :
    LET i == m[1]  def == m[2] IN
    /\ Begin(c) /\ mem[i] = None
    /\ mem' = [mem EXCEPT ![i] = def]
    /\ order' = IF i \in TriggerIds THEN [order EXCEPT ![i[3]] = Append(@, i)] ELSE order
    /\ since' = IF i \in JobIds THEN [since EXCEPT ![i] = Interval[i]] ELSE since
    /\ NextDDL(c, [step |-> "fetch", id |-> i, def |-> def, held |-> FALSE])
    /\ UNCHANGED <<work, disk, running, tick, due, age>>

Toggled(mark) == IF mark = "enabled" THEN "disabled" ELSE "enabled"

AlterJob(c) ==
  \E i \in work.alters[c] :
    /\ Begin(c) /\ mem[i] # None
    /\ mem' = [mem EXCEPT ![i].mark = Toggled(@)]
    /\ NextDDL(c, [step |-> "fetch", id |-> i, def |-> None, held |-> FALSE])
    /\ UNCHANGED <<work, order, disk, running, timing>>

\* Mutant: the first of them.
FoundFirst(i, def) ==
  IF i \notin TriggerIds THEN {j \in {i} : mem[j] # None}
  ELSE LET o == order[i[3]]
           same == {k \in DOMAIN o : mem[o[k]].mark = def.mark}
       IN  {o[k] : k \in {k \in same : \A l \in same : l >= k}}

\* What the statement looks up to save: the routine of its name, or the last
\* trigger of its table and timing.
Found(i, def) ==
  IF i \notin TriggerIds THEN {j \in {i} : mem[j] # None}
  ELSE LET o == order[i[3]]
           same == {k \in DOMAIN o : mem[o[k]].mark = def.mark}
       IN  {o[k] : k \in {k \in same : \A l \in same : l <= k}}

Fetch(c) ==
  LET found == Found(ddl[c].id, ddl[c].def) IN
  /\ ddl[c].step = "fetch"
  /\ \/ found = {} /\ NextDDL(c, NoDDL)
     \/ \E i \in found :
          NextDDL(c, [step |-> "save", id |-> i, def |-> mem[i], held |-> i \in JobIds])
  /\ UNCHANGED <<work, catalog, disk, running, timing>>

\* A job is saved as it is by now: GetJob returns the catalog's own.  What
\* cannot be encoded is not saved, which is a warning of CREATE, an error of
\* ALTER JOB; the catalog keeps it.
Save(c) ==
  LET d == ddl[c]
      saved == IF d.held THEN mem[d.id] ELSE d.def IN
  /\ d.step = "save"
  /\ disk' = IF Encodable(saved) THEN [disk EXCEPT ![Key(d.id)] = <<d.id, saved>>] ELSE disk
  /\ NextDDL(c, NoDDL)
  /\ UNCHANGED <<work, catalog, running, timing>>

\* Whoever holds a job that is dropped keeps it as it was.
LetGo(r, i) == IF r.id = i /\ r.held THEN [r EXCEPT !.def = mem[i], !.held = FALSE] ELSE r

Drop(c) ==
  \E i \in work.drops[c] :
    /\ Begin(c) /\ mem[i] # None
    /\ mem' = [mem EXCEPT ![i] = None]
    /\ IF i \in TriggerIds
       THEN \E k \in DOMAIN order[i[3]] :
              order[i[3]][k] = i /\ order' = [order EXCEPT ![i[3]] = RemoveAt(@, k)]
       ELSE UNCHANGED order
    /\ ddl' = [d \in Clients |->
                 IF d = c THEN [step |-> "delete", id |-> i, def |-> None, held |-> FALSE]
                          ELSE LetGo(ddl[d], i)]
    /\ due' = {LetGo(r, i) : r \in due}
    /\ UNCHANGED <<work, disk, running, tick, age, since>>

Delete(c) ==
  /\ ddl[c].step = "delete"
  /\ disk' = [disk EXCEPT ![Key(ddl[c].id)] = None]
  /\ NextDDL(c, NoDDL)
  /\ UNCHANGED <<work, catalog, running, timing>>

----------------------------------------------------------------------------
(* Running statements                                                      *)

Frame(kind, todo, of, phase, rows, bare) ==
  [kind |-> kind, todo |-> todo, of |-> of, phase |-> phase, rows |-> rows,
   wrote |-> FALSE, bare |-> bare]
BodyOf(of, todo) == Frame("body", todo, of, "in", 0, FALSE)

Top(c) == Head(stack[c])
OnTop(c, kind, phase) ==
  stack[c] # << >> /\ Top(c).kind = kind /\ Top(c).phase = phase
Under(c) == Tail(stack[c])
Stack(c, st) == stack' = [stack EXCEPT ![c] = st]
Push(c, f) == Stack(c, <<f>> \o stack[c])
ToPhase(c, phase) == Stack(c, <<[Top(c) EXCEPT !.phase = phase]>> \o Under(c))
Fail(c) == failed' = failed \cup {c}

\* A session's statement.
Run(c) ==
  \E s \in work.runs[c] :
    /\ Begin(c)
    /\ Push(c, BodyOf(None, <<s>>))
    /\ UNCHANGED <<work, catalog, disk, ddl, failed, reg, depth, unsaved, timing>>

\* Execute: the next statement of a body.  It fails if its context is over, if
\* it is refused, or if the procedure it calls does not exist.
Execute(c) ==
  LET s == Head(Top(c).todo)
      rest == <<[Top(c) EXCEPT !.todo = Tail(@)]>> \o Under(c) IN
  /\ OnTop(c, "body", "in") \/ OnTop(c, "trigger", "in")
  /\ Top(c).todo # << >> /\ c \notin failed
  /\ \/ Fail(c) /\ UNCHANGED stack
     \/ /\ s.do = "insert"
        /\ Stack(c, <<Frame("insert", << >>, s.on, "before", s.rows, s.bare)>> \o rest)
        /\ UNCHANGED failed
     \/ /\ s.do = "call" /\ mem[s.on] # None
        /\ Stack(c, <<BodyOf(s.on, mem[s.on].body)>> \o rest)
        /\ UNCHANGED failed
     \/ /\ s.do = "describe"
        /\ Stack(c, rest)
        /\ UNCHANGED failed
  /\ UNCHANGED <<work, catalog, disk, ddl, reg, depth, unsaved, timing>>

\* A body that is done, or that an error ends, returns to what ran it.
Return(c) ==
  /\ OnTop(c, "body", "in")
  /\ Top(c).todo = << >> \/ c \in failed
  /\ Stack(c, Under(c))
  /\ failed' = IF Under(c) = << >> THEN failed \ {c} ELSE failed
  /\ UNCHANGED <<work, catalog, disk, ddl, reg, depth, unsaved, timing>>

\* executeTriggers: too deep is an error; otherwise triggerDepth++, a read and
\* a write that no lock makes one.
EnterTriggers(c) ==
  /\ OnTop(c, "insert", "before") \/ OnTop(c, "insert", "after")
  /\ c \notin failed
  /\ IF depth >= MaxDepth
     THEN Fail(c) /\ UNCHANGED <<stack, reg>>
     ELSE /\ Push(c, Frame("trigger", << >>, Top(c).of, "entering", 0, Top(c).bare))
          /\ reg' = [reg EXCEPT ![c] = depth]
          /\ UNCHANGED failed
  /\ UNCHANGED <<work, catalog, disk, ddl, depth, unsaved, timing>>

\* The bodies, one after the other, of the table's triggers of this timing.  A
\* table named with its schema has none: they are kept under its bare name.
Fired(t, mark, bare) ==
  LET o == order[t]
      body[k \in 0..Len(o)] ==
        IF k = 0 THEN << >>
        ELSE body[k - 1] \o (IF mem[o[k]].mark = mark THEN mem[o[k]].body ELSE << >>)
  IN  IF bare THEN body[Len(o)] ELSE << >>

GetTriggers(c) ==
  LET insert == stack[c][2] IN
  /\ OnTop(c, "trigger", "entering")
  /\ depth' = reg[c] + 1
  /\ Stack(c, <<[Top(c) EXCEPT !.phase = "in",
                   !.todo = Fired(insert.of, insert.phase, insert.bare)]>> \o Under(c))
  /\ UNCHANGED <<work, catalog, disk, ddl, failed, reg, unsaved, timing>>

\* Mutant: an error returns at once.
LeaveTriggersOrFail(c) ==
  /\ OnTop(c, "trigger", "in")
  /\ Top(c).todo = << >> \/ c \in failed
  /\ IF c \in failed THEN Stack(c, Under(c)) /\ UNCHANGED reg
                     ELSE ToPhase(c, "leaving") /\ reg' = [reg EXCEPT ![c] = depth]
  /\ UNCHANGED <<work, catalog, disk, ddl, failed, depth, unsaved, timing>>

\* triggerDepth-- is deferred: it comes after an error too.
LeaveTriggers(c) ==
  /\ OnTop(c, "trigger", "in")
  /\ Top(c).todo = << >> \/ c \in failed
  /\ reg' = [reg EXCEPT ![c] = depth]
  /\ ToPhase(c, "leaving")
  /\ UNCHANGED <<work, catalog, disk, ddl, failed, depth, unsaved, timing>>

\* Mutant: the row stays the same one.
AfterTriggersAgain(insert) ==
  CASE insert.phase = "before" -> [insert EXCEPT !.phase = "row"]
    [] insert.rows > 1 -> [insert EXCEPT !.phase = "before"]
    [] OTHER -> [insert EXCEPT !.phase = "persist"]

\* After the row's BEFORE triggers comes the row, after its AFTER triggers the
\* next row.
AfterTriggers(insert) ==
  CASE insert.phase = "before" -> [insert EXCEPT !.phase = "row"]
    [] insert.rows > 1 -> [insert EXCEPT !.phase = "before", !.rows = @ - 1]
    [] OTHER -> [insert EXCEPT !.phase = "persist"]

LeftTriggers(c) ==
  LET insert == stack[c][2] IN
  /\ OnTop(c, "trigger", "leaving")
  /\ depth' = reg[c] - 1
  /\ Stack(c, <<IF c \in failed THEN insert ELSE AfterTriggers(insert)>> \o Tail(Under(c)))
  /\ UNCHANGED <<work, catalog, disk, ddl, failed, reg, unsaved, timing>>

\* The row is inserted, or it is refused.
InsertRow(c) ==
  /\ OnTop(c, "insert", "row") /\ c \notin failed
  /\ \/ Fail(c) /\ UNCHANGED <<stack, unsaved>>
     \/ /\ unsaved' = unsaved \cup {Top(c).of}
        /\ Stack(c, <<[Top(c) EXCEPT !.phase = "after", !.wrote = TRUE]>> \o Under(c))
        /\ UNCHANGED failed
  /\ UNCHANGED <<work, catalog, disk, ddl, reg, depth, timing>>

\* An error ends the loop over the rows, not the statement.
BreakOff(c) ==
  /\ c \in failed /\ stack[c] # << >> /\ Top(c).kind = "insert" /\ Top(c).phase # "persist"
  /\ ToPhase(c, "persist")
  /\ UNCHANGED <<work, catalog, disk, ddl, failed, reg, depth, unsaved, timing>>

\* Mutant: an INSERT that failed saves nothing.
PersistIfDone(c) ==
  /\ OnTop(c, "insert", "persist")
  /\ unsaved' = IF Top(c).wrote /\ c \notin failed THEN unsaved \ {Top(c).of} ELSE unsaved
  /\ Stack(c, Under(c))
  /\ UNCHANGED <<work, catalog, disk, ddl, failed, reg, depth, timing>>

\* Whatever was inserted is saved.
Persist(c) ==
  /\ OnTop(c, "insert", "persist")
  /\ unsaved' = IF Top(c).wrote THEN unsaved \ {Top(c).of} ELSE unsaved
  /\ Stack(c, Under(c))
  /\ UNCHANGED <<work, catalog, disk, ddl, failed, reg, depth, timing>>

----------------------------------------------------------------------------
(* The scheduler                                                           *)

Least(x, y) == IF x < y THEN x ELSE y
Longest == IF JobIds = {} THEN 0
           ELSE CHOOSE n \in {Interval[j] : j \in JobIds} : \A j \in JobIds : Interval[j] <= n

\* A minute passes; the ticker's channel holds one tick.
Minute ==
  /\ work.ticks
  /\ tick' = TRUE
  /\ since' = [j \in JobIds |-> Least(since[j] + 1, Interval[j])]
  /\ age' = IF due = {} /\ Quiet(Scheduler) THEN 0 ELSE Least(age + 1, Longest)
  /\ UNCHANGED <<work, catalog, disk, ddl, running, due>>

\* checkAndExecuteJobs takes all jobs and the time.
Snapshot ==
  /\ tick /\ due = {} /\ Quiet(Scheduler)
  /\ tick' = FALSE
  /\ due' = {[id |-> j, def |-> mem[j], due |-> since[j] >= Interval[j], held |-> TRUE] :
               j \in {j \in JobIds : mem[j] # None}}
  /\ age' = 0
  /\ UNCHANGED <<work, catalog, disk, ddl, running, since>>

\* Mutant: LastRun is set also when it is not time to run.
StartJobMarked ==
  \E r \in due :
    LET job == IF r.held THEN mem[r.id] ELSE r.def IN
    /\ Quiet(Scheduler)
    /\ due' = due \ {r}
    /\ since' = IF r.held THEN [since EXCEPT ![r.id] = Least(age, Interval[r.id])] ELSE since
    /\ IF job.mark = "enabled" /\ r.due
       THEN Push(Scheduler, BodyOf(r.id, job.body))
       ELSE UNCHANGED stack
    /\ UNCHANGED <<work, catalog, disk, ddl, failed, reg, depth, unsaved, tick, age>>

\* It looks at one job after the other, as it is by now, and starts it if it is
\* enabled and was due at that time, which is its LastRun from now on.
StartJob ==
  \E r \in due :
    LET job == IF r.held THEN mem[r.id] ELSE r.def IN
    /\ Quiet(Scheduler)
    /\ due' = due \ {r}
    /\ IF job.mark = "enabled" /\ r.due
       THEN /\ Push(Scheduler, BodyOf(r.id, job.body))
            /\ since' = IF r.held THEN [since EXCEPT ![r.id] = Least(age, Interval[r.id])] ELSE since
       ELSE UNCHANGED <<stack, since>>
    /\ UNCHANGED <<work, catalog, disk, ddl, failed, reg, depth, unsaved, tick, age>>

----------------------------------------------------------------------------
\* A crash, and loadDatabase: the routines whose keys are there; no statement
\* is under way and no job has run yet.
Restart ==
  /\ work.restarts
  /\ mem' = [i \in Ids |-> Loaded(i)]
  /\ order' \in {o \in Orders : Ordered(o, mem')}
  /\ ddl' = [c \in Clients |-> NoDDL]
  /\ stack' = [c \in Threads |-> << >>]
  /\ failed' = {} /\ reg' = [c \in Threads |-> 0] /\ depth' = 0
  /\ unsaved' = {}
  /\ tick' = FALSE /\ due' = {} /\ age' = 0
  /\ since' = Interval
  /\ UNCHANGED <<work, disk>>

DDL(c) == Create(c) \/ AlterJob(c) \/ Fetch(c) \/ Save(c) \/ Drop(c) \/ Delete(c)
Step(c) == Execute(c) \/ Return(c) \/ EnterTriggers(c) \/ GetTriggers(c)
           \/ LeaveTriggers(c) \/ LeftTriggers(c) \/ InsertRow(c) \/ BreakOff(c) \/ Persist(c)

Next ==
  \/ \E c \in Clients : DDL(c) \/ Run(c)
  \/ \E c \in Threads : Step(c)
  \/ Minute \/ Snapshot \/ StartJob
  \/ Restart

\* Goroutines are scheduled and the ticker ticks; no client has to send
\* anything.
Fairness ==
  /\ \A c \in Threads : WF_vars(Step(c))
  /\ WF_vars(Minute) /\ WF_vars(Snapshot) /\ WF_vars(StartJob)

Spec == Init /\ [][Next]_vars /\ Fairness

----------------------------------------------------------------------------
(* What the routines keep                                                  *)

\* The routines that storage cannot encode: a restart may lose them at any time.
Unsavable == {i \in Ids : mem[i] # None /\ ~Encodable(mem[i])}

\* What the database promises of them, those apart.
Durable == INSTANCE DurableObjects WITH
  Objects <- Ids,
  objs <- mem,
  may <- [i \in Ids |-> {mem[i], Loaded(i)}],
  busy <- {ddl[c].id : c \in {c \in Clients : ddl[c] # NoDDL}} \cup Unsavable

\* Procedures, triggers and jobs whose bodies can be encoded, and that no
\* CREATE, ALTER or DROP is at work on, come back from a restart as they are,
\* whatever was not saved meanwhile; none comes back that was dropped.
DurableSpec == Durable!Spec

\* One thread runs statements: the scheduler, or a session at a time.
OneRuns == IF work.ticks THEN \A c \in Clients : work.runs[c] = {} ELSE work.alone

\* The calls of executeTriggers that have counted themselves and not yet
\* uncounted.
Nesting(c) ==
  Cardinality({k \in DOMAIN stack[c] : stack[c][k].kind = "trigger"
                                        /\ stack[c][k].phase # "entering"})

\* While one thread runs statements, triggerDepth is how deep it is in triggers,
\* after any number of errors on the way: nothing is refused too early or too
\* late, and at rest it is 0.
DepthIsNesting ==
  OneRuns => /\ \A c \in Threads : Nesting(c) # 0 => depth = Nesting(c)
             /\ (\A c \in Threads : Nesting(c) = 0) => depth = 0

\* When no statement is under way every inserted row is on disk, also those of
\* INSERTs that failed, and of INSERTs of a trigger that failed.
RowsReachDisk == (\A c \in Threads : Quiet(c)) => unsaved = {}

\* A statement ends, whatever its triggers set off: the depth is limited.  (No
\* procedure calls itself, directly or through others.)
StatementsEnd == \A c \in Threads : stack[c] # << >> ~> stack[c] = << >>

Runs(j) == \E k \in DOMAIN stack[Scheduler] :
             stack[Scheduler][k].kind = "body" /\ stack[Scheduler][k].of = j

\* A job that is there and enabled from some time on runs again and again,
\* whatever other jobs do and whatever is created and dropped meanwhile.
JobsRun ==
  \A j \in JobIds :
    work.ticks /\ <>[](mem[j] # None /\ mem[j].mark = "enabled") => []<>Runs(j)
=============================================================================
