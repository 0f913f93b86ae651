----------------------------- MODULE RoutinesProofs -----------------------------
(***************************************************************************)
(* For any sessions, tables, routines and workloads: the variables have    *)
(* their types; the list an INSERT goes through has every trigger of its   *)
(* table once; every row that an INSERT has put into memory is on disk     *)
(* once no statement is under way, however deep the triggers went and      *)
(* whatever failed on the way; triggerDepth is how deep they are nested    *)
(* while one thread runs; and routines, triggers and jobs survive a        *)
(* restart unless sessions are in each other's way.                        *)
(***************************************************************************)
EXTENDS Routines, FiniteSetTheorems, SequenceTheorems, WellFoundedInduction, TLAPS

----------------------------------------------------------------------------
(* The shape of the stacks                                                 *)

IsSequence(s) == \E S : s \in Seq(S)

IsFrame(f) ==
  /\ f = [kind |-> f.kind, todo |-> f.todo, of |-> f.of, phase |-> f.phase,
          rows |-> f.rows, wrote |-> f.wrote, bare |-> f.bare]
  /\ f.kind \in {"body", "trigger", "insert"}

\* executeTriggers is called by executeInsert and by nothing else.
TriggersOverInserts(s) ==
  \A i \in 1..Len(s) :
    s[i].kind = "trigger" => i + 1 \in 1..Len(s) /\ s[i + 1].kind = "insert"

WellFormed(s) ==
  /\ IsSequence(s)
  /\ \A i \in 1..Len(s) : IsFrame(s[i])
  /\ TriggersOverInserts(s)

\* An INSERT that has put rows into t and will save them.
Owes(s, t) ==
  \E i \in 1..Len(s) : s[i].kind = "insert" /\ s[i].wrote /\ s[i].of = t

LEMMA PushSequence ==
  ASSUME NEW s, IsSequence(s), NEW f
  PROVE  /\ IsSequence(<<f>> \o s) /\ Len(<<f>> \o s) = Len(s) + 1
         /\ (<<f>> \o s)[1] = f
         /\ \A i \in 1..Len(s) : (<<f>> \o s)[i + 1] = s[i]
         /\ Len(s) \in Nat
<1>1. PICK S : s \in Seq(S)
  BY DEF IsSequence
<1> DEFINE T == S \cup {f}
<1>2. s \in Seq(T) /\ <<f>> \in Seq(T)
  BY <1>1
<1>3. <<f>> \o s \in Seq(T)
  BY <1>2
<1>4. /\ Len(<<f>> \o s) = Len(s) + 1 /\ Len(s) \in Nat /\ (<<f>> \o s)[1] = f
      /\ \A i \in 1..Len(s) : (<<f>> \o s)[i + 1] = s[i]
  BY <1>2
<1>5. QED
  BY <1>3, <1>4 DEF IsSequence

LEMMA TailSequence ==
  ASSUME NEW s, IsSequence(s), s # << >>
  PROVE  /\ IsSequence(Tail(s)) /\ Len(Tail(s)) = Len(s) - 1
         /\ Head(s) = s[1] /\ Len(s) \in Nat \ {0}
         /\ \A i \in 1..Len(s) - 1 : Tail(s)[i] = s[i + 1]
<1>1. PICK S : s \in Seq(S)
  BY DEF IsSequence
<1>2. Tail(s) \in Seq(S) /\ Len(Tail(s)) = Len(s) - 1 /\ Len(s) \in Nat \ {0} /\ Head(s) = s[1]
  BY <1>1
<1>3. \A i \in 1..Len(s) - 1 : Tail(s)[i] = s[i + 1]
  BY <1>1
<1>4. QED
  BY <1>2, <1>3 DEF IsSequence

LEMMA EmptySequence == WellFormed(<< >>) /\ Len(<< >>) = 0
<1>1. << >> \in Seq({}) /\ Len(<< >>) = 0
  OBVIOUS
<1>2. IsSequence(<< >>)
  BY <1>1 DEF IsSequence
<1>3. QED
  BY <1>1, <1>2 DEF WellFormed, TriggersOverInserts

\* A frame that is no executeTriggers may come on top of any stack, an
\* executeTriggers on top of an INSERT; what is owed stays owed.
LEMMA PushFrame ==
  ASSUME NEW s, WellFormed(s), NEW f, IsFrame(f),
         f.kind = "trigger" => s # << >> /\ s[1].kind = "insert"
  PROVE  /\ WellFormed(<<f>> \o s)
         /\ \A t : Owes(s, t) => Owes(<<f>> \o s, t)
         /\ \A t : f.kind = "insert" /\ f.wrote /\ f.of = t => Owes(<<f>> \o s, t)
<1> DEFINE p == <<f>> \o s
<1>1. /\ IsSequence(p) /\ Len(p) = Len(s) + 1 /\ p[1] = f /\ Len(s) \in Nat
      /\ \A i \in 1..Len(s) : p[i + 1] = s[i]
  <2>1. IsSequence(s)
    BY DEF WellFormed
  <2>2. QED
    BY <2>1, PushSequence, ZenonT(60)
<1>2. \A i \in 1..Len(p) : i # 1 => i - 1 \in 1..Len(s) /\ p[i] = s[i - 1]
  <2>1. TAKE i \in 1..Len(p)
  <2>2. HAVE i # 1
  <2>3. i - 1 \in 1..Len(s)
    BY <1>1, <2>2
  <2>4. p[(i - 1) + 1] = s[i - 1]
    BY <1>1, <2>3
  <2>5. QED
    BY <2>3, <2>4
<1>3. \A i \in 1..Len(p) : IsFrame(p[i])
  BY <1>1, <1>2 DEF WellFormed
<1>4. ASSUME NEW i \in 1..Len(p), p[i].kind = "trigger"
      PROVE  i + 1 \in 1..Len(p) /\ p[i + 1].kind = "insert"
  <2>1. CASE i = 1
    <3>1. s # << >> /\ s[1].kind = "insert"
      BY <1>1, <1>4, <2>1
    <3>2. Len(s) # 0
      BY <3>1 DEF WellFormed, IsSequence
    <3>3. QED
      BY <1>1, <2>1, <3>1, <3>2
  <2>2. CASE i # 1
    <3>1. i - 1 \in 1..Len(s) /\ s[i - 1].kind = "trigger"
      BY <1>2, <1>4, <2>2
    <3>2. i \in 1..Len(s) /\ s[i].kind = "insert"
      BY <3>1 DEF WellFormed, TriggersOverInserts
    <3>3. QED
      BY <1>1, <3>2
  <2>3. QED
    BY <2>1, <2>2
<1>5. WellFormed(p)
  BY <1>1, <1>3, <1>4 DEF WellFormed, TriggersOverInserts
<1>6. ASSUME NEW t, Owes(s, t) PROVE Owes(p, t)
  <2>1. PICK i \in 1..Len(s) : s[i].kind = "insert" /\ s[i].wrote /\ s[i].of = t
    BY <1>6 DEF Owes
  <2>2. i + 1 \in 1..Len(p) /\ p[i + 1] = s[i]
    BY <1>1
  <2>3. QED
    BY <2>1, <2>2 DEF Owes
<1>7. ASSUME NEW t, f.kind = "insert", f.wrote, f.of = t PROVE Owes(p, t)
  <2>1. 1 \in 1..Len(p)
    BY <1>1
  <2>2. QED
    BY <1>1, <1>7, <2>1 DEF Owes
<1>8. QED
  BY <1>5, <1>6, <1>7

\* What is under a frame; only the frame itself is no longer owed for.
LEMMA PopFrame ==
  ASSUME NEW s, WellFormed(s), s # << >>
  PROVE  /\ WellFormed(Tail(s)) /\ IsFrame(Head(s))
         /\ Head(s).kind = "trigger" => Tail(s) # << >> /\ Head(Tail(s)).kind = "insert"
         /\ \A t : Owes(s, t) =>
                     \/ Owes(Tail(s), t)
                     \/ Head(s).kind = "insert" /\ Head(s).wrote /\ Head(s).of = t
<1> DEFINE u == Tail(s)
<1>1. /\ IsSequence(u) /\ Len(u) = Len(s) - 1 /\ Head(s) = s[1] /\ Len(s) \in Nat \ {0}
      /\ \A i \in 1..Len(s) - 1 : u[i] = s[i + 1]
  BY TailSequence DEF WellFormed
<1>2. \A i \in 1..Len(u) : i + 1 \in 1..Len(s) /\ u[i] = s[i + 1]
  BY <1>1
<1>3. \A i \in 1..Len(u) : IsFrame(u[i])
  BY <1>2 DEF WellFormed
<1>4. ASSUME NEW i \in 1..Len(u), u[i].kind = "trigger"
      PROVE  i + 1 \in 1..Len(u) /\ u[i + 1].kind = "insert"
  <2>1. (i + 1) + 1 \in 1..Len(s) /\ s[(i + 1) + 1].kind = "insert"
    BY <1>2, <1>4 DEF WellFormed, TriggersOverInserts
  <2>2. i + 1 \in 1..Len(u)
    BY <1>1, <2>1
  <2>3. QED
    BY <1>2, <2>1, <2>2
<1>5. WellFormed(u)
  BY <1>1, <1>3, <1>4 DEF WellFormed, TriggersOverInserts
<1>6. IsFrame(Head(s))
  BY <1>1 DEF WellFormed
<1>7. ASSUME Head(s).kind = "trigger" PROVE u # << >> /\ Head(u).kind = "insert"
  <2>1. 2 \in 1..Len(s) /\ s[2].kind = "insert"
    <3>1. 1 \in 1..Len(s) /\ s[1].kind = "trigger"
      BY <1>1, <1>7
    <3>2. 1 + 1 \in 1..Len(s) /\ s[1 + 1].kind = "insert"
      BY <3>1 DEF WellFormed, TriggersOverInserts
    <3>3. QED
      BY <3>2
  <2>2. 1 \in 1..Len(u) /\ u[1].kind = "insert"
    BY <1>1, <1>2, <2>1
  <2>3. u # << >>
    BY <2>2, EmptySequence
  <2>4. Head(u) = u[1]
    BY <1>1, <2>3, TailSequence
  <2>5. QED
    BY <2>2, <2>3, <2>4
<1>8. ASSUME NEW t, Owes(s, t), ~Owes(u, t)
      PROVE  Head(s).kind = "insert" /\ Head(s).wrote /\ Head(s).of = t
  <2>1. PICK i \in 1..Len(s) : s[i].kind = "insert" /\ s[i].wrote /\ s[i].of = t
    BY <1>8 DEF Owes
  <2>2. CASE i = 1
    BY <1>1, <2>1, <2>2
  <2>3. CASE i # 1
    <3>1. i - 1 \in 1..Len(u) /\ (i - 1) + 1 = i
      BY <1>1, <2>3
    <3>2. u[i - 1] = s[i]
      BY <1>2, <3>1
    <3>3. QED
      BY <1>8, <2>1, <3>1, <3>2 DEF Owes
  <2>4. QED
    BY <2>2, <2>3
<1>9. QED
  BY <1>5, <1>6, <1>7, <1>8

\* The innermost frame goes on: it stays what it is, for the same table.
LEMMA ReplaceFrame ==
  ASSUME NEW s, WellFormed(s), s # << >>, NEW g, IsFrame(g),
         g.kind = Head(s).kind, g.of = Head(s).of, Head(s).wrote => g.wrote
  PROVE  /\ WellFormed(<<g>> \o Tail(s))
         /\ \A t : Owes(s, t) => Owes(<<g>> \o Tail(s), t)
         /\ \A t : g.kind = "insert" /\ g.wrote /\ g.of = t => Owes(<<g>> \o Tail(s), t)
<1>1. /\ WellFormed(Tail(s))
      /\ Head(s).kind = "trigger" => Tail(s) # << >> /\ Head(Tail(s)).kind = "insert"
      /\ \A t : Owes(s, t) =>
                  \/ Owes(Tail(s), t)
                  \/ Head(s).kind = "insert" /\ Head(s).wrote /\ Head(s).of = t
  BY PopFrame
<1>2. g.kind = "trigger" => Tail(s) # << >> /\ Tail(s)[1].kind = "insert"
  <2>1. Tail(s) # << >> => Head(Tail(s)) = Tail(s)[1]
    BY <1>1, TailSequence DEF WellFormed
  <2>2. QED
    BY <1>1, <2>1
<1>3. /\ WellFormed(<<g>> \o Tail(s))
      /\ \A t : Owes(Tail(s), t) => Owes(<<g>> \o Tail(s), t)
      /\ \A t : g.kind = "insert" /\ g.wrote /\ g.of = t => Owes(<<g>> \o Tail(s), t)
  BY <1>1, <1>2, PushFrame
<1>4. QED
  BY <1>1, <1>3

LEMMA FrameIsFrame ==
  ASSUME NEW kind \in {"body", "trigger", "insert"}, NEW todo, NEW of, NEW phase, NEW rows, NEW bare
  PROVE  /\ IsFrame(Frame(kind, todo, of, phase, rows, bare))
         /\ Frame(kind, todo, of, phase, rows, bare).kind = kind
  BY DEF IsFrame, Frame

\* A change of the fields that say how far it is leaves a frame what it is.
GoesOn(f, g) == IsFrame(g) /\ g.kind = f.kind /\ g.of = f.of /\ (f.wrote => g.wrote)

LEMMA ChangedField ==
  ASSUME NEW f, IsFrame(f), NEW x
  PROVE  /\ GoesOn(f, [f EXCEPT !.todo = x]) /\ GoesOn(f, [f EXCEPT !.phase = x])
         /\ GoesOn(f, [f EXCEPT !.rows = x])
         /\ GoesOn(f, [f EXCEPT !.wrote = TRUE]) /\ [f EXCEPT !.wrote = TRUE].wrote
<1>1. /\ f = [kind |-> f.kind, todo |-> f.todo, of |-> f.of, phase |-> f.phase,
              rows |-> f.rows, wrote |-> f.wrote, bare |-> f.bare]
      /\ f.kind \in {"body", "trigger", "insert"}
  BY DEF IsFrame
<1>2. GoesOn(f, [f EXCEPT !.todo = x])
  BY <1>1 DEF GoesOn, IsFrame
<1>3. GoesOn(f, [f EXCEPT !.phase = x])
  BY <1>1 DEF GoesOn, IsFrame
<1>4. GoesOn(f, [f EXCEPT !.rows = x])
  BY <1>1 DEF GoesOn, IsFrame
<1>5. \A v : /\ IsFrame([f EXCEPT !.wrote = v]) /\ [f EXCEPT !.wrote = v].wrote = v
             /\ [f EXCEPT !.wrote = v].kind = f.kind /\ [f EXCEPT !.wrote = v].of = f.of
  BY <1>1 DEF IsFrame
<1>6. /\ IsFrame([f EXCEPT !.wrote = TRUE]) /\ [f EXCEPT !.wrote = TRUE].wrote
      /\ [f EXCEPT !.wrote = TRUE].kind = f.kind /\ [f EXCEPT !.wrote = TRUE].of = f.of
  BY <1>5, Zenon
<1>7. QED
  BY <1>2, <1>3, <1>4, <1>6 DEF GoesOn

LEMMA ChangedPhase ==
  ASSUME NEW f, IsFrame(f), NEW x, NEW y
  PROVE  /\ GoesOn(f, [f EXCEPT !.phase = x, !.todo = y])
         /\ GoesOn(f, [f EXCEPT !.phase = x, !.rows = y])
         /\ GoesOn(f, [f EXCEPT !.phase = x, !.wrote = TRUE])
         /\ [f EXCEPT !.phase = x, !.wrote = TRUE].wrote
<1> DEFINE h == [f EXCEPT !.phase = x]
<1>1. GoesOn(f, h)
  BY ChangedField
<1>2. [f EXCEPT !.phase = x, !.todo = y] = [h EXCEPT !.todo = y]
  OBVIOUS
<1>3. [f EXCEPT !.phase = x, !.rows = y] = [h EXCEPT !.rows = y]
  OBVIOUS
<1>4. [f EXCEPT !.phase = x, !.wrote = TRUE] = [h EXCEPT !.wrote = TRUE]
  OBVIOUS
<1> HIDE DEF h
<1>5. IsFrame(h)
  BY <1>1 DEF GoesOn
<1>6. /\ GoesOn(h, [h EXCEPT !.todo = y]) /\ GoesOn(h, [h EXCEPT !.rows = y])
      /\ GoesOn(h, [h EXCEPT !.wrote = TRUE]) /\ [h EXCEPT !.wrote = TRUE].wrote
  BY <1>5, ChangedField
<1>7. QED
  BY <1>1, <1>2, <1>3, <1>4, <1>6 DEF GoesOn

----------------------------------------------------------------------------
(* The invariant                                                           *)

\* A table with rows that are not on disk is owed a save by an INSERT that is
\* still on a stack.
RowsInv ==
  /\ stack = [c \in Threads |-> stack[c]]
  /\ \A c \in Threads : WellFormed(stack[c])
  /\ \A t \in unsaved : \E c \in Threads : Owes(stack[c], t)

LEMMA InitRows == Init => RowsInv
<1> SUFFICES ASSUME Init PROVE RowsInv
  OBVIOUS
<1>1. stack = [c \in Threads |-> << >>] /\ unsaved = {}
  BY DEF Init
<1>2. \A c \in Threads : stack[c] = << >>
  BY <1>1
<1>3. QED
  BY <1>1, <1>2, EmptySequence DEF RowsInv

\* A step of one thread: what it owed it owes, unless it is on disk by now.
LEMMA StackStep ==
  ASSUME RowsInv, NEW c \in Threads, NEW st, Stack(c, st), WellFormed(st),
         \A t \in unsaved' : \/ t \in unsaved /\ (Owes(stack[c], t) => Owes(st, t))
                             \/ Owes(st, t)
  PROVE  RowsInv'
<1>1. stack' = [stack EXCEPT ![c] = st] /\ stack = [d \in Threads |-> stack[d]]
  BY DEF Stack, RowsInv
<1>2. stack'[c] = st /\ \A d \in Threads : d # c => stack'[d] = stack[d]
  BY <1>1
<1>3. stack' = [d \in Threads |-> stack'[d]]
  BY <1>1
<1>4. \A d \in Threads : WellFormed(stack'[d])
  BY <1>2 DEF RowsInv
<1>5. ASSUME NEW t \in unsaved' PROVE \E d \in Threads : Owes(stack'[d], t)
  <2>1. CASE Owes(st, t)
    BY <1>2, <2>1
  <2>2. CASE ~Owes(st, t)
    <3>1. t \in unsaved /\ ~Owes(stack[c], t)
      BY <2>2
    <3>2. PICK d \in Threads : Owes(stack[d], t)
      BY <3>1 DEF RowsInv
    <3>3. d # c
      BY <3>1, <3>2
    <3>4. QED
      BY <1>2, <3>2, <3>3
  <2>3. QED
    BY <2>1, <2>2
<1>6. QED
  BY <1>3, <1>4, <1>5 DEF RowsInv

\* A frame comes on top.
LEMMA PushStep ==
  ASSUME RowsInv, NEW c \in Threads, NEW f, IsFrame(f), Push(c, f), unsaved' = unsaved,
         f.kind = "trigger" => stack[c] # << >> /\ stack[c][1].kind = "insert"
  PROVE  RowsInv'
<1>1. WellFormed(stack[c])
  BY DEF RowsInv
<1>2. /\ WellFormed(<<f>> \o stack[c])
      /\ \A t : Owes(stack[c], t) => Owes(<<f>> \o stack[c], t)
  BY <1>1, PushFrame
<1>3. Stack(c, <<f>> \o stack[c])
  BY DEF Push
<1>4. QED
  BY <1>2, <1>3, StackStep

\* The innermost frame goes on.
LEMMA TopStep ==
  ASSUME RowsInv, NEW c \in Threads, stack[c] # << >>, NEW g, GoesOn(Top(c), g),
         Stack(c, <<g>> \o Under(c)),
         \A t \in unsaved' : t \in unsaved \/ (g.kind = "insert" /\ g.wrote /\ g.of = t)
  PROVE  RowsInv'
<1>1. WellFormed(stack[c])
  BY DEF RowsInv
<1>2. /\ WellFormed(<<g>> \o Under(c))
      /\ \A t : Owes(stack[c], t) => Owes(<<g>> \o Under(c), t)
      /\ \A t : g.kind = "insert" /\ g.wrote /\ g.of = t => Owes(<<g>> \o Under(c), t)
  BY <1>1, ReplaceFrame DEF GoesOn, Top, Under
<1>3. QED
  BY <1>2, StackStep

\* The innermost frame goes; an INSERT that wrote has saved its table.
LEMMA PopStep ==
  ASSUME RowsInv, NEW c \in Threads, stack[c] # << >>, Stack(c, Under(c)),
         IF Top(c).kind = "insert" /\ Top(c).wrote
         THEN unsaved' = unsaved \ {Top(c).of} ELSE unsaved' = unsaved
  PROVE  RowsInv'
<1>1. WellFormed(stack[c])
  BY DEF RowsInv
<1>2. /\ WellFormed(Under(c))
      /\ \A t : Owes(stack[c], t) =>
                  \/ Owes(Under(c), t)
                  \/ Top(c).kind = "insert" /\ Top(c).wrote /\ Top(c).of = t
  BY <1>1, PopFrame DEF Top, Under
<1>3. QED
  BY <1>2, StackStep

\* LeftTriggers: executeTriggers returns to its INSERT, which goes on.
LEMMA LeftStep ==
  ASSUME RowsInv, NEW c \in Threads, LeftTriggers(c)
  PROVE  RowsInv'
<1> DEFINE s == stack[c]
           insert == s[2]
           g == IF c \in failed THEN insert ELSE AfterTriggers(insert)
<1>1. s # << >> /\ Top(c).kind = "trigger" /\ Stack(c, <<g>> \o Tail(Under(c))) /\ unsaved' = unsaved
  BY DEF LeftTriggers, OnTop
<1>2. WellFormed(s)
  BY DEF RowsInv
<1>3. /\ WellFormed(Under(c)) /\ Under(c) # << >> /\ Head(Under(c)).kind = "insert"
      /\ \A t : Owes(s, t) => Owes(Under(c), t)
  BY <1>1, <1>2, PopFrame DEF Top, Under
<1>4. Head(Under(c)) = insert
  <2>1. /\ Len(Under(c)) = Len(s) - 1 /\ Len(s) \in Nat
        /\ \A i \in 1..Len(s) - 1 : Under(c)[i] = s[i + 1]
    BY <1>1, <1>2, TailSequence DEF WellFormed, Under
  <2>2. Head(Under(c)) = Under(c)[1] /\ Len(Under(c)) \in Nat \ {0}
    BY <1>3, TailSequence DEF WellFormed
  <2>3. 1 \in 1..Len(s) - 1
    <3>1. Len(Under(c)) >= 1
      BY <2>2
    <3>2. Len(s) - 1 >= 1
      BY <2>1, <3>1
    <3> HIDE DEF s
    <3>3. QED
      BY <2>1, <3>2
  <2>4. QED
    BY <2>1, <2>2, <2>3
<1>5. IsFrame(insert)
  BY <1>3, <1>4, PopFrame
<1>6. GoesOn(insert, g)
  <2>1. GoesOn(insert, insert)
    BY <1>5 DEF GoesOn
  <2>2. GoesOn(insert, AfterTriggers(insert))
    <3>1. GoesOn(insert, [insert EXCEPT !.phase = "row"])
      BY <1>5, ChangedField
    <3>2. GoesOn(insert, [insert EXCEPT !.phase = "before", !.rows = insert.rows - 1])
      BY <1>5, ChangedPhase
    <3>3. GoesOn(insert, [insert EXCEPT !.phase = "persist"])
      BY <1>5, ChangedField
    <3>4. QED
      BY <3>1, <3>2, <3>3 DEF AfterTriggers
  <2>3. QED
    BY <2>1, <2>2
<1>7. /\ WellFormed(<<g>> \o Tail(Under(c)))
      /\ \A t : Owes(Under(c), t) => Owes(<<g>> \o Tail(Under(c)), t)
  BY <1>3, <1>4, <1>6, ReplaceFrame DEF GoesOn
<1>8. QED
  BY <1>1, <1>3, <1>7, StackStep

LEMMA NextRows == RowsInv /\ [Next]_vars => RowsInv'
<1> SUFFICES ASSUME RowsInv, [Next]_vars PROVE RowsInv'
  OBVIOUS
<1>1. ASSUME UNCHANGED <<stack, unsaved>> PROVE RowsInv'
  BY <1>1 DEF RowsInv
<1>2. ASSUME NEW c \in Clients, DDL(c) PROVE RowsInv'
  BY <1>1, <1>2 DEF DDL, Create, AlterJob, Fetch, Save, Drop, Delete, running
<1>3. ASSUME NEW c \in Clients, Run(c) PROVE RowsInv'
  <2>1. PICK s \in work.runs[c] : Push(c, BodyOf(None, <<s>>)) /\ unsaved' = unsaved
    BY <1>3 DEF Run
  <2>2. IsFrame(BodyOf(None, <<s>>)) /\ BodyOf(None, <<s>>).kind = "body"
    BY FrameIsFrame DEF BodyOf
  <2>3. QED
    BY <2>1, <2>2, PushStep DEF Threads
<1>4. ASSUME NEW c \in Threads, Step(c) PROVE RowsInv'
  <2>1. stack[c] # << >>
    BY <1>4 DEF Step, Execute, Return, EnterTriggers, GetTriggers, LeaveTriggers, LeftTriggers,
                InsertRow, BreakOff, Persist, OnTop
  <2>2. IsFrame(Top(c)) /\ WellFormed(stack[c]) /\ Top(c) = stack[c][1]
    <3>1. WellFormed(stack[c])
      BY DEF RowsInv
    <3>2. Head(stack[c]) = stack[c][1]
      BY <2>1, <3>1, TailSequence DEF WellFormed
    <3>3. QED
      BY <2>1, <3>1, <3>2, PopFrame DEF Top
  <2>3. CASE Execute(c)
    <3> DEFINE s == Head(Top(c).todo)
               g == [Top(c) EXCEPT !.todo = Tail(@)]
               rest == <<g>> \o Under(c)
    <3>1. GoesOn(Top(c), g)
      BY <2>2, ChangedField
    <3>2. /\ WellFormed(rest)
          /\ \A t : Owes(stack[c], t) => Owes(rest, t)
      BY <2>1, <2>2, <3>1, ReplaceFrame DEF GoesOn, Top, Under
    <3>3. ASSUME NEW f, IsFrame(f), f.kind # "trigger", Stack(c, <<f>> \o rest), unsaved' = unsaved
          PROVE  RowsInv'
      <4>1. /\ WellFormed(<<f>> \o rest)
            /\ \A t : Owes(rest, t) => Owes(<<f>> \o rest, t)
        BY <3>2, <3>3, PushFrame
      <4>2. QED
        BY <3>2, <3>3, <4>1, StackStep
    <3>4. CASE UNCHANGED stack
      BY <1>1, <2>3, <3>4 DEF Execute
    <3>5. CASE Stack(c, <<Frame("insert", << >>, s.on, "before", s.rows, s.bare)>> \o rest)
      BY <2>3, <3>3, <3>5, FrameIsFrame DEF Execute
    <3>6. CASE Stack(c, <<BodyOf(s.on, mem[s.on].body)>> \o rest)
      BY <2>3, <3>3, <3>6, FrameIsFrame DEF Execute, BodyOf
    <3>7. CASE Stack(c, rest)
      <4>1. unsaved' = unsaved
        BY <2>3 DEF Execute
      <4> HIDE DEF rest
      <4>2. QED
        BY <3>2, <3>7, <4>1, StackStep
    <3>8. QED
      BY <2>3, <3>4, <3>5, <3>6, <3>7 DEF Execute
  <2>4. CASE Return(c)
    BY <2>1, <2>4, PopStep DEF Return, OnTop
  <2>5. CASE EnterTriggers(c)
    <3> DEFINE f == Frame("trigger", << >>, Top(c).of, "entering", 0, Top(c).bare)
    <3>1. UNCHANGED stack \/ Push(c, f)
      BY <2>5 DEF EnterTriggers
    <3>2. unsaved' = unsaved /\ Top(c).kind = "insert"
      BY <2>5 DEF EnterTriggers, OnTop
    <3>3. IsFrame(f)
      BY FrameIsFrame
    <3>4. QED
      BY <1>1, <2>1, <2>2, <3>1, <3>2, <3>3, PushStep
  <2>6. CASE GetTriggers(c)
    <3>1. PICK todo : /\ Stack(c, <<[Top(c) EXCEPT !.phase = "in", !.todo = todo]>> \o Under(c))
                      /\ unsaved' = unsaved
      BY <2>6 DEF GetTriggers
    <3>2. GoesOn(Top(c), [Top(c) EXCEPT !.phase = "in", !.todo = todo])
      BY <2>2, ChangedPhase
    <3>3. PICK g : GoesOn(Top(c), g) /\ Stack(c, <<g>> \o Under(c))
      BY <3>1, <3>2
    <3>4. QED
      BY <2>1, <3>1, <3>3, TopStep
  <2>7. CASE LeaveTriggers(c) \/ BreakOff(c)
    <3>1. PICK phase : ToPhase(c, phase) /\ unsaved' = unsaved
      BY <2>7 DEF LeaveTriggers, BreakOff
    <3>2. Stack(c, <<[Top(c) EXCEPT !.phase = phase]>> \o Under(c))
      BY <3>1 DEF ToPhase
    <3>3. GoesOn(Top(c), [Top(c) EXCEPT !.phase = phase])
      BY <2>2, ChangedField
    <3>4. PICK g : GoesOn(Top(c), g) /\ Stack(c, <<g>> \o Under(c))
      BY <3>2, <3>3
    <3>5. QED
      BY <2>1, <3>1, <3>4, TopStep
  <2>8. CASE LeftTriggers(c)
    BY <2>8, LeftStep
  <2>9. CASE InsertRow(c)
    <3> DEFINE g == [Top(c) EXCEPT !.phase = "after", !.wrote = TRUE]
    <3>1. CASE UNCHANGED <<stack, unsaved>>
      BY <1>1, <3>1
    <3>2. CASE unsaved' = unsaved \cup {Top(c).of} /\ Stack(c, <<g>> \o Under(c))
      <4>1. Top(c).kind = "insert"
        BY <2>9 DEF InsertRow, OnTop
      <4>2. GoesOn(Top(c), g) /\ g.wrote
        BY <2>2, ChangedPhase
      <4>3. g.kind = "insert" /\ g.of = Top(c).of
        BY <4>1, <4>2 DEF GoesOn
      <4> HIDE DEF g
      <4>4. QED
        BY <2>1, <3>2, <4>2, <4>3, TopStep
    <3>3. QED
      BY <2>9, <3>1, <3>2 DEF InsertRow
  <2>10. CASE Persist(c)
    BY <2>1, <2>10, PopStep DEF Persist, OnTop
  <2>11. QED
    BY <1>4, <2>3, <2>4, <2>5, <2>6, <2>7, <2>8, <2>9, <2>10 DEF Step
<1>5. CASE Minute \/ Snapshot
  BY <1>1, <1>5 DEF Minute, Snapshot, running
<1>6. CASE StartJob
  <2>1. unsaved' = unsaved
    BY <1>6 DEF StartJob
  <2>2. UNCHANGED stack \/ \E i, body : Push(Scheduler, BodyOf(i, body))
    BY <1>6 DEF StartJob
  <2>3. ASSUME NEW i, NEW body, Push(Scheduler, BodyOf(i, body)) PROVE RowsInv'
    <3>1. IsFrame(BodyOf(i, body)) /\ BodyOf(i, body).kind = "body"
      BY FrameIsFrame DEF BodyOf
    <3>2. QED
      BY <2>1, <2>3, <3>1, PushStep DEF Threads
  <2>4. QED
    BY <1>1, <2>1, <2>2, <2>3
<1>7. CASE Restart
  <2>1. stack' = [c \in Threads |-> << >>] /\ unsaved' = {}
    BY <1>7 DEF Restart
  <2>2. \A c \in Threads : stack'[c] = << >>
    BY <2>1
  <2>3. QED
    BY <2>1, <2>2, EmptySequence DEF RowsInv
<1>8. CASE UNCHANGED vars
  BY <1>1, <1>8 DEF vars
<1>9. QED
  BY <1>2, <1>3, <1>4, <1>5, <1>6, <1>7, <1>8 DEF Next

----------------------------------------------------------------------------
(* triggerDepth, while one thread runs statements                          *)

\* The calls of executeTriggers on a stack that have counted themselves.
Counts(f) == f.kind = "trigger" /\ f.phase # "entering"
Counted(s) == {i \in 1..Len(s) : Counts(s[i])}

\* Only the innermost frame reads or writes triggerDepth.
Steady(s) == \A i \in 1..Len(s) : i # 1 /\ s[i].kind = "trigger" => s[i].phase = "in"

Reads(f) == f.kind = "trigger" /\ f.phase \in {"entering", "leaving"}

\* No statement begins while another is under way: without a ticker there is no
\* job, and with one there is no session that runs anything.
OneInv ==
  /\ ~work.ticks => tick = FALSE /\ due = {}
  /\ OneRuns => \A c, d \in Threads : stack[c] # << >> /\ stack[d] # << >> => c = d
  /\ OneRuns /\ work.ticks => \A c \in Clients : stack[c] = << >>

\* triggerDepth is what the stack of the running thread says, also between the
\* read and the write of triggerDepth++ and triggerDepth--.
DepthFits ==
  /\ \A c \in Threads : stack[c] # << >> =>
       /\ Steady(stack[c])
       /\ depth = Cardinality(Counted(stack[c]))
       /\ Reads(Head(stack[c])) => reg[c] = depth
  /\ (\A c \in Threads : stack[c] = << >>) => depth = 0

DepthInv ==
  /\ RowsInv
  /\ reg = [c \in Threads |-> reg[c]]
  /\ OneInv
  /\ OneRuns => DepthFits

LEMMA CountedFinite ==
  ASSUME NEW s, WellFormed(s)
  PROVE  /\ IsFiniteSet(Counted(s)) /\ Cardinality(Counted(s)) \in Nat
         /\ Len(s) \in Nat
<1>1. Len(s) \in Nat
  BY DEF WellFormed, IsSequence
<1>2. IsFiniteSet(1..Len(s)) /\ Counted(s) \subseteq 1..Len(s)
  BY <1>1, FS_Interval DEF Counted
<1>3. IsFiniteSet(Counted(s))
  BY <1>2, FS_Subset
<1>4. QED
  BY <1>1, <1>3, FS_CardinalityType

\* A frame on top counts for one or for nothing; those under it move up.
LEMMA CountedPush ==
  ASSUME NEW s, WellFormed(s), NEW f
  PROVE  Cardinality(Counted(<<f>> \o s)) =
           Cardinality(Counted(s)) + (IF Counts(f) THEN 1 ELSE 0)
<1> DEFINE p == <<f>> \o s
           up == {i + 1 : i \in Counted(s)}
           F == [i \in Counted(s) |-> i + 1]
<1>1. /\ Len(p) = Len(s) + 1 /\ p[1] = f /\ Len(s) \in Nat
      /\ \A i \in 1..Len(s) : p[i + 1] = s[i]
  BY PushSequence DEF WellFormed
<1>2. F \in Bijection(Counted(s), up)
  <2>1. Counted(s) \subseteq Nat
    BY <1>1 DEF Counted
  <2>2. F \in [Counted(s) -> up] /\ \A i \in Counted(s) : F[i] = i + 1
    OBVIOUS
  <2>3. \A i, k \in Counted(s) : F[i] = F[k] => i = k
    BY <2>1, <2>2
  <2>4. \A x \in up : \E i \in Counted(s) : F[i] = x
    BY <2>2
  <2> HIDE DEF F, up
  <2>5. QED
    BY <2>2, <2>3, <2>4 DEF Bijection, Injection, Surjection, IsInjective
<1>3. IsFiniteSet(up) /\ Cardinality(up) = Cardinality(Counted(s)) /\ Cardinality(up) \in Nat
  <2> HIDE DEF F, up
  <2>1. ExistsBijection(Counted(s), up)
    BY <1>2 DEF ExistsBijection
  <2>2. QED
    BY <2>1, CountedFinite, FS_Bijection
<1>4. 1 \notin up
  BY DEF Counted
<1>5. Counted(p) = IF Counts(f) THEN up \cup {1} ELSE up
  <2>1. \A i \in 1..Len(p) : i # 1 => i - 1 \in 1..Len(s) /\ p[i] = s[i - 1]
    <3>1. TAKE i \in 1..Len(p)
    <3>2. HAVE i # 1
    <3>3. i - 1 \in 1..Len(s) /\ (i - 1) + 1 = i
      BY <1>1, <3>2
    <3>4. QED
      BY <1>1, <3>3
  <2>2. ASSUME NEW i, i \in up PROVE i \in Counted(p)
    <3>1. PICK k \in Counted(s) : i = k + 1
      BY <2>2
    <3>2. k \in 1..Len(s) /\ Counts(s[k])
      BY DEF Counted
    <3>3. i \in 1..Len(p) /\ p[i] = s[k]
      BY <1>1, <3>1, <3>2
    <3>4. QED
      BY <3>2, <3>3 DEF Counted
  <2>3. ASSUME NEW i, i \in Counted(p), i # 1 PROVE i \in up
    <3>1. i \in 1..Len(p) /\ Counts(p[i])
      BY <2>3 DEF Counted
    <3>2. i - 1 \in 1..Len(s) /\ p[i] = s[i - 1]
      BY <2>1, <2>3, <3>1
    <3>3. i - 1 \in Counted(s) /\ i = (i - 1) + 1
      BY <3>1, <3>2 DEF Counted
    <3>4. QED
      BY <3>3
  <2>4. 1 \in Counted(p) <=> Counts(f)
    BY <1>1 DEF Counted
  <2> HIDE DEF p, up
  <2>5. QED
    BY <1>4, <2>2, <2>3, <2>4
<1> HIDE DEF up, F
<1>6. QED
  BY <1>3, <1>4, <1>5, FS_AddElement

LEMMA HeadAndTail ==
  ASSUME NEW s, IsSequence(s), s # << >>
  PROVE  s = <<Head(s)>> \o Tail(s)
<1>1. PICK S : s \in Seq(S)
  BY DEF IsSequence
<1>2. QED
  BY <1>1

LEMMA CountedTail ==
  ASSUME NEW s, WellFormed(s), s # << >>
  PROVE  /\ Cardinality(Counted(s)) =
              Cardinality(Counted(Tail(s))) + (IF Counts(Head(s)) THEN 1 ELSE 0)
         /\ Cardinality(Counted(Tail(s))) \in Nat
<1>1. WellFormed(Tail(s))
  BY PopFrame
<1>2. s = <<Head(s)>> \o Tail(s)
  BY HeadAndTail DEF WellFormed
<1>3. QED
  BY <1>1, <1>2, CountedPush, CountedFinite

\* The innermost frame goes on: it counts as before, or begins or ends to.
LEMMA CountedTop ==
  ASSUME NEW s, WellFormed(s), s # << >>, NEW g
  PROVE  Cardinality(Counted(<<g>> \o Tail(s))) =
           Cardinality(Counted(s)) - (IF Counts(Head(s)) THEN 1 ELSE 0)
                                   + (IF Counts(g) THEN 1 ELSE 0)
<1>1. WellFormed(Tail(s))
  BY PopFrame
<1>2. Cardinality(Counted(<<g>> \o Tail(s))) =
        Cardinality(Counted(Tail(s))) + (IF Counts(g) THEN 1 ELSE 0)
  BY <1>1, CountedPush
<1>3. QED
  BY <1>2, CountedTail

\* The frame on top of a stack does not read or write triggerDepth just now.
AtRest(s) == s # << >> /\ Head(s).kind = "trigger" => Head(s).phase = "in"

LEMMA SteadyPush ==
  ASSUME NEW s, WellFormed(s), Steady(s), AtRest(s), NEW f
  PROVE  Steady(<<f>> \o s) /\ <<f>> \o s # << >> /\ Head(<<f>> \o s) = f
<1> DEFINE p == <<f>> \o s
<1>1. /\ IsSequence(p) /\ Len(p) = Len(s) + 1 /\ p[1] = f /\ Len(s) \in Nat
      /\ \A i \in 1..Len(s) : p[i + 1] = s[i]
  BY PushSequence DEF WellFormed
<1>2. ASSUME NEW i \in 1..Len(p), i # 1, p[i].kind = "trigger"
      PROVE  p[i].phase = "in"
  <2>1. i - 1 \in 1..Len(s) /\ (i - 1) + 1 = i
    BY <1>1, <1>2
  <2>2. p[i] = s[i - 1]
    BY <1>1, <2>1
  <2>3. CASE i - 1 = 1
    <3>1. s # << >>
      BY <2>1, EmptySequence
    <3>2. Head(s) = s[1]
      BY <3>1, TailSequence DEF WellFormed
    <3>3. QED
      BY <1>2, <2>2, <2>3, <3>1, <3>2 DEF AtRest
  <2>4. CASE i - 1 # 1
    BY <1>2, <2>1, <2>2, <2>4 DEF Steady
  <2>5. QED
    BY <2>3, <2>4
<1>3. p # << >> /\ Head(p) = f
  <2>1. p # << >>
    BY <1>1, EmptySequence
  <2>2. QED
    BY <1>1, <2>1, TailSequence
<1>4. QED
  BY <1>2, <1>3 DEF Steady

LEMMA SteadyTail ==
  ASSUME NEW s, WellFormed(s), Steady(s), s # << >>
  PROVE  Steady(Tail(s)) /\ AtRest(Tail(s))
<1> DEFINE u == Tail(s)
<1>1. /\ IsSequence(u) /\ Len(u) = Len(s) - 1 /\ Len(s) \in Nat \ {0}
      /\ \A i \in 1..Len(s) - 1 : u[i] = s[i + 1]
  BY TailSequence DEF WellFormed
<1>2. ASSUME NEW i \in 1..Len(u), u[i].kind = "trigger"
      PROVE  u[i].phase = "in"
  <2>1. i + 1 \in 1..Len(s) /\ i + 1 # 1 /\ u[i] = s[i + 1]
    BY <1>1
  <2>2. QED
    BY <1>2, <2>1 DEF Steady
<1>3. ASSUME u # << >> PROVE 1 \in 1..Len(u) /\ Head(u) = u[1]
  <2>1. Len(u) \in Nat \ {0} /\ Head(u) = u[1]
    BY <1>1, <1>3, TailSequence
  <2>2. QED
    BY <2>1
<1>4. Steady(u)
  BY <1>2 DEF Steady
<1>5. AtRest(u)
  BY <1>2, <1>3 DEF AtRest
<1>6. QED
  BY <1>4, <1>5

LEMMA FieldsOf ==
  ASSUME NEW f, IsFrame(f), NEW x, NEW y
  PROVE  /\ [f EXCEPT !.todo = x].phase = f.phase
         /\ [f EXCEPT !.phase = x].phase = x
         /\ [f EXCEPT !.phase = x, !.todo = y].phase = x
  BY DEF IsFrame

----------------------------------------------------------------------------
(* The steps                                                               *)

LEMMA InitDepth == Init => DepthInv
<1> SUFFICES ASSUME Init PROVE DepthInv
  OBVIOUS
<1>1. \A c \in Threads : stack[c] = << >>
  BY DEF Init
<1>2. reg = [c \in Threads |-> reg[c]]
  BY DEF Init
<1>3. \A c \in Clients : c \in Threads
  BY DEF Threads
<1>4. OneInv /\ DepthFits
  BY <1>1, <1>3 DEF Init, OneInv, DepthFits
<1>5. QED
  BY <1>2, <1>4, InitRows DEF DepthInv

\* A step of the thread that runs statements.
LEMMA DepthStep ==
  ASSUME DepthInv, OneRuns, NEW c \in Threads, stack[c] # << >>, NEW st, Stack(c, st),
         Steady(st), depth' = Cardinality(Counted(st)),
         st # << >> => (Reads(Head(st)) => reg'[c] = depth')
  PROVE  DepthFits'
<1>1. stack' = [stack EXCEPT ![c] = st] /\ stack = [d \in Threads |-> stack[d]]
  BY DEF Stack, DepthInv, RowsInv
<1>2. stack'[c] = st /\ \A d \in Threads : d # c => stack'[d] = stack[d]
  BY <1>1
<1>3. \A d \in Threads : d # c => stack'[d] = << >>
  BY <1>2 DEF DepthInv, OneInv
<1>4. st = << >> => depth' = 0
  <2>1. Counted(<< >>) = {}
    BY EmptySequence DEF Counted
  <2>2. QED
    BY <2>1, FS_EmptySet
<1>5. QED
  BY <1>2, <1>3, <1>4 DEF DepthFits

LEMMA StepDepth ==
  ASSUME DepthInv, OneRuns, NEW c \in Threads, Step(c)
  PROVE  DepthFits'
<1> DEFINE s == stack[c]
<1>1. s # << >>
  BY DEF Step, Execute, Return, EnterTriggers, GetTriggers, LeaveTriggers, LeftTriggers,
         InsertRow, BreakOff, Persist, OnTop
<1>2. /\ WellFormed(s) /\ Steady(s) /\ depth = Cardinality(Counted(s)) /\ depth \in Nat
      /\ Reads(Top(c)) => reg[c] = depth
  BY <1>1, CountedFinite DEF DepthInv, RowsInv, DepthFits, Top
<1>3. IsFrame(Top(c)) /\ WellFormed(Under(c)) /\ Steady(Under(c)) /\ AtRest(Under(c))
  BY <1>1, <1>2, PopFrame, SteadyTail DEF Top, Under
<1>4. /\ \A g : Cardinality(Counted(<<g>> \o Under(c))) =
                  depth - (IF Counts(Top(c)) THEN 1 ELSE 0) + (IF Counts(g) THEN 1 ELSE 0)
      /\ Cardinality(Counted(Under(c))) = depth - (IF Counts(Top(c)) THEN 1 ELSE 0)
  BY <1>1, <1>2, CountedTop, CountedTail DEF Top, Under
<1>5. \A g : Steady(<<g>> \o Under(c)) /\ <<g>> \o Under(c) # << >> /\ Head(<<g>> \o Under(c)) = g
  BY <1>3, SteadyPush
<1>6. reg = [d \in Threads |-> reg[d]]
  BY DEF DepthInv
<1>7. ASSUME UNCHANGED <<stack, reg, depth>> PROVE DepthFits'
  BY <1>7 DEF DepthInv, DepthFits
<1> HIDE DEF s
\* The innermost frame goes on and does not touch triggerDepth.
<1>8. ASSUME NEW g, Stack(c, <<g>> \o Under(c)), UNCHANGED <<reg, depth>>,
             ~Reads(g), Counts(g) <=> Counts(Top(c))
      PROVE  DepthFits'
  <2>1. depth' = Cardinality(Counted(<<g>> \o Under(c)))
    BY <1>2, <1>4, <1>8
  <2>2. QED
    BY <1>1, <1>5, <1>8, <2>1, DepthStep DEF s
<1>9. CASE Execute(c)
  <2> DEFINE g == [Top(c) EXCEPT !.todo = Tail(@)]
             rest == <<g>> \o Under(c)
             st == Head(Top(c).todo)
  <2>0. UNCHANGED <<reg, depth>> /\ Top(c).phase = "in"
    BY <1>9 DEF Execute, OnTop
  <2>1. g.kind = Top(c).kind /\ g.phase = "in" /\ IsFrame(g) /\ UNCHANGED <<reg, depth>>
    <3>1. GoesOn(Top(c), g)
      BY <1>3, ChangedField
    <3>2. g.phase = Top(c).phase
      BY <1>3, FieldsOf
    <3> HIDE DEF g
    <3>3. QED
      BY <2>0, <3>1, <3>2 DEF GoesOn
  <2>2. WellFormed(rest)
    BY <1>1, <1>2, <1>3, ChangedField, ReplaceFrame DEF GoesOn, Top, Under, s
  <2> HIDE DEF g
  <2>a. Cardinality(Counted(rest)) =
          depth - (IF Counts(Top(c)) THEN 1 ELSE 0) + (IF Counts(g) THEN 1 ELSE 0)
    BY <1>4
  <2>b. Counts(g) <=> Counts(Top(c))
    BY <2>0, <2>1 DEF Counts
  <2>3. Steady(rest) /\ AtRest(rest) /\ Cardinality(Counted(rest)) = depth
    BY <1>2, <1>5, <2>1, <2>a, <2>b DEF AtRest
  <2>4. ASSUME NEW f, f.kind # "trigger", Stack(c, <<f>> \o rest) PROVE DepthFits'
    <3>1. Steady(<<f>> \o rest) /\ Head(<<f>> \o rest) = f
      BY <2>2, <2>3, SteadyPush
    <3>2. Cardinality(Counted(<<f>> \o rest)) = depth
      BY <1>2, <2>2, <2>3, <2>4, CountedPush DEF Counts
    <3> HIDE DEF rest
    <3>3. QED
      BY <1>1, <2>1, <2>4, <3>1, <3>2, DepthStep DEF Reads, s
  <2>5. \/ UNCHANGED stack
        \/ Stack(c, <<Frame("insert", << >>, st.on, "before", st.rows, st.bare)>> \o rest)
        \/ Stack(c, <<BodyOf(st.on, mem[st.on].body)>> \o rest)
        \/ Stack(c, rest)
    BY <1>9 DEF Execute, g
  <2>6. Stack(c, rest) => DepthFits'
    BY <1>8, <2>1, <2>b DEF Reads
  <2> HIDE DEF rest
  <2>7. QED
    BY <1>7, <2>1, <2>4, <2>5, <2>6, FrameIsFrame DEF BodyOf
<1>10. CASE Return(c) \/ Persist(c)
  <2>1. Top(c).kind # "trigger" /\ Stack(c, Under(c)) /\ UNCHANGED <<reg, depth>>
    BY <1>10 DEF Return, Persist, OnTop
  <2>2. depth' = Cardinality(Counted(Under(c)))
    BY <1>2, <1>4, <2>1 DEF Counts
  <2>3. Under(c) # << >> => ~Reads(Head(Under(c)))
    BY <1>3 DEF AtRest, Reads
  <2>4. QED
    BY <1>1, <1>3, <2>1, <2>2, <2>3, DepthStep DEF s
<1>11. CASE EnterTriggers(c)
  <2> DEFINE f == Frame("trigger", << >>, Top(c).of, "entering", 0, Top(c).bare)
  <2>1. Top(c).kind = "insert" /\ depth' = depth
    BY <1>11 DEF EnterTriggers, OnTop
  <2>2. UNCHANGED <<stack, reg>> \/ (Stack(c, <<f>> \o stack[c]) /\ reg' = [reg EXCEPT ![c] = depth])
    BY <1>11 DEF EnterTriggers, Push
  <2>3. f.kind = "trigger" /\ f.phase = "entering"
    BY DEF Frame
  <2> HIDE DEF f
  <2>4. AtRest(s)
    BY <2>1 DEF AtRest, Top, s
  <2>5. Steady(<<f>> \o s) /\ Cardinality(Counted(<<f>> \o s)) = depth
    BY <1>2, <2>3, <2>4, SteadyPush, CountedPush DEF Counts
  <2>6. reg' = [reg EXCEPT ![c] = depth] => reg'[c] = depth'
    BY <1>6, <2>1
  <2>7. QED
    BY <1>1, <1>7, <2>1, <2>2, <2>5, <2>6, DepthStep DEF s
<1>12. CASE GetTriggers(c)
  <2>1. PICK todo : Stack(c, <<[Top(c) EXCEPT !.phase = "in", !.todo = todo]>> \o Under(c))
    BY <1>12 DEF GetTriggers
  <2>2. PICK g : /\ Stack(c, <<g>> \o Under(c)) /\ g.phase = "in" /\ g.kind = Top(c).kind
    <3> DEFINE g == [Top(c) EXCEPT !.phase = "in", !.todo = todo]
    <3>1. GoesOn(Top(c), g)
      BY <1>3, ChangedPhase
    <3>2. g.phase = "in"
      BY <1>3, FieldsOf
    <3> HIDE DEF g
    <3>3. g.kind = Top(c).kind
      BY <3>1 DEF GoesOn
    <3>4. Stack(c, <<g>> \o Under(c))
      BY <2>1 DEF g
    <3>5. QED
      BY <3>2, <3>3, <3>4
  <2>3. Top(c).kind = "trigger" /\ Top(c).phase = "entering" /\ depth' = depth + 1
    BY <1>2, <1>12 DEF GetTriggers, OnTop, Reads
  <2>4. depth' = Cardinality(Counted(<<g>> \o Under(c)))
    BY <1>2, <1>4, <2>2, <2>3 DEF Counts
  <2>5. QED
    BY <1>1, <1>5, <2>2, <2>4, DepthStep DEF Reads, s
<1>13. CASE LeaveTriggers(c)
  <2>1. Stack(c, <<[Top(c) EXCEPT !.phase = "leaving"]>> \o Under(c))
    BY <1>13 DEF LeaveTriggers, ToPhase
  <2>2. PICK g : /\ Stack(c, <<g>> \o Under(c)) /\ g.phase = "leaving" /\ g.kind = Top(c).kind
    <3>1. LET g == [Top(c) EXCEPT !.phase = "leaving"]
          IN  g.phase = "leaving" /\ g.kind = Top(c).kind
      BY <1>3, FieldsOf, ChangedField DEF GoesOn
    <3>2. QED
      BY <2>1, <3>1
  <2>3. /\ Top(c).kind = "trigger" /\ Top(c).phase = "in" /\ depth' = depth
        /\ reg' = [reg EXCEPT ![c] = depth]
    BY <1>13 DEF LeaveTriggers, OnTop
  <2>4. depth' = Cardinality(Counted(<<g>> \o Under(c))) /\ reg'[c] = depth'
    BY <1>2, <1>4, <1>6, <2>2, <2>3 DEF Counts
  <2>5. QED
    BY <1>1, <1>5, <2>2, <2>4, DepthStep DEF s
<1>14. CASE LeftTriggers(c)
  <2> DEFINE u == Under(c)
  <2>1. u # << >> /\ Head(u).kind = "insert" /\ Head(u) = stack[c][2]
    <3>1. u # << >> /\ Head(u).kind = "insert"
      BY <1>1, <1>2, <1>14, PopFrame DEF LeftTriggers, OnTop, Top, Under, s
    <3>2. /\ Len(u) = Len(s) - 1 /\ Len(s) \in Nat /\ \A i \in 1..Len(s) - 1 : u[i] = s[i + 1]
      BY <1>1, <1>2, TailSequence DEF WellFormed, Under, s
    <3>3. Head(u) = u[1] /\ Len(u) \in Nat \ {0}
      BY <1>3, <3>1, TailSequence DEF WellFormed
    <3> HIDE DEF u
    <3>4. 1 \in 1..Len(s) - 1
      BY <3>2, <3>3
    <3>5. u[1] = s[2]
      BY <3>2, <3>4
    <3>6. QED
      BY <3>1, <3>3, <3>5 DEF s
  <2>2. IsFrame(Head(u))
    BY <1>3, <2>1, PopFrame
  <2>3. PICK g : Stack(c, <<g>> \o Tail(u)) /\ g.kind = "insert"
    <3> DEFINE insert == stack[c][2]
    <3>1. \/ Stack(c, <<insert>> \o Tail(u)) \/ Stack(c, <<AfterTriggers(insert)>> \o Tail(u))
      BY <1>14 DEF LeftTriggers
    <3>2. AfterTriggers(insert).kind = "insert"
      <4>1. IsFrame(insert) /\ insert.kind = "insert"
        BY <2>1, <2>2
      <4> HIDE DEF insert
      <4>2. [insert EXCEPT !.phase = "row"].kind = "insert"
        BY <4>1, ChangedField DEF GoesOn
      <4>3. [insert EXCEPT !.phase = "before", !.rows = insert.rows - 1].kind = "insert"
        <5>1. GoesOn(insert, [insert EXCEPT !.phase = "before", !.rows = insert.rows - 1])
          BY <4>1, ChangedPhase
        <5>2. QED
          BY <4>1, <5>1 DEF GoesOn
      <4>4. [insert EXCEPT !.phase = "persist"].kind = "insert"
        BY <4>1, ChangedField DEF GoesOn
      <4>5. QED
        BY <4>2, <4>3, <4>4 DEF AfterTriggers
    <3>3. QED
      BY <2>1, <3>1, <3>2
  <2>4. /\ Top(c).kind = "trigger" /\ Top(c).phase = "leaving" /\ depth' = depth - 1
    BY <1>2, <1>14 DEF LeftTriggers, OnTop, Reads
  <2>5. Cardinality(Counted(u)) = depth - 1
    BY <1>2, <1>4, <2>4 DEF Counts
  <2> HIDE DEF u
  <2>6. WellFormed(u) /\ Steady(u)
    BY <1>3 DEF u
  <2>7. Cardinality(Counted(<<g>> \o Tail(u))) = depth'
    <3>1. Cardinality(Counted(<<g>> \o Tail(u))) =
            Cardinality(Counted(u)) - (IF Counts(Head(u)) THEN 1 ELSE 0)
                                    + (IF Counts(g) THEN 1 ELSE 0)
      BY <2>1, <2>6, CountedTop
    <3>2. ~Counts(Head(u)) /\ ~Counts(g)
      BY <2>1, <2>3 DEF Counts
    <3>3. QED
      BY <1>2, <2>4, <2>5, <3>1, <3>2
  <2>8. WellFormed(Tail(u)) /\ Steady(Tail(u)) /\ AtRest(Tail(u))
    BY <2>1, <2>6, PopFrame, SteadyTail
  <2>9. Steady(<<g>> \o Tail(u)) /\ Head(<<g>> \o Tail(u)) = g
    BY <2>8, SteadyPush
  <2>10. QED
    BY <1>1, <2>3, <2>7, <2>9, DepthStep DEF Reads, s
<1>15. CASE InsertRow(c)
  <2>1. PICK g : UNCHANGED stack \/ (Stack(c, <<g>> \o Under(c)) /\ g.kind = "insert")
    <3>1. UNCHANGED stack \/ Stack(c, <<[Top(c) EXCEPT !.phase = "after", !.wrote = TRUE]>> \o Under(c))
      BY <1>15 DEF InsertRow
    <3>2. [Top(c) EXCEPT !.phase = "after", !.wrote = TRUE].kind = "insert"
      BY <1>3, <1>15, ChangedPhase DEF InsertRow, OnTop, GoesOn
    <3>3. QED
      BY <3>1, <3>2
  <2>2. Top(c).kind = "insert" /\ UNCHANGED <<reg, depth>>
    BY <1>15 DEF InsertRow, OnTop
  <2>3. QED
    BY <1>7, <1>8, <2>1, <2>2 DEF Counts, Reads
<1>16. CASE BreakOff(c)
  <2>1. PICK g : Stack(c, <<g>> \o Under(c)) /\ g.kind = "insert"
    <3>1. [Top(c) EXCEPT !.phase = "persist"].kind = "insert"
      BY <1>3, <1>16, ChangedField DEF BreakOff, GoesOn
    <3>2. QED
      BY <1>16, <3>1 DEF BreakOff, ToPhase
  <2>2. Top(c).kind = "insert" /\ UNCHANGED <<reg, depth>>
    BY <1>16 DEF BreakOff
  <2>3. QED
    BY <1>8, <2>1, <2>2 DEF Counts, Reads
<1>17. QED
  BY <1>9, <1>10, <1>11, <1>12, <1>13, <1>14, <1>15, <1>16 DEF Step

\* A statement or a job begins on an empty stack while all others are empty.
LEMMA BeginDepth ==
  ASSUME DepthInv, NEW c \in Threads, NEW of, NEW todo, Push(c, BodyOf(of, todo)),
         \A d \in Threads : stack[d] = << >>, OneRuns, UNCHANGED <<depth, reg>>
  PROVE  DepthFits'
<1> DEFINE f == BodyOf(of, todo)
<1>1. f.kind = "body"
  BY DEF BodyOf, Frame
<1>2. stack' = [stack EXCEPT ![c] = <<f>> \o << >>] /\ stack = [d \in Threads |-> stack[d]]
  BY DEF Push, Stack, DepthInv, RowsInv
<1> HIDE DEF f
<1>3. stack'[c] = <<f>> \o << >> /\ \A d \in Threads : d # c => stack'[d] = << >>
  BY <1>2
<1>4. WellFormed(<< >>) /\ Steady(<< >>) /\ AtRest(<< >>)
  BY EmptySequence DEF Steady, AtRest
<1>5. Steady(<<f>> \o << >>) /\ Head(<<f>> \o << >>) = f /\ <<f>> \o << >> # << >>
  BY <1>4, SteadyPush
<1>6. Cardinality(Counted(<<f>> \o << >>)) = 0
  <2>1. Counted(<< >>) = {}
    BY EmptySequence DEF Counted
  <2>2. Cardinality(Counted(<< >>)) = 0
    BY <2>1, FS_EmptySet, Zenon
  <2> DEFINE e == << >>
  <2>3. WellFormed(e) /\ Cardinality(Counted(e)) = 0 /\ ~Counts(f)
    BY <1>1, <1>4, <2>2 DEF Counts
  <2> HIDE DEF e
  <2>4. Cardinality(Counted(<<f>> \o e)) = Cardinality(Counted(e)) + 0
    BY <2>3, CountedPush
  <2>5. Cardinality(Counted(<<f>> \o e)) = 0
    BY <2>3, <2>4
  <2>6. QED
    BY <2>5 DEF e
<1>7. depth' = 0
  BY DEF DepthInv, DepthFits
<1> DEFINE p == <<f>> \o << >>
<1>8. stack'[c] = p /\ Steady(p) /\ Head(p) = f /\ p # << >> /\ Cardinality(Counted(p)) = 0
  BY <1>3, <1>5, <1>6
<1> HIDE DEF p
<1>9. QED
  BY <1>1, <1>3, <1>7, <1>8 DEF DepthFits, Reads

\* What a step may do to the stacks, whoever runs.
LEMMA NextOne == RowsInv /\ OneInv /\ [Next]_vars => OneInv'
<1> SUFFICES ASSUME RowsInv, OneInv, [Next]_vars PROVE OneInv'
  OBVIOUS
<1>0. work' = work /\ (OneRuns' <=> OneRuns)
  <2>1. work' = work
    BY DEF Next, vars, DDL, Create, AlterJob, Fetch, Save, Drop, Delete, Run, Step, Execute,
           Return, EnterTriggers, GetTriggers, LeaveTriggers, LeftTriggers, InsertRow, BreakOff,
           Persist, Minute, Snapshot, StartJob, Restart
  <2>2. QED
    BY <2>1 DEF OneRuns
<1>1. ASSUME UNCHANGED <<stack, tick, due>> PROVE OneInv'
  BY <1>0, <1>1 DEF OneInv
\* Only a thread that has frames goes on; the ticker is not looked at.
<1>2. ASSUME NEW c \in Threads, NEW st, Stack(c, st), UNCHANGED <<tick, due>>,
             \/ stack[c] # << >>
             \/ OneRuns => /\ \A d \in Threads : stack[d] = << >>
                           /\ work.ticks => c \notin Clients
      PROVE  OneInv'
  <2>1. stack' = [stack EXCEPT ![c] = st] /\ stack = [d \in Threads |-> stack[d]]
    BY <1>2 DEF Stack, RowsInv
  <2>2. \A d \in Threads : d # c => stack'[d] = stack[d]
    BY <2>1
  <2>3. \A d \in Clients : d \in Threads
    BY DEF Threads
  <2>4. QED
    BY <1>0, <1>2, <2>2, <2>3 DEF OneInv
<1>3. ASSUME NEW c \in Clients, DDL(c) PROVE OneInv'
  <2>1. CASE Drop(c)
    <3>1. UNCHANGED <<stack, tick>> /\ (due = {} => due' = {})
      BY <2>1 DEF Drop, running
    <3>2. QED
      BY <1>0, <3>1 DEF OneInv
  <2>2. CASE ~Drop(c)
    BY <1>1, <1>3, <2>2 DEF DDL, Create, AlterJob, Fetch, Save, Delete, running, timing
  <2>3. QED
    BY <2>1, <2>2
<1>4. ASSUME NEW c \in Clients, Run(c) PROVE OneInv'
  <2>1. PICK s \in work.runs[c] : Begin(c) /\ Push(c, BodyOf(None, <<s>>)) /\ UNCHANGED <<tick, due>>
    BY <1>4 DEF Run, timing
  <2>2. OneRuns => ~work.ticks /\ work.alone
    BY <2>1 DEF OneRuns
  <2>3. OneRuns => \A d \in Threads : stack[d] = << >>
    BY <2>1, <2>2 DEF Begin, Quiet
  <2>4. QED
    BY <1>2, <2>1, <2>2, <2>3 DEF Push, Threads
<1>5. ASSUME NEW c \in Threads, Step(c) PROVE OneInv'
  <2>1. stack[c] # << >> /\ UNCHANGED <<tick, due>>
    BY <1>5 DEF Step, Execute, Return, EnterTriggers, GetTriggers, LeaveTriggers, LeftTriggers,
                InsertRow, BreakOff, Persist, OnTop, timing
  <2>2. UNCHANGED stack \/ \E st : Stack(c, st)
    BY <1>5 DEF Step, Execute, Return, EnterTriggers, GetTriggers, LeaveTriggers, LeftTriggers,
                InsertRow, BreakOff, Persist, Push, ToPhase
  <2>3. QED
    BY <1>1, <1>2, <2>1, <2>2
<1>6. CASE Minute \/ Snapshot
  BY <1>0, <1>6 DEF OneInv, Minute, Snapshot, running
<1>7. CASE StartJob
  <2>1. PICK r \in due : /\ due' = due \ {r} /\ tick' = tick
                         /\ UNCHANGED stack \/ \E i, body : Push(Scheduler, BodyOf(i, body))
    BY <1>7 DEF StartJob
  <2>2. work.ticks
    BY <2>1 DEF OneInv
  <2>3. OneRuns => \A d \in Clients : stack'[d] = << >>
    <3>1. \A d \in Clients : d \in Threads /\ d # Scheduler
      BY SchedulerAssumption DEF Threads
    <3>2. ASSUME NEW f, Push(Scheduler, f), NEW d \in Clients PROVE stack'[d] = stack[d]
      <4>1. stack' = [stack EXCEPT ![Scheduler] = <<f>> \o stack[Scheduler]]
            /\ stack = [e \in Threads |-> stack[e]]
        BY <3>2 DEF Push, Stack, RowsInv
      <4>2. QED
        BY <3>1, <4>1
    <3>3. QED
      BY <2>1, <2>2, <3>2 DEF OneInv
  <2>4. QED
    BY <1>0, <2>2, <2>3 DEF OneInv, Threads
<1>8. CASE Restart
  BY <1>0, <1>8 DEF OneInv, Restart, Threads
<1>9. CASE UNCHANGED vars
  BY <1>1, <1>9 DEF vars
<1>10. QED
  BY <1>3, <1>4, <1>5, <1>6, <1>7, <1>8, <1>9 DEF Next

LEMMA NextDepth == DepthInv /\ [Next]_vars => DepthInv'
<1> SUFFICES ASSUME DepthInv, [Next]_vars PROVE DepthInv'
  OBVIOUS
<1>0. RowsInv' /\ OneInv' /\ RowsInv /\ OneInv
  BY NextRows, NextOne DEF DepthInv
<1>1. work' = work /\ (OneRuns' <=> OneRuns)
  <2>1. work' = work
    BY DEF Next, vars, DDL, Create, AlterJob, Fetch, Save, Drop, Delete, Run, Step, Execute,
           Return, EnterTriggers, GetTriggers, LeaveTriggers, LeftTriggers, InsertRow, BreakOff,
           Persist, Minute, Snapshot, StartJob, Restart
  <2>2. QED
    BY <2>1 DEF OneRuns
<1>2. reg' = [c \in Threads |-> reg'[c]]
  <2>1. reg = [c \in Threads |-> reg[c]]
    BY DEF DepthInv
  <2>2. reg' = reg \/ (\E c \in Threads : \E x : reg' = [reg EXCEPT ![c] = x]) \/ Restart
    BY DEF Next, vars, DDL, Create, AlterJob, Fetch, Save, Drop, Delete, Run, Step, Execute,
           Return, EnterTriggers, GetTriggers, LeaveTriggers, LeftTriggers, InsertRow, BreakOff,
           Persist, Minute, Snapshot, StartJob, running
  <2>3. QED
    BY <2>1, <2>2 DEF Restart
<1>3. SUFFICES ASSUME OneRuns PROVE DepthFits'
  BY <1>0, <1>1, <1>2 DEF DepthInv
<1>4. ASSUME UNCHANGED <<stack, reg, depth>> PROVE DepthFits'
  BY <1>3, <1>4 DEF DepthInv, DepthFits
<1>5. ASSUME NEW c \in Clients, DDL(c) PROVE DepthFits'
  BY <1>4, <1>5 DEF DDL, Create, AlterJob, Fetch, Save, Drop, Delete, running
<1>6. ASSUME NEW c \in Clients, Run(c) PROVE DepthFits'
  <2>1. PICK s \in work.runs[c] :
          Begin(c) /\ Push(c, BodyOf(None, <<s>>)) /\ UNCHANGED <<reg, depth>>
    BY <1>6 DEF Run
  <2>2. ~work.ticks /\ work.alone
    BY <1>3, <2>1 DEF OneRuns
  <2>3. \A d \in Threads : stack[d] = << >>
    BY <2>1, <2>2 DEF Begin, Quiet
  <2>4. QED
    BY <1>3, <2>1, <2>3, BeginDepth DEF Threads
<1>7. ASSUME NEW c \in Threads, Step(c) PROVE DepthFits'
  BY <1>3, <1>7, StepDepth
<1>8. CASE Minute \/ Snapshot
  BY <1>4, <1>8 DEF Minute, Snapshot, running
<1>9. CASE StartJob
  <2>1. /\ due # {} /\ Quiet(Scheduler) /\ UNCHANGED <<reg, depth>>
        /\ UNCHANGED stack \/ \E i, body : Push(Scheduler, BodyOf(i, body))
    BY <1>9 DEF StartJob
  <2>2. \A d \in Threads : stack[d] = << >>
    BY <1>0, <1>3, <2>1 DEF OneInv, Quiet, Threads
  <2>3. QED
    BY <1>3, <1>4, <2>1, <2>2, BeginDepth DEF Threads
<1>10. CASE Restart
  <2>1. depth' = 0 /\ \A c \in Threads : stack'[c] = << >>
    BY <1>10 DEF Restart
  <2>2. QED
    BY <2>1 DEF DepthFits
<1>11. CASE UNCHANGED vars
  BY <1>4, <1>11 DEF vars
<1>12. QED
  BY <1>5, <1>6, <1>7, <1>8, <1>9, <1>10, <1>11 DEF Next

LEMMA DepthMeans == DepthInv => DepthIsNesting
<1> SUFFICES ASSUME DepthInv, OneRuns
             PROVE  /\ \A c \in Threads : Nesting(c) # 0 => depth = Nesting(c)
                    /\ (\A c \in Threads : Nesting(c) = 0) => depth = 0
  BY DEF DepthIsNesting
<1>1. \A c \in Threads : Nesting(c) = Cardinality(Counted(stack[c]))
  <2>1. TAKE c \in Threads
  <2>2. DOMAIN stack[c] = 1..Len(stack[c])
    BY DEF DepthInv, RowsInv, WellFormed, IsSequence
  <2>3. {k \in DOMAIN stack[c] : stack[c][k].kind = "trigger" /\ stack[c][k].phase # "entering"}
          = Counted(stack[c])
    BY <2>2 DEF Counted, Counts
  <2>4. QED
    BY <2>3 DEF Nesting
<1>2. Cardinality(Counted(<< >>)) = 0
  <2>1. Counted(<< >>) = {}
    BY EmptySequence DEF Counted
  <2>2. QED
    BY <2>1, FS_EmptySet
<1>3. QED
  BY <1>1, <1>2 DEF DepthInv, DepthFits

----------------------------------------------------------------------------
(* What a restart finds                                                    *)

Makes(w, c) == {m[1] : m \in w.makes[c]}
Known(w) == {i \in Ids : w.start[i] # None} \cup UNION {Makes(w, c) : c \in Clients}
Changes(w, c) == w.makes[c] # {} \/ w.alters[c] # {} \/ w.drops[c] # {}

\* Workloads without the two disagreements of CREATE TRIGGER: no two routines
\* share a key, and sessions that create, drop and alter at once neither drop
\* what others work with nor make triggers of one table and timing.
Orderly(w) ==
  /\ \A i, l \in Known(w) : Key(i) = Key(l) => i = l
  /\ \/ w.alone
     \/ \A c, d \in Clients : c # d =>
          /\ w.drops[c] # {} => ~Changes(w, d)
          /\ \A m \in w.makes[c], n \in w.makes[d] :
               m[1] \in TriggerIds /\ n[1] \in TriggerIds /\ m[1][3] = n[1][3]
                 => m[2].mark # n[2].mark

TriggersOn(t) == {i \in TriggerIds : i[3] = t}

Savable == {def \in Definitions : Encodable(def)}

\* Known routines are in the catalog, and under their own keys if they can be
\* saved.
Kept ==
  /\ work \in Works
  /\ mem \in [Ids -> Definitions \cup {None}]
  /\ disk = [k \in Keys |-> disk[k]]
  /\ ddl = [c \in Clients |-> ddl[c]]
  /\ order = [t \in Tables |-> order[t]]
  /\ \A t \in Tables : order[t] \in Seq(TriggersOn(t))
  /\ \A i \in Ids : mem[i] # None => i \in Known(work)
  /\ \A k \in Keys : disk[k] # None =>
       disk[k][1] \in Known(work) /\ Key(disk[k][1]) = k
       /\ disk[k][2] \in Savable

\* No trigger of its table and timing comes after this one.
LastOfTiming(i, mark) ==
  \E k \in 1..Len(order[i[3]]) :
    /\ order[i[3]][k] = i
    /\ \A l \in 1..Len(order[i[3]]) : l > k => mem[order[i[3]][l]].mark # mark

\* What a client's DDL is about to save or delete.
ToFetch(c, d) ==
  /\ d.step = "fetch" /\ mem[d.id] # None
  /\ d.id \notin JobIds => <<d.id, d.def>> \in work.makes[c] /\ mem[d.id] = d.def
  /\ d.id \in TriggerIds => LastOfTiming(d.id, d.def.mark)
ToSave(d) ==
  /\ d.step = "save" /\ mem[d.id] # None
  /\ d.held <=> d.id \in JobIds
  /\ ~d.held => d.def = mem[d.id]
ToDelete(c, d) ==
  /\ d.step = "delete" /\ mem[d.id] = None /\ work.drops[c] # {}

Underway(c, d) ==
  /\ Changes(work, c) /\ d.id \in Known(work)
  /\ ToFetch(c, d) \/ ToSave(d) \/ ToDelete(c, d)

AtWork == {ddl[c].id : c \in {c \in Clients : ddl[c] # NoDDL}}

SavedInv ==
  /\ Kept
  /\ work.alone => \A c, d \in Clients : ddl[c] # NoDDL /\ ddl[d] # NoDDL => c = d
  /\ \A c \in Clients : ddl[c] # NoDDL => Underway(c, ddl[c])
  /\ \A i \in Ids : i \notin AtWork /\ i \notin Unsavable => Loaded(i) = mem[i]

LEMMA NoDDLFields == NoDDL.step = "idle" /\ NoDDL.held = FALSE
  BY DEF NoDDL

\* One client's DDL goes on; what the others do is as before.
LEMMA OnlyThis ==
  ASSUME Kept, NEW c \in Clients, NEW d, NextDDL(c, d)
  PROVE  /\ ddl' = [e \in Clients |-> ddl'[e]]
         /\ ddl'[c] = d
         /\ \A e \in Clients : e # c => ddl'[e] = ddl[e]
  BY DEF Kept, NextDDL

LEMMA AtWorkMeans ==
  \A i : i \in AtWork <=> \E c \in Clients : ddl[c] # NoDDL /\ ddl[c].id = i
  BY DEF AtWork

LEMMA KnownIds ==
  ASSUME NEW w \in Works
  PROVE  /\ Known(w) \subseteq Ids
         /\ \A c \in Clients : \A m \in w.makes[c] :
              m \in Ids \X Definitions /\ m[1] \in Known(w) /\ Changes(w, c)
<1>1. \A c \in Clients : w.makes[c] \subseteq Ids \X Definitions
  BY WorksAssumption
<1>2. QED
  BY <1>1 DEF Known, Makes, Changes

\* Under an orderly workload a key belongs to one routine: what is saved under
\* it is not found by another.
LEMMA OneKey ==
  ASSUME Orderly(work), Kept, NEW i \in Known(work), NEW v,
         v = None \/ v[1] = i, disk' = [disk EXCEPT ![Key(i)] = v]
  PROVE  /\ disk' = [k \in Keys |-> disk'[k]]
         /\ disk'[Key(i)] = v /\ \A k \in Keys : k # Key(i) => disk'[k] = disk[k]
         /\ \A l \in Ids : l # i => Loaded(l)' = Loaded(l)
         /\ Loaded(i)' = IF v = None THEN None ELSE v[2]
<1>1. i \in Ids /\ \A l \in Ids : Key(l) \in Keys
  BY KnownIds DEF Keys, Kept
<1>2. /\ disk' = [k \in Keys |-> disk'[k]]
      /\ disk'[Key(i)] = v /\ \A k \in Keys : k # Key(i) => disk'[k] = disk[k]
  BY <1>1 DEF Kept
<1>3. Loaded(i)' = IF v = None THEN None ELSE v[2]
  BY <1>2 DEF Loaded
<1>4. ASSUME NEW l \in Ids, l # i PROVE Loaded(l)' = Loaded(l)
  <2>1. CASE Key(l) # Key(i)
    BY <1>1, <1>2, <2>1 DEF Loaded
  <2>2. CASE Key(l) = Key(i)
    <3>1. l \notin Known(work)
      BY <1>4, <2>2, KnownIds DEF Orderly
    <3>2. Loaded(l) = None
      BY <1>1, <3>1 DEF Loaded, Kept
    <3>3. Loaded(l)' = None
      BY <1>2, <1>4, <2>2 DEF Loaded
    <3>4. QED
      BY <3>2, <3>3
  <2>3. QED
    BY <2>1, <2>2
<1>5. QED
  BY <1>2, <1>3, <1>4

\* A step of a DDL statement is one of the promised ones.
LEMMA WorkMeans ==
  ASSUME DOMAIN mem' = Ids, AtWork' \subseteq Ids,
         \A i \in Ids : mem'[i] # mem[i] => i \in AtWork',
         \A i \in Ids : Loaded(i)' \in {Loaded(i), mem[i], mem'[i]},
         \A i \in Ids : i \notin AtWork' /\ i \notin Unsavable' => Loaded(i)' = mem'[i]
  PROVE  Durable!Work
<1>1. Unsavable' \subseteq Ids
  BY DEF Unsavable
<1>2. QED
  BY <1>1 DEF Durable!Work, Durable!Settled, AtWork

\* Nothing that DDL looks at changes.
LEMMA SavedUnchanged ==
  ASSUME SavedInv, UNCHANGED <<work, mem, order, disk, ddl>>
  PROVE  SavedInv'
<1>1. Kept'
  BY DEF SavedInv, Kept
<1>2. ASSUME NEW c \in Clients, Underway(c, ddl[c]) PROVE Underway(c, ddl[c])'
  <2>1. \A i, mark : LastOfTiming(i, mark) => LastOfTiming(i, mark)'
    BY DEF LastOfTiming
  <2>2. QED
    BY <1>2, <2>1 DEF Underway, ToFetch, ToSave, ToDelete
<1>3. AtWork' = AtWork /\ Unsavable' = Unsavable /\ \A i \in Ids : Loaded(i)' = Loaded(i)
  BY DEF AtWork, Unsavable, Loaded
<1>4. QED
  BY <1>1, <1>2, <1>3 DEF SavedInv

LEMMA Stutters ==
  ASSUME UNCHANGED <<mem, disk, ddl>>
  PROVE  UNCHANGED <<mem, [i \in Ids |-> {mem[i], Loaded(i)}],
                     {ddl[c].id : c \in {c \in Clients : ddl[c] # NoDDL}} \cup Unsavable>>
  BY DEF Loaded, Unsavable

\* A client that begins, alone or beside others that drop nothing of it.
LEMMA BesideMe ==
  ASSUME Orderly(work), SavedInv, NEW c \in Clients, Begin(c), NEW e \in Clients, e # c,
         ddl[e] # NoDDL, Changes(work, c)
  PROVE  /\ ~work.alone /\ work.drops[c] = {} /\ work.drops[e] = {}
         /\ Underway(e, ddl[e])
         /\ ToFetch(e, ddl[e]) \/ ToSave(ddl[e])
<1>1. ~work.alone
  BY DEF Begin, Quiet, Threads
<1>2. Underway(e, ddl[e])
  BY DEF SavedInv
<1>3. work.drops[c] = {} /\ work.drops[e] = {}
  BY <1>1, <1>2 DEF Orderly, Underway
<1>4. QED
  BY <1>1, <1>2, <1>3 DEF Underway, ToDelete


LEMMA InitSaved == Init /\ Orderly(work) => SavedInv /\ Durable!Init
<1> SUFFICES ASSUME Init, Orderly(work) PROVE SavedInv /\ Durable!Init
  OBVIOUS
<1>1. work \in Works /\ mem = work.start /\ ddl = [c \in Clients |-> NoDDL]
  BY DEF Init
<1>2. mem \in [Ids -> Definitions \cup {None}]
  BY <1>1, WorksAssumption
<1>3. \A i \in Ids : mem[i] # None => i \in Known(work)
  BY <1>1 DEF Known
<1>4. ASSUME NEW k \in Keys
      PROVE  \/ disk[k] = None /\ Holder(k) = {}
             \/ \E i \in Holder(k) : disk[k] = <<i, mem[i]>>
  <2>1. disk[k] = IF Holder(k) = {} THEN None
                  ELSE LET i == CHOOSE i \in Holder(k) : TRUE IN <<i, work.start[i]>>
    BY DEF Init
  <2>2. CASE Holder(k) # {}
    <3>1. (CHOOSE i \in Holder(k) : TRUE) \in Holder(k)
      BY <2>2
    <3>2. QED
      BY <1>1, <2>1, <2>2, <3>1
  <2>3. QED
    BY <2>1, <2>2
<1>5. \A k \in Keys : \A i \in Holder(k) :
        i \in Ids /\ Key(i) = k /\ mem[i] # None /\ i \in Known(work) /\ mem[i] \in Savable
  <2>1. \A i \in Ids : mem[i] # None => mem[i] \in Definitions /\ Encodable(mem[i])
    BY <1>1, <1>2, WorksAssumption
  <2>2. QED
    BY <1>1, <1>3, <2>1 DEF Holder, Savable
<1>6. \A k \in Keys : disk[k] # None =>
        disk[k][1] \in Known(work) /\ Key(disk[k][1]) = k /\ disk[k][2] \in Savable
  BY <1>4, <1>5
<1>7. ASSUME NEW t \in Tables
      PROVE  order[t] \in Seq(TriggersOn(t))
  <2>1. order \in Orders /\ Ordered(order, mem)
    BY DEF Init
  <2>2. PICK S \in SUBSET TriggerIds : order[t] \in [1..Cardinality(S) -> S]
    BY <2>1 DEF Orders, Arrangements
  <2>3. Cardinality(S) \in Nat
    BY IdsAssumption, FS_Subset, FS_CardinalityType DEF TriggerIds
  <2>4. \A k \in 1..Cardinality(S) : order[t][k] \in TriggersOn(t)
    BY <2>1, <2>2 DEF Ordered, TriggersOf, TriggersOn
  <2>5. order[t] \in [1..Cardinality(S) -> TriggersOn(t)]
    BY <2>2, <2>4
  <2>6. QED
    BY <2>3, <2>5
<1>8. order = [t \in Tables |-> order[t]]
  BY DEF Init, Orders
<1>9. Kept
  BY <1>1, <1>2, <1>3, <1>6, <1>7, <1>8 DEF Kept, Init
<1>10. \A i \in Ids : Loaded(i) = mem[i]
  <2>1. TAKE i \in Ids
  <2>2. Key(i) \in Keys
    BY DEF Keys
  <2>3. CASE mem[i] = None
    <3>1. Holder(Key(i)) = {} \/ i \notin Holder(Key(i))
      BY <1>5, <2>2, <2>3
    <3>2. QED
      BY <1>4, <1>5, <2>2, <2>3, <3>1 DEF Loaded
  <2>4. CASE mem[i] # None
    <3>1. i \in Holder(Key(i))
      BY <1>1, <2>4 DEF Holder
    <3>2. PICK l \in Holder(Key(i)) : disk[Key(i)] = <<l, mem[l]>>
      BY <1>4, <2>2, <3>1
    <3>3. l = i
      BY <1>3, <1>5, <2>2, <2>4, <3>2 DEF Orderly
    <3>4. disk[Key(i)] # None
      BY <3>2, <3>3, <2>4, <1>2, NoneAssumption
    <3>5. QED
      BY <3>2, <3>3, <3>4 DEF Loaded
  <2>5. QED
    BY <2>3, <2>4
<1>11. AtWork = {} /\ Unsavable = {}
  BY <1>1, WorksAssumption DEF AtWork, Unsavable
<1>12. SavedInv
  BY <1>1, <1>9, <1>10 DEF SavedInv
<1>13. Durable!Init
  BY <1>2, <1>10, <1>11 DEF Durable!Init, AtWork
<1>14. QED
  BY <1>12, <1>13


\* What a step of one client's DDL has to show: what the client is at now, what
\* the others are still at, and what is settled.
LEMMA DdlStep ==
  ASSUME SavedInv, Kept', work' = work, NEW c \in Clients, NEW d, NextDDL(c, d),
         d # NoDDL => Underway(c, d)',
         \A e \in Clients : e # c /\ ddl[e] # NoDDL => ~work.alone /\ Underway(e, ddl[e])',
         \A i \in Ids : mem'[i] # mem[i] => d # NoDDL /\ d.id = i,
         \A i \in Ids : Loaded(i)' \in {Loaded(i), mem[i], mem'[i]},
         \A i \in Ids : Loaded(i)' = mem'[i] \/ (d # NoDDL /\ d.id = i) \/ i \in Unsavable'
                          \/ \E e \in Clients : e # c /\ ddl[e] # NoDDL /\ ddl[e].id = i
  PROVE  SavedInv' /\ Durable!Work
<1>1. /\ ddl'[c] = d /\ \A e \in Clients : e # c => ddl'[e] = ddl[e]
      /\ Kept
  BY OnlyThis DEF SavedInv
<1>2. \A e \in Clients : ddl'[e] # NoDDL => Underway(e, ddl[e])'
  <2>1. Underway(c, ddl[c])' <=> Underway(c, d)'
    BY <1>1 DEF Underway, ToFetch, ToSave, ToDelete, LastOfTiming
  <2>2. ASSUME NEW e \in Clients, e # c, ddl'[e] # NoDDL PROVE Underway(e, ddl[e])'
    BY <1>1, <2>2
  <2>3. QED
    BY <1>1, <2>1, <2>2
<1>3. work.alone => \A e, f \in Clients : ddl'[e] # NoDDL /\ ddl'[f] # NoDDL => e = f
  BY <1>1
<1>4. \A i : i \in AtWork' <=> \E e \in Clients : ddl'[e] # NoDDL /\ ddl'[e].id = i
  BY DEF AtWork
<1>5. \A i \in Ids : i \notin AtWork' /\ i \notin Unsavable' => Loaded(i)' = mem'[i]
  BY <1>1, <1>4
<1>6. \A i \in Ids : mem'[i] # mem[i] => i \in AtWork'
  BY <1>1, <1>4
<1>7. AtWork' \subseteq Ids /\ DOMAIN mem' = Ids
  <2>1. Known(work') \subseteq Ids
    BY KnownIds DEF Kept
  <2>2. \A e \in Clients : ddl'[e] # NoDDL => ddl'[e].id \in Known(work')
    BY <1>2 DEF Underway
  <2>3. QED
    BY <1>4, <2>1, <2>2 DEF Kept
<1>8. SavedInv'
  BY <1>2, <1>3, <1>5 DEF SavedInv
<1>9. QED
  BY <1>5, <1>6, <1>7, <1>8, WorkMeans

\* A table's list of triggers changes.
LEMMA Relisted ==
  ASSUME Kept, NEW t \in Tables, NEW o \in Seq(TriggersOn(t)), order' = [order EXCEPT ![t] = o]
  PROVE  /\ order' = [u \in Tables |-> order'[u]]
         /\ order'[t] = o /\ \A u \in Tables : u # t => order'[u] = order[u]
         /\ \A u \in Tables : order'[u] \in Seq(TriggersOn(u))
  BY DEF Kept

LEMMA CreateSaved ==
  ASSUME Orderly(work), SavedInv, NEW c \in Clients, Create(c)
  PROVE  SavedInv' /\ Durable!Work
<1>1. PICK m \in work.makes[c] :
        /\ Begin(c) /\ mem[m[1]] = None
        /\ mem' = [mem EXCEPT ![m[1]] = m[2]]
        /\ order' = IF m[1] \in TriggerIds THEN [order EXCEPT ![m[1][3]] = Append(@, m[1])] ELSE order
        /\ NextDDL(c, [step |-> "fetch", id |-> m[1], def |-> m[2], held |-> FALSE])
        /\ UNCHANGED <<work, disk>>
  BY DEF Create
<1>2. PICK i, def : m = <<i, def>>
  BY KnownIds DEF SavedInv, Kept
<1>3. /\ Begin(c) /\ mem[i] = None
      /\ mem' = [mem EXCEPT ![i] = def]
      /\ order' = IF i \in TriggerIds THEN [order EXCEPT ![i[3]] = Append(@, i)] ELSE order
      /\ NextDDL(c, [step |-> "fetch", id |-> i, def |-> def, held |-> FALSE])
      /\ UNCHANGED <<work, disk>> /\ <<i, def>> \in work.makes[c]
  BY <1>1, <1>2
<1>4. /\ Kept /\ i \in Known(work) /\ Changes(work, c)
      /\ i \in Ids /\ def \in Definitions /\ def # None
  <2>1. Kept /\ work \in Works
    BY DEF SavedInv, Kept
  <2>2. m \in Ids \X Definitions /\ i \in Known(work) /\ Changes(work, c)
    BY <1>2, <2>1, KnownIds
  <2>3. QED
    BY <1>2, <2>1, <2>2, NoneAssumption
<1>5. mem'[i] = def /\ \A l \in Ids : l # i => mem'[l] = mem[l]
  BY <1>3, <1>4 DEF Kept
\* The new trigger is the last of its table, and the others are where they were.
<1>6. /\ order' = [u \in Tables |-> order'[u]]
      /\ \A u \in Tables : /\ order'[u] \in Seq(TriggersOn(u))
                           /\ Len(order[u]) \in Nat
                           /\ \A k \in 1..Len(order[u]) : order[u][k] \in TriggersOn(u)
      /\ \A u \in Tables :
           \/ order'[u] = order[u] /\ ~(i \in TriggerIds /\ i[3] = u)
           \/ /\ i \in TriggerIds /\ i[3] = u
              /\ Len(order'[u]) = Len(order[u]) + 1 /\ order'[u][Len(order[u]) + 1] = i
              /\ \A k \in 1..Len(order[u]) : order'[u][k] = order[u][k]
  <2>1. \A u \in Tables : /\ Len(order[u]) \in Nat
                          /\ \A k \in 1..Len(order[u]) : order[u][k] \in TriggersOn(u)
    BY <1>4 DEF Kept
  <2>2. CASE i \notin TriggerIds
    <3>1. order' = order
      BY <1>3, <2>2
    <3>2. QED
      BY <1>4, <2>1, <2>2, <3>1 DEF Kept
  <2>3. CASE i \in TriggerIds
    <3>1. PICK t \in Tables : t = i[3]
      BY <2>3, IdsAssumption
    <3>2. PICK o : o = order[t]
      OBVIOUS
    <3>3. o \in Seq(TriggersOn(t)) /\ i \in TriggersOn(t)
      BY <1>4, <2>3, <3>1, <3>2 DEF Kept, TriggersOn
    <3>4. PICK n : n = Append(o, i)
      OBVIOUS
    <3>5. /\ n \in Seq(TriggersOn(t))
          /\ Len(n) = Len(o) + 1 /\ n[Len(o) + 1] = i /\ \A k \in 1..Len(o) : n[k] = o[k]
      BY <3>3, <3>4
    <3>6. order' = [order EXCEPT ![t] = n]
      BY <1>3, <2>3, <3>1, <3>2, <3>4
    <3>7. /\ order' = [u \in Tables |-> order'[u]]
          /\ order'[t] = n /\ \A u \in Tables : u # t => order'[u] = order[u]
          /\ \A u \in Tables : order'[u] \in Seq(TriggersOn(u))
      BY <1>4, <3>5, <3>6, Relisted
    <3>8. QED
      BY <2>1, <2>3, <3>1, <3>2, <3>5, <3>7
  <2>4. QED
    BY <2>2, <2>3
<1>7. Kept'
  <2>1. mem' \in [Ids -> Definitions \cup {None}]
    BY <1>3, <1>4 DEF Kept
  <2>2. ddl' = [e \in Clients |-> ddl'[e]]
    BY <1>3, <1>4, OnlyThis
  <2>3. \A l \in Ids : mem'[l] # None => l \in Known(work)
    BY <1>4, <1>5 DEF Kept
  <2>4. QED
    BY <1>3, <1>4, <1>6, <2>1, <2>2, <2>3 DEF Kept
<1>8. PICK d : d = [step |-> "fetch", id |-> i, def |-> def, held |-> FALSE]
  OBVIOUS
<1>9. d.step = "fetch" /\ d.id = i /\ d.def = def /\ d # NoDDL
  BY <1>8, NoDDLFields
<1>10. i \in TriggerIds => LastOfTiming(i, def.mark)'
  <2>1. HAVE i \in TriggerIds
  <2>2. i[3] \in Tables
    BY <2>1, IdsAssumption
  <2>3. PICK n \in Nat : Len(order'[i[3]]) = n + 1 /\ order'[i[3]][n + 1] = i
    BY <1>6, <2>1, <2>2
  <2>4. QED
    BY <2>3 DEF LastOfTiming
<1>11. Underway(c, d)'
  BY <1>3, <1>4, <1>5, <1>9, <1>10 DEF Underway, ToFetch
<1>12. ASSUME NEW e \in Clients, e # c, ddl[e] # NoDDL
       PROVE  ~work.alone /\ Underway(e, ddl[e])'
  <2>1. ~work.alone /\ Underway(e, ddl[e]) /\ (ToFetch(e, ddl[e]) \/ ToSave(ddl[e]))
    BY <1>3, <1>4, <1>12, BesideMe
  <2>2. ddl'[e] = ddl[e]
    BY <1>3, <1>4, <1>12, OnlyThis
  <2>3. ddl[e].id \in Ids /\ mem'[ddl[e].id] = mem[ddl[e].id] /\ ddl[e].id # i
    <3>1. ddl[e].id \in Ids
      BY <1>4, <2>1, KnownIds DEF Underway, Kept
    <3>2. ddl[e].id # i
      BY <1>3, <2>1 DEF ToFetch, ToSave
    <3>3. QED
      BY <1>5, <3>1, <3>2
  <2>4. CASE ToSave(ddl[e])
    BY <1>3, <2>1, <2>2, <2>3, <2>4 DEF Underway, ToSave
  <2>5. CASE ToFetch(e, ddl[e]) /\ ddl[e].id \notin TriggerIds
    BY <1>3, <2>1, <2>2, <2>3, <2>5 DEF Underway, ToFetch
  <2>6. CASE ToFetch(e, ddl[e]) /\ ddl[e].id \in TriggerIds
    <3>1. PICK l, f : l = ddl[e].id /\ f = ddl[e].def
      OBVIOUS
    <3>2. <<l, f>> \in work.makes[e] /\ LastOfTiming(l, f.mark) /\ l[3] \in Tables /\ l \in TriggerIds
      BY <2>6, <3>1, IdsAssumption DEF ToFetch, JobIds, TriggerIds
    \* A trigger of the same table and timing would be the same client's.
    <3>3. i \in TriggerIds /\ i[3] = l[3] => def.mark # f.mark
      BY <1>3, <1>12, <2>1, <3>2 DEF Orderly
    <3>4. PICK k \in 1..Len(order[l[3]]) :
            /\ order[l[3]][k] = l
            /\ \A n \in 1..Len(order[l[3]]) : n > k => mem[order[l[3]][n]].mark # f.mark
      BY <3>2 DEF LastOfTiming
    <3>5. \A n \in 1..Len(order[l[3]]) : n > k => mem'[order[l[3]][n]].mark # f.mark
      <4>1. TAKE n \in 1..Len(order[l[3]])
      <4>2. HAVE n > k
      <4>3. order[l[3]][n] \in TriggersOn(l[3])
        BY <1>6, <3>2
      <4>4. CASE order[l[3]][n] = i
        BY <1>5, <3>3, <4>3, <4>4 DEF TriggersOn
      <4>5. CASE order[l[3]][n] # i
        BY <1>5, <3>4, <4>2, <4>3, <4>5 DEF TriggersOn, TriggerIds
      <4>6. QED
        BY <4>4, <4>5
    <3>6. LastOfTiming(l, f.mark)'
      <4>1. Len(order[l[3]]) \in Nat
        BY <1>6, <3>2
      <4>2. CASE order'[l[3]] = order[l[3]]
        BY <3>4, <3>5, <4>2 DEF LastOfTiming
      <4>3. CASE /\ i \in TriggerIds /\ i[3] = l[3]
                 /\ Len(order'[l[3]]) = Len(order[l[3]]) + 1
                 /\ order'[l[3]][Len(order[l[3]]) + 1] = i
                 /\ \A n \in 1..Len(order[l[3]]) : order'[l[3]][n] = order[l[3]][n]
        <5>1. \A n \in 1..Len(order'[l[3]]) : n > k => mem'[order'[l[3]][n]].mark # f.mark
          <6>1. TAKE n \in 1..Len(order'[l[3]])
          <6>2. HAVE n > k
          <6>3. CASE n = Len(order[l[3]]) + 1
            BY <1>5, <3>3, <4>3, <6>3
          <6>4. CASE n # Len(order[l[3]]) + 1
            <7>1. n \in 1..Len(order[l[3]])
              BY <4>1, <4>3, <6>4
            <7>2. QED
              BY <3>5, <4>3, <6>2, <7>1
          <6>5. QED
            BY <6>3, <6>4
        <5>2. k \in 1..Len(order'[l[3]]) /\ order'[l[3]][k] = l
          BY <3>4, <4>1, <4>3
        <5>3. QED
          BY <5>1, <5>2 DEF LastOfTiming
      <4>4. QED
        BY <1>6, <3>2, <4>2, <4>3
    <3>7. QED
      BY <1>3, <2>1, <2>2, <2>3, <2>6, <3>1, <3>6 DEF Underway, ToFetch
  <2>7. QED
    BY <2>1, <2>4, <2>5, <2>6
<1>13. \A l \in Ids : Loaded(l)' = Loaded(l)
  BY <1>3 DEF Loaded
<1>14. \A l \in Ids : mem[l] = Loaded(l) \/ l \in Unsavable
                      \/ \E e \in Clients : ddl[e] # NoDDL /\ ddl[e].id = l
  BY AtWorkMeans DEF SavedInv
<1>15. ddl[c] = NoDDL
  BY <1>3 DEF Begin, Quiet
<1>16. QED
  <2>1. NextDDL(c, d) /\ work' = work
    BY <1>3, <1>8
  <2>2. \A l \in Ids : Loaded(l)' = mem'[l] \/ (d # NoDDL /\ d.id = l) \/ l \in Unsavable'
                          \/ \E e \in Clients : e # c /\ ddl[e] # NoDDL /\ ddl[e].id = l
    <3>1. TAKE l \in Ids
    <3>2. CASE l = i
      BY <1>9, <3>2
    <3>3. CASE l # i
      <4>1. mem'[l] = mem[l] /\ Loaded(l)' = Loaded(l)
        BY <1>5, <1>13, <3>3
      <4>2. l \in Unsavable <=> l \in Unsavable'
        BY <4>1 DEF Unsavable
      <4>3. mem[l] = Loaded(l) \/ l \in Unsavable
              \/ \E e \in Clients : ddl[e] # NoDDL /\ ddl[e].id = l
        BY <1>14
      <4>4. QED
        BY <1>15, <4>1, <4>2, <4>3
    <3>4. QED
      BY <3>2, <3>3
  <2>3. \A l \in Ids : mem'[l] # mem[l] => d # NoDDL /\ d.id = l
    BY <1>5, <1>9
  <2>4. QED
    BY <1>7, <1>11, <1>12, <1>13, <2>1, <2>2, <2>3, DdlStep

LEMMA AlterSaved ==
  ASSUME Orderly(work), SavedInv, NEW c \in Clients, AlterJob(c)
  PROVE  SavedInv' /\ Durable!Work
<1>1. PICK i \in work.alters[c] :
        /\ Begin(c) /\ mem[i] # None
        /\ mem' = [mem EXCEPT ![i].mark = Toggled(@)]
        /\ NextDDL(c, [step |-> "fetch", id |-> i, def |-> None, held |-> FALSE])
        /\ UNCHANGED <<work, order, disk>>
  BY DEF AlterJob
<1>2. /\ Kept /\ Changes(work, c) /\ i \in JobIds /\ i \in Ids /\ i \notin TriggerIds
      /\ i \in Known(work)
  <2>1. Kept /\ work \in Works
    BY DEF SavedInv, Kept
  <2>2. i \in JobIds
    BY <2>1, WorksAssumption
  <2>3. QED
    BY <1>1, <2>1, <2>2 DEF Changes, JobIds, TriggerIds, Kept
<1>3. mem' \in [Ids -> Definitions \cup {None}] /\ mem'[i] # None
      /\ \A l \in Ids : l # i => mem'[l] = mem[l]
  <2>1. PICK f : f = [mem[i] EXCEPT !.mark = Toggled(mem[i].mark)]
    OBVIOUS
  <2>2. mem[i] \in Definitions
    BY <1>1, <1>2 DEF Kept
  <2>3. f \in Definitions /\ f # None
    BY <2>1, <2>2, NoneAssumption DEF Definitions, Toggled, Marks
  <2>4. mem' = [mem EXCEPT ![i] = f]
    BY <1>1, <2>1
  <2>5. QED
    BY <1>2, <2>3, <2>4 DEF Kept
<1>4. Kept'
  <2>1. ddl' = [e \in Clients |-> ddl'[e]]
    BY <1>1, <1>2, OnlyThis
  <2>2. \A l \in Ids : mem'[l] # None => l \in Known(work)
    BY <1>2, <1>3 DEF Kept
  <2>3. QED
    BY <1>1, <1>2, <1>3, <2>1, <2>2 DEF Kept
<1>5. PICK d : d = [step |-> "fetch", id |-> i, def |-> None, held |-> FALSE]
  OBVIOUS
<1>6. d.step = "fetch" /\ d.id = i /\ d # NoDDL
  BY <1>5, NoDDLFields
<1>7. Underway(c, d)'
  BY <1>1, <1>2, <1>3, <1>6 DEF Underway, ToFetch
<1>8. ASSUME NEW e \in Clients, e # c, ddl[e] # NoDDL
      PROVE  ~work.alone /\ Underway(e, ddl[e])'
  <2>1. ~work.alone /\ Underway(e, ddl[e]) /\ (ToFetch(e, ddl[e]) \/ ToSave(ddl[e]))
    BY <1>1, <1>2, <1>8, BesideMe
  <2>2. ddl'[e] = ddl[e]
    BY <1>1, <1>2, <1>8, OnlyThis
  <2>3. ddl[e].id \in Ids
    BY <1>2, <2>1, KnownIds DEF Underway, Kept
  <2>4. mem'[ddl[e].id] # None /\ (ddl[e].id \notin JobIds => mem'[ddl[e].id] = mem[ddl[e].id])
    BY <1>2, <1>3, <2>1, <2>3 DEF ToFetch, ToSave
  <2>5. CASE ToSave(ddl[e])
    BY <1>1, <2>1, <2>2, <2>4, <2>5 DEF Underway, ToSave
  <2>6. CASE ToFetch(e, ddl[e])
    <3>1. ddl[e].id \in TriggerIds => LastOfTiming(ddl[e].id, ddl[e].def.mark)'
      <4>1. HAVE ddl[e].id \in TriggerIds
      <4>2. PICK l, f : l = ddl[e].id /\ f = ddl[e].def
        OBVIOUS
      <4>3. l[3] \in Tables /\ LastOfTiming(l, f.mark)
        BY <2>6, <4>1, <4>2, IdsAssumption DEF ToFetch
      <4>4. \A k \in 1..Len(order[l[3]]) : mem'[order[l[3]][k]] = mem[order[l[3]][k]]
        <5>1. \A k \in 1..Len(order[l[3]]) : order[l[3]][k] \in TriggersOn(l[3])
          BY <1>2, <4>3 DEF Kept
        <5>2. \A j \in TriggersOn(l[3]) : j \in Ids /\ j # i
          BY <1>2 DEF TriggersOn, TriggerIds
        <5>3. QED
          BY <1>3, <5>1, <5>2
      <4>5. LastOfTiming(l, f.mark)'
        <5>1. PICK k \in 1..Len(order[l[3]]) :
                /\ order[l[3]][k] = l
                /\ \A n \in 1..Len(order[l[3]]) : n > k => mem[order[l[3]][n]].mark # f.mark
          BY <4>3 DEF LastOfTiming
        <5>2. \A n \in 1..Len(order[l[3]]) : n > k => mem'[order[l[3]][n]].mark # f.mark
          BY <4>4, <5>1
        <5>3. order' = order
          BY <1>1
        <5>4. QED
          BY <5>1, <5>2, <5>3 DEF LastOfTiming
      <4>6. QED
        BY <2>2, <4>2, <4>5
    <3>2. QED
      BY <1>1, <2>1, <2>2, <2>4, <2>6, <3>1 DEF Underway, ToFetch
  <2>7. QED
    BY <2>1, <2>5, <2>6
<1>9. \A l \in Ids : Loaded(l)' = Loaded(l)
  BY <1>1 DEF Loaded
<1>10. \A l \in Ids : mem[l] = Loaded(l) \/ l \in Unsavable
                      \/ \E e \in Clients : ddl[e] # NoDDL /\ ddl[e].id = l
  BY AtWorkMeans DEF SavedInv
<1>11. ddl[c] = NoDDL
  BY <1>1 DEF Begin, Quiet
<1>12. ASSUME NEW l \in Ids
       PROVE  /\ mem'[l] # mem[l] => d # NoDDL /\ d.id = l
              /\ Loaded(l)' \in {Loaded(l), mem[l], mem'[l]}
              /\ Loaded(l)' = mem'[l] \/ (d # NoDDL /\ d.id = l) \/ l \in Unsavable'
                          \/ \E e \in Clients : e # c /\ ddl[e] # NoDDL /\ ddl[e].id = l
  <2>1. CASE l = i
    BY <1>6, <1>9, <2>1
  <2>2. CASE l # i
    <3>1. mem'[l] = mem[l] /\ Loaded(l)' = Loaded(l)
      BY <1>3, <1>9, <2>2
    <3>2. l \in Unsavable <=> l \in Unsavable'
      BY <3>1 DEF Unsavable
    <3>3. mem[l] = Loaded(l) \/ l \in Unsavable
            \/ \E e \in Clients : ddl[e] # NoDDL /\ ddl[e].id = l
      BY <1>10
    <3>4. QED
      BY <1>11, <3>1, <3>2, <3>3
  <2>3. QED
    BY <2>1, <2>2
<1>13. NextDDL(c, d) /\ work' = work
  BY <1>1, <1>5
<1>14. QED
  BY <1>4, <1>7, <1>8, <1>12, <1>13, DdlStep

\* What is looked up to be saved is what the statement has created or altered:
\* of the triggers of one table and timing, the last.
LEMMA FetchFinds ==
  ASSUME SavedInv, NEW c \in Clients, ToFetch(c, ddl[c]), ddl[c].id \in Ids
  PROVE  Found(ddl[c].id, ddl[c].def) = {ddl[c].id}
<1>1. PICK i, def : i = ddl[c].id /\ def = ddl[c].def
  OBVIOUS
<1>2. CASE i \notin TriggerIds
  BY <1>1, <1>2 DEF Found, ToFetch
<1>3. CASE i \in TriggerIds
  <2>1. PICK o : o = order[i[3]]
    OBVIOUS
  <2>2. Len(o) \in Nat /\ DOMAIN o = 1..Len(o)
    BY <1>3, <2>1, IdsAssumption DEF SavedInv, Kept
  <2>3. mem[i] = def /\ LastOfTiming(i, def.mark)
    BY <1>1, <1>3 DEF ToFetch, TriggerIds, JobIds
  <2>4. PICK k \in 1..Len(o) : o[k] = i /\ \A l \in 1..Len(o) : l > k => mem[o[l]].mark # def.mark
    BY <2>1, <2>3 DEF LastOfTiming
  <2>5. PICK same : same = {l \in DOMAIN o : mem[o[l]].mark = def.mark}
    OBVIOUS
  <2>6. k \in same /\ \A l \in same : l <= k
    BY <2>2, <2>3, <2>4, <2>5
  <2>7. {l \in same : \A n \in same : n <= l} = {k}
    <3>1. ASSUME NEW l \in same, \A n \in same : n <= l PROVE l = k
      BY <2>2, <2>5, <2>6, <3>1
    <3>2. QED
      BY <2>6, <3>1
  <2>8. Found(i, def) = {o[l] : l \in {l \in same : \A n \in same : n <= l}}
    BY <1>3, <2>1, <2>5 DEF Found
  <2>9. QED
    BY <1>1, <2>4, <2>7, <2>8
<1>4. QED
  BY <1>1, <1>2, <1>3


\* A client beside one whose statement is under way.
LEMMA Beside ==
  ASSUME Orderly(work), SavedInv, NEW c \in Clients, ddl[c] # NoDDL,
         NEW e \in Clients, e # c, ddl[e] # NoDDL
  PROVE  /\ ~work.alone /\ Underway(e, ddl[e])
         /\ work.drops[c] = {} /\ work.drops[e] = {}
<1>1. ~work.alone /\ Underway(e, ddl[e]) /\ Underway(c, ddl[c])
  BY DEF SavedInv
<1>2. QED
  BY <1>1 DEF Underway, Orderly

LEMMA FetchSaved ==
  ASSUME Orderly(work), SavedInv, NEW c \in Clients, Fetch(c)
  PROVE  SavedInv' /\ Durable!Work
<1>1. PICK i : i = ddl[c].id
  OBVIOUS
<1>2. /\ ddl[c] # NoDDL /\ Kept /\ Underway(c, ddl[c]) /\ ToFetch(c, ddl[c])
      /\ i \in Known(work) /\ i \in Ids /\ Changes(work, c)
  <2>1. ddl[c] # NoDDL
    BY NoDDLFields DEF Fetch
  <2>2. Kept /\ Underway(c, ddl[c]) /\ ToFetch(c, ddl[c])
    BY <2>1 DEF SavedInv, Underway, ToSave, ToDelete, Fetch
  <2>3. QED
    BY <1>1, <2>1, <2>2, KnownIds DEF Underway, Kept
<1>3. PICK d : d = [step |-> "save", id |-> i, def |-> mem[i], held |-> i \in JobIds]
  OBVIOUS
<1>4. NextDDL(c, d) /\ UNCHANGED <<work, mem, order, disk>>
  BY <1>1, <1>2, <1>3, FetchFinds DEF Fetch, catalog
<1>5. d.step = "save" /\ d.id = i /\ d.def = mem[i] /\ (d.held <=> i \in JobIds) /\ d # NoDDL
  <2>1. d.step = "save" /\ d.id = i /\ d.def = mem[i] /\ d.held = (i \in JobIds)
    BY <1>3, Zenon
  <2>2. d # NoDDL
    BY <2>1, NoDDLFields
  <2>3. QED
    BY <2>1, <2>2, Zenon
<1>6. Kept'
  <2>1. ddl' = [e \in Clients |-> ddl'[e]]
    BY <1>2, <1>4, OnlyThis
  <2>2. QED
    BY <1>2, <1>4, <2>1 DEF Kept
<1>7. Underway(c, d)'
  BY <1>1, <1>2, <1>4, <1>5 DEF Underway, ToSave, ToFetch
<1>8. ASSUME NEW e \in Clients, e # c, ddl[e] # NoDDL
      PROVE  ~work.alone /\ Underway(e, ddl[e])'
  <2>1. ~work.alone /\ Underway(e, ddl[e]) /\ ddl'[e] = ddl[e]
    BY <1>2, <1>4, <1>8, OnlyThis, Beside
  <2>2. \A l, mark : LastOfTiming(l, mark)' <=> LastOfTiming(l, mark)
    BY <1>4 DEF LastOfTiming
  <2>3. QED
    BY <1>4, <2>1, <2>2 DEF Underway, ToSave, ToFetch, ToDelete
<1>9. \A l \in Ids : Loaded(l)' = Loaded(l)
  BY <1>4 DEF Loaded
<1>10. \A l \in Ids : mem[l] = Loaded(l) \/ l \in Unsavable
                      \/ \E e \in Clients : ddl[e] # NoDDL /\ ddl[e].id = l
  BY AtWorkMeans DEF SavedInv
<1>11. Unsavable' = Unsavable
  BY <1>4 DEF Unsavable
<1>12. ASSUME NEW l \in Ids
       PROVE  /\ mem'[l] = mem[l]
              /\ Loaded(l)' \in {Loaded(l), mem[l], mem'[l]}
              /\ Loaded(l)' = mem'[l] \/ (d # NoDDL /\ d.id = l) \/ l \in Unsavable'
                          \/ \E e \in Clients : e # c /\ ddl[e] # NoDDL /\ ddl[e].id = l
  BY <1>1, <1>4, <1>5, <1>9, <1>10, <1>11
<1>13. QED
  BY <1>4, <1>6, <1>7, <1>8, <1>12, DdlStep

\* The statement ends: what it worked on is settled, unless it cannot be saved.
LEMMA EndSaved ==
  ASSUME Orderly(work), SavedInv, NEW c \in Clients, ddl[c] # NoDDL, Kept',
         NEW i, i = ddl[c].id, \A l \in Ids : l # i => Loaded(l)' = Loaded(l),
         Loaded(i)' = mem[i] \/ (Loaded(i)' = Loaded(i) /\ i \in Unsavable),
         NextDDL(c, NoDDL), UNCHANGED <<work, mem, order>>
  PROVE  SavedInv' /\ Durable!Work
<1>1. Kept
  BY DEF SavedInv
<1>2. ASSUME NEW e \in Clients, e # c, ddl[e] # NoDDL
      PROVE  ~work.alone /\ Underway(e, ddl[e])'
  <2>1. ~work.alone /\ Underway(e, ddl[e]) /\ ddl'[e] = ddl[e]
    BY <1>1, <1>2, OnlyThis, Beside
  <2>2. \A l, mark : LastOfTiming(l, mark)' <=> LastOfTiming(l, mark)
    BY DEF LastOfTiming
  <2>3. QED
    BY <2>1, <2>2 DEF Underway, ToSave, ToFetch, ToDelete
<1>3. \A l \in Ids : mem[l] = Loaded(l) \/ l \in Unsavable
                      \/ \E e \in Clients : ddl[e] # NoDDL /\ ddl[e].id = l
  BY AtWorkMeans DEF SavedInv
<1>4. Unsavable' = Unsavable
  BY DEF Unsavable
<1>5. ASSUME NEW l \in Ids
      PROVE  /\ mem'[l] = mem[l]
             /\ Loaded(l)' \in {Loaded(l), mem[l], mem'[l]}
             /\ Loaded(l)' = mem'[l] \/ l \in Unsavable'
                  \/ \E e \in Clients : e # c /\ ddl[e] # NoDDL /\ ddl[e].id = l
  <2>1. CASE l = i
    BY <1>4, <2>1
  <2>2. CASE l # i
    <3>1. Loaded(l)' = Loaded(l)
      BY <2>2
    <3>2. mem[l] = Loaded(l) \/ l \in Unsavable
            \/ \E e \in Clients : e # c /\ ddl[e] # NoDDL /\ ddl[e].id = l
      BY <1>3, <2>2
    <3>3. QED
      BY <1>4, <3>1, <3>2
  <2>3. QED
    BY <2>1, <2>2
<1>6. QED
  BY <1>2, <1>5, DdlStep

\* A write to disk: one routine's key.
LEMMA WriteSaved ==
  ASSUME Orderly(work), SavedInv, NEW c \in Clients, ddl[c] # NoDDL, Kept',
         NEW v, v = None \/ v = <<ddl[c].id, mem[ddl[c].id]>>,
         mem[ddl[c].id] = IF v = None THEN None ELSE v[2],
         disk' = [disk EXCEPT ![Key(ddl[c].id)] = v],
         NextDDL(c, NoDDL), UNCHANGED <<work, mem, order>>
  PROVE  SavedInv' /\ Durable!Work
<1>1. PICK i : i = ddl[c].id
  OBVIOUS
<1>2. Kept /\ i \in Known(work)
  BY <1>1 DEF SavedInv, Underway
<1>3. /\ \A l \in Ids : l # i => Loaded(l)' = Loaded(l)
      /\ Loaded(i)' = mem[i]
  <2>1. v = None \/ v[1] = i
    BY <1>1
  <2>2. disk' = [disk EXCEPT ![Key(i)] = v] /\ mem[i] = IF v = None THEN None ELSE v[2]
    BY <1>1
  <2>3. QED
    BY <1>2, <2>1, <2>2, OneKey
<1>4. QED
  BY <1>1, <1>3, EndSaved

\* A job is saved as it is by now; what else is saved is as it was created.
\* What cannot be encoded stays as it is on disk.
LEMMA SaveSaved ==
  ASSUME Orderly(work), SavedInv, NEW c \in Clients, Save(c)
  PROVE  SavedInv' /\ Durable!Work
<1>1. ddl[c] # NoDDL
  BY NoDDLFields DEF Save
<1>2. Kept /\ Underway(c, ddl[c]) /\ ToSave(ddl[c])
  BY <1>1 DEF SavedInv, Underway, ToFetch, ToDelete, Save
<1>3. PICK i, v : i = ddl[c].id /\ v = <<i, mem[i]>>
  OBVIOUS
<1>4. i \in Known(work) /\ i \in Ids /\ mem[i] \in Definitions /\ Key(i) \in Keys
  <2>1. i \in Known(work) /\ i \in Ids
    BY <1>2, <1>3, KnownIds DEF Underway, Kept
  <2>2. QED
    BY <1>2, <1>3, <2>1 DEF ToSave, Kept, Keys
<1>5. /\ disk' = IF Encodable(mem[i]) THEN [disk EXCEPT ![Key(i)] = v] ELSE disk
      /\ NextDDL(c, NoDDL) /\ UNCHANGED <<work, mem, order>>
  <2>1. mem[i] = IF ddl[c].held THEN mem[ddl[c].id] ELSE ddl[c].def
    BY <1>2, <1>3 DEF ToSave
  <2>2. QED
    BY <1>3, <2>1 DEF Save, catalog
<1>6. v # None /\ v[1] = i /\ v[2] = mem[i]
  BY <1>3, <1>4, NoneAssumption
<1>7. ddl' = [e \in Clients |-> ddl'[e]]
  BY <1>2, <1>5, OnlyThis
<1>8. CASE Encodable(mem[i])
  <2>1. /\ disk' = [k \in Keys |-> disk'[k]]
        /\ disk'[Key(i)] = v /\ \A k \in Keys : k # Key(i) => disk'[k] = disk[k]
    BY <1>2, <1>4, <1>5, <1>8 DEF Kept
  <2>2. mem[i] \in Savable
    BY <1>4, <1>8 DEF Savable
  <2>3. \A k \in Keys : disk'[k] # None =>
           disk'[k][1] \in Known(work) /\ Key(disk'[k][1]) = k /\ disk'[k][2] \in Savable
    BY <1>2, <1>4, <1>6, <2>1, <2>2 DEF Kept
  <2>4. Kept'
    BY <1>2, <1>5, <1>7, <2>1, <2>3 DEF Kept
  <2>5. QED
    BY <1>1, <1>3, <1>5, <1>6, <1>8, <2>4, WriteSaved
<1>9. CASE ~Encodable(mem[i])
  <2>1. disk' = disk
    BY <1>5, <1>9
  <2>2. Kept'
    BY <1>2, <1>5, <1>7, <2>1 DEF Kept
  <2>3. \A l \in Ids : Loaded(l)' = Loaded(l)
    BY <2>1 DEF Loaded
  <2>4. i \in Unsavable
    BY <1>4, <1>9, NoneAssumption DEF Unsavable
  <2>5. QED
    BY <1>1, <1>3, <1>4, <1>5, <2>2, <2>3, <2>4, EndSaved
<1>10. QED
  BY <1>8, <1>9

LEMMA DeleteSaved ==
  ASSUME Orderly(work), SavedInv, NEW c \in Clients, Delete(c)
  PROVE  SavedInv' /\ Durable!Work
<1>1. ddl[c] # NoDDL
  BY NoDDLFields DEF Delete
<1>2. Kept /\ Underway(c, ddl[c]) /\ ToDelete(c, ddl[c])
  BY <1>1 DEF SavedInv, Underway, ToFetch, ToSave, Delete
<1>3. /\ disk' = [disk EXCEPT ![Key(ddl[c].id)] = None] /\ NextDDL(c, NoDDL)
      /\ UNCHANGED <<work, mem, order>>
  BY DEF Delete, catalog
<1>4. mem[ddl[c].id] = None
  BY <1>2 DEF ToDelete
<1>5. Kept'
  <2>1. ddl' = [e \in Clients |-> ddl'[e]]
    BY <1>2, <1>3, OnlyThis
  <2>2. /\ disk' = [k \in Keys |-> disk'[k]]
        /\ \A k \in Keys : disk'[k] = disk[k] \/ disk'[k] = None
    BY <1>2, <1>3 DEF Kept
  <2>3. \A k \in Keys : disk'[k] # None =>
           disk'[k][1] \in Known(work) /\ Key(disk'[k][1]) = k /\ disk'[k][2] \in Savable
    BY <1>2, <2>2 DEF Kept
  <2>4. QED
    BY <1>2, <1>3, <2>1, <2>2, <2>3 DEF Kept
<1>6. QED
  BY <1>1, <1>3, <1>4, <1>5, WriteSaved

\* Nobody else is at work, so there is no other holder of a job to let it go.
LEMMA DropSaved ==
  ASSUME Orderly(work), SavedInv, NEW c \in Clients, Drop(c)
  PROVE  SavedInv' /\ Durable!Work
<1>1. PICK i \in work.drops[c] :
        /\ Begin(c) /\ mem[i] # None
        /\ mem' = [mem EXCEPT ![i] = None]
        /\ IF i \in TriggerIds
           THEN \E k \in DOMAIN order[i[3]] :
                  order[i[3]][k] = i /\ order' = [order EXCEPT ![i[3]] = RemoveAt(@, k)]
           ELSE UNCHANGED order
        /\ ddl' = [d \in Clients |->
                 IF d = c THEN [step |-> "delete", id |-> i, def |-> None, held |-> FALSE]
                          ELSE LetGo(ddl[d], i)]
        /\ UNCHANGED <<work, disk>>
  BY Zenon DEF Drop
<1>2. /\ Kept /\ Changes(work, c) /\ work.drops[c] # {} /\ i \in Ids /\ i \in Known(work)
  <2>1. Kept /\ work \in Works
    BY DEF SavedInv, Kept
  <2>2. i \in Ids
    BY <2>1, WorksAssumption
  <2>3. QED
    BY <1>1, <2>1, <2>2 DEF Changes, Kept
<1>3. \A e \in Clients : e # c => ddl[e] = NoDDL
  BY <1>1, <1>2, BesideMe
<1>4. PICK d : d = [step |-> "delete", id |-> i, def |-> None, held |-> FALSE]
  OBVIOUS
<1>5. d.step = "delete" /\ d.id = i /\ d # NoDDL
  BY <1>4, NoDDLFields
<1>6. NextDDL(c, d)
  <2>1. \A e \in Clients : e # c => LetGo(ddl[e], i) = ddl[e]
    BY <1>3, NoDDLFields DEF LetGo
  <2>2. ddl' = [e \in Clients |-> IF e = c THEN d ELSE ddl[e]]
    BY <1>1, <1>4, <2>1
  <2>3. QED
    BY <1>2, <2>2 DEF NextDDL, Kept
<1>7. mem' \in [Ids -> Definitions \cup {None}] /\ mem'[i] = None
      /\ \A l \in Ids : l # i => mem'[l] = mem[l]
  BY <1>1, <1>2 DEF Kept
<1>8. order' = [u \in Tables |-> order'[u]] /\ \A u \in Tables : order'[u] \in Seq(TriggersOn(u))
  <2>1. CASE i \notin TriggerIds
    BY <1>1, <1>2, <2>1 DEF Kept
  <2>2. CASE i \in TriggerIds
    <3>1. PICK t \in Tables : t = i[3]
      BY <2>2, IdsAssumption
    <3>2. PICK o : o = order[t]
      OBVIOUS
    <3>3. o \in Seq(TriggersOn(t)) /\ DOMAIN o = 1..Len(o) /\ Len(o) \in Nat
      BY <1>2, <3>2 DEF Kept
    <3>4. PICK k \in 1..Len(o) : order' = [order EXCEPT ![t] = RemoveAt(o, k)]
      BY <1>1, <2>2, <3>1, <3>2, <3>3
    <3>5. RemoveAt(o, k) \in Seq(TriggersOn(t))
      <4>1. SubSeq(o, 1, k - 1) \in Seq(TriggersOn(t))
        <5>1. \A n \in 1..(k - 1) : o[n] \in TriggersOn(t)
          BY <3>3, <3>4
        <5>2. 1 \in Int /\ k - 1 \in Int
          BY <3>3, <3>4
        <5>3. QED
          BY <5>1, <5>2, SubSeqProperties
      <4>2. SubSeq(o, k + 1, Len(o)) \in Seq(TriggersOn(t))
        <5>1. \A n \in (k + 1)..Len(o) : o[n] \in TriggersOn(t)
          BY <3>3, <3>4
        <5>2. k + 1 \in Int /\ Len(o) \in Int
          BY <3>3, <3>4
        <5>3. QED
          BY <5>1, <5>2, SubSeqProperties
      <4>3. QED
        BY <4>1, <4>2, ConcatProperties DEF RemoveAt
    <3>6. QED
      BY <1>2, <3>4, <3>5, Relisted
  <2>3. QED
    BY <2>1, <2>2
<1>9. Kept'
  <2>1. ddl' = [e \in Clients |-> ddl'[e]]
    BY <1>2, <1>6, OnlyThis
  <2>2. \A l \in Ids : mem'[l] # None => l \in Known(work)
    BY <1>2, <1>7 DEF Kept
  <2>3. QED
    BY <1>1, <1>2, <1>7, <1>8, <2>1, <2>2 DEF Kept
<1>10. Underway(c, d)'
  BY <1>1, <1>2, <1>5, <1>7 DEF Underway, ToDelete
<1>11. \A l \in Ids : Loaded(l)' = Loaded(l)
  BY <1>1 DEF Loaded
<1>12. ddl[c] = NoDDL
  BY <1>1 DEF Begin, Quiet
<1>13. \A l \in Ids : Loaded(l) = mem[l] \/ l \in Unsavable
  BY <1>3, <1>12, AtWorkMeans DEF SavedInv
<1>14. ASSUME NEW l \in Ids
       PROVE  /\ mem'[l] # mem[l] => d # NoDDL /\ d.id = l
              /\ Loaded(l)' \in {Loaded(l), mem[l], mem'[l]}
              /\ Loaded(l)' = mem'[l] \/ (d # NoDDL /\ d.id = l) \/ l \in Unsavable'
  <2>1. CASE l = i
    BY <1>5, <1>11, <2>1
  <2>2. CASE l # i
    <3>1. mem'[l] = mem[l]
      BY <1>7, <2>2
    <3>2. l \in Unsavable <=> l \in Unsavable'
      BY <3>1 DEF Unsavable
    <3>3. QED
      BY <1>11, <1>13, <3>1, <3>2
  <2>3. QED
    BY <2>1, <2>2
<1>15. work' = work
  BY <1>1
<1>16. QED
  BY <1>3, <1>6, <1>9, <1>10, <1>14, <1>15, DdlStep

\* What is loaded is what the keys hold.
LEMMA RestartSaved ==
  ASSUME Orderly(work), SavedInv, Restart
  PROVE  SavedInv' /\ Durable!Restart
<1>1. /\ mem' = [i \in Ids |-> Loaded(i)] /\ work' = work /\ disk' = disk
      /\ ddl' = [c \in Clients |-> NoDDL]
      /\ order' \in Orders /\ Ordered(order', mem')
  BY DEF Restart
<1>2. Kept
  BY DEF SavedInv
<1>3. \A i \in Ids : /\ Loaded(i) \in Savable \cup {None}
                     /\ Loaded(i) # None => i \in Known(work)
                     /\ Loaded(i)' = Loaded(i)
  <2>1. TAKE i \in Ids
  <2>2. Key(i) \in Keys
    BY DEF Keys
  <2>3. QED
    BY <1>1, <1>2, <2>2 DEF Loaded, Kept
<1>4. ASSUME NEW t \in Tables
      PROVE  order'[t] \in Seq(TriggersOn(t))
  <2>1. PICK S \in SUBSET TriggerIds : order'[t] \in [1..Cardinality(S) -> S]
    BY <1>1 DEF Orders, Arrangements
  <2>2. Cardinality(S) \in Nat
    BY IdsAssumption, FS_Subset, FS_CardinalityType DEF TriggerIds
  <2>3. \A k \in 1..Cardinality(S) : order'[t][k] \in TriggersOn(t)
    BY <1>1, <2>1 DEF Ordered, TriggersOf, TriggersOn
  <2>4. order'[t] \in [1..Cardinality(S) -> TriggersOn(t)]
    BY <2>1, <2>3
  <2>5. QED
    BY <2>2, <2>4
<1>5. order' = [t \in Tables |-> order'[t]]
  BY <1>1 DEF Orders
<1>6. Kept'
  <2>1. mem' \in [Ids -> Definitions \cup {None}]
    BY <1>1, <1>3 DEF Savable
  <2>2. QED
    BY <1>1, <1>2, <1>3, <1>4, <1>5, <2>1 DEF Kept
<1>7. AtWork' = {} /\ Unsavable' = {}
  BY <1>1, <1>3 DEF AtWork, Unsavable, Savable
<1>8. \A i \in Ids : Loaded(i)' = mem'[i]
  BY <1>1, <1>3
<1>9. SavedInv'
  BY <1>1, <1>6, <1>8 DEF SavedInv
<1>10. Durable!Restart
  BY <1>1, <1>3, <1>7, <1>8 DEF Durable!Restart, AtWork
<1>11. QED
  BY <1>9, <1>10

LEMMA NextSaved ==
  ASSUME Orderly(work), SavedInv, [Next]_vars
  PROVE  /\ SavedInv' /\ Orderly(work)'
         /\ \/ Durable!Next
            \/ UNCHANGED <<mem, [i \in Ids |-> {mem[i], Loaded(i)}],
                           {ddl[c].id : c \in {c \in Clients : ddl[c] # NoDDL}} \cup Unsavable>>
<1>1. work' = work
  BY DEF Next, vars, DDL, Create, AlterJob, Fetch, Save, Drop, Delete, Run, Step, Execute,
         Return, EnterTriggers, GetTriggers, LeaveTriggers, LeftTriggers, InsertRow, BreakOff,
         Persist, Minute, Snapshot, StartJob, Restart
<1>2. Orderly(work)'
  BY <1>1 DEF Orderly, Known, Makes, Changes
<1>3. ASSUME NEW c \in Clients, DDL(c) PROVE SavedInv' /\ Durable!Next
  BY <1>3, CreateSaved, AlterSaved, FetchSaved, SaveSaved, DropSaved, DeleteSaved
     DEF DDL, Durable!Next
<1>4. CASE Restart
  BY <1>2, <1>4, RestartSaved DEF Durable!Next
<1>5. ASSUME ~\E c \in Clients : DDL(c), ~Restart PROVE UNCHANGED <<mem, order, disk, ddl>>
  BY <1>5 DEF Next, vars, Run, Step, Execute,
         Return, EnterTriggers, GetTriggers, LeaveTriggers, LeftTriggers, InsertRow, BreakOff,
         Persist, Minute, Snapshot, StartJob, catalog
<1>6. QED
  BY <1>1, <1>2, <1>3, <1>4, <1>5, SavedUnchanged, Stutters

----------------------------------------------------------------------------
(* Induction over the natural numbers, as a fact about sets                *)

Below == OpToRel(<, Nat)

LEMMA Smallest ==
  ASSUME NEW S, S \subseteq Nat, S # {}
  PROVE  \E n \in S : \A m \in S : n <= m
<1>1. IsWellFoundedOn(Below, Nat)
  BY NatLessThanWellFounded, Zenon DEF Below
<1>2. \E n \in S : \A m \in S : <<m, n>> \notin Below
  BY <1>1, WFMin, Zenon
<1>3. \A m, n \in Nat : <<m, n>> \in Below <=> m < n
  BY DEF Below, OpToRel
<1>4. PICK n \in S : \A m \in S : <<m, n>> \notin Below
  BY <1>2
<1>5. ASSUME NEW m \in S PROVE n <= m
  <2>1. m \in Nat /\ n \in Nat /\ ~(m < n)
    BY <1>3, <1>4
  <2>2. QED
    BY <2>1
<1>6. QED
  BY <1>5
LEMMA Induction ==
  ASSUME NEW S, 0 \in S, \A n \in Nat : n \in S => n + 1 \in S
  PROVE  Nat \subseteq S
<1> SUFFICES ASSUME Nat \ S # {} PROVE FALSE
  OBVIOUS
<1>1. PICK n \in Nat \ S : \A m \in Nat \ S : n <= m
  <2>1. Nat \ S \subseteq Nat
    OBVIOUS
  <2>2. QED
    BY <2>1, Smallest
<1>2. n - 1 \in Nat /\ n - 1 \notin Nat \ S
  BY <1>1
<1>3. n \in S
  BY <1>2
<1>4. QED
  BY <1>1, <1>3
\* A function that is given step by step.
Recurs(f, k, base, G) == f[0] = base /\ \A i \in 1..k : f[i] = G[<<i, f[i - 1]>>]

LEMMA Recursion ==
  ASSUME NEW k \in Nat, NEW S, NEW base \in S, NEW G \in [(1..k) \X S -> S]
  PROVE  \E f \in [0..k -> S] : Recurs(f, k, base, G)
<1> DEFINE Is(f, n) == /\ f \in [0..n -> S] /\ f[0] = base
                       /\ \A i \in 1..n : f[i] = G[<<i, f[i - 1]>>]
           T == {n \in Nat : n <= k => \E f : Is(f, n)}
<1>1. 0 \in T
  <2>1. Is([i \in 0..0 |-> base], 0)
    OBVIOUS
  <2>2. QED
    BY <2>1
<1>2. ASSUME NEW n \in Nat, n \in T PROVE n + 1 \in T
  <2> SUFFICES ASSUME n + 1 <= k PROVE \E f : Is(f, n + 1)
    OBVIOUS
  <2>1. PICK f : Is(f, n)
    BY <1>2
  <2>2. f[n] \in S /\ n + 1 \in 1..k /\ <<n + 1, f[n]>> \in (1..k) \X S
    BY <2>1
  <2>3. PICK x \in S : x = G[<<n + 1, f[n]>>]
    BY <2>2
  <2>4. PICK g : g = [i \in 0..n + 1 |-> IF i = n + 1 THEN x ELSE f[i]]
    OBVIOUS
  <2>5. g \in [0..n + 1 -> S] /\ g[0] = base
    BY <2>1, <2>3, <2>4
  <2>6. ASSUME NEW i \in 1..n + 1 PROVE g[i] = G[<<i, g[i - 1]>>]
    <3>1. CASE i = n + 1
      <4>1. i - 1 = n /\ n \in 0..n + 1 /\ n # n + 1 /\ n + 1 \in 0..n + 1
        BY <3>1
      <4>2. g[i] = x /\ g[i - 1] = f[n]
        BY <2>4, <3>1, <4>1
      <4>3. QED
        BY <2>3, <3>1, <4>2
    <3>2. CASE i \in 1..n
      <4>1. /\ i - 1 \in 0..n + 1 /\ i - 1 # n + 1 /\ i # n + 1 /\ i \in 0..n + 1
        BY <3>2
      <4>2. g[i] = f[i] /\ g[i - 1] = f[i - 1]
        BY <2>4, <4>1
      <4>3. QED
        BY <2>1, <3>2, <4>2
    <3>3. QED
      BY <3>1, <3>2
  <2>7. Is(g, n + 1)
    BY <2>5, <2>6
  <2> HIDE DEF Is
  <2>8. QED
    BY <2>7
<1> HIDE DEF T
<1>3. k \in T
  BY <1>1, <1>2, Induction
<1>4. QED
  BY <1>3 DEF T, Recurs

----------------------------------------------------------------------------
(* The lists of triggers, and the types                                    *)

\* A list of triggers with each of some at one place and no others.
Lists(o, S) ==
  /\ o \in Seq(TriggerIds)
  /\ \A k, n \in 1..Len(o) : o[k] = o[n] => k = n
  /\ \A i : i \in S <=> \E k \in 1..Len(o) : o[k] = i

LEMMA ListedAppend ==
  ASSUME NEW o, NEW S, Lists(o, S), NEW i \in TriggerIds, i \notin S
  PROVE  Lists(Append(o, i), S \cup {i})
<1>1. PICK n : n = Append(o, i)
  OBVIOUS
<1>2. /\ o \in Seq(TriggerIds) /\ Len(o) \in Nat
      /\ \A k \in 1..Len(o) : o[k] \in S
  BY DEF Lists
<1>3. /\ n \in Seq(TriggerIds) /\ Len(n) = Len(o) + 1 /\ n[Len(o) + 1] = i
      /\ \A k \in 1..Len(o) : n[k] = o[k]
  BY <1>1, <1>2
<1>4. \A k \in 1..Len(n) : k = Len(o) + 1 \/ (k \in 1..Len(o) /\ n[k] = o[k] /\ n[k] # i)
  BY <1>2, <1>3
<1>5. ASSUME NEW k \in 1..Len(n), NEW m \in 1..Len(n), n[k] = n[m] PROVE k = m
  BY <1>3, <1>4, <1>5 DEF Lists
<1>6. ASSUME NEW x PROVE x \in S \cup {i} <=> \E k \in 1..Len(n) : n[k] = x
  <2>1. CASE x = i
    BY <1>2, <1>3, <2>1
  <2>2. CASE x # i
    <3>1. x \in S <=> \E k \in 1..Len(o) : o[k] = x
      BY DEF Lists
    <3>2. \A k \in 1..Len(o) : k \in 1..Len(n)
      BY <1>2, <1>3
    <3>3. QED
      BY <1>3, <1>4, <2>2, <3>1, <3>2
  <2>3. QED
    BY <2>1, <2>2
<1>7. QED
  BY <1>1, <1>3, <1>5, <1>6 DEF Lists

\* What is left of a sequence without its k-th element.
LEMMA WithoutOne ==
  ASSUME NEW S, NEW s \in Seq(S), NEW k \in 1..Len(s)
  PROVE  /\ RemoveAt(s, k) \in Seq(S) /\ Len(RemoveAt(s, k)) = Len(s) - 1
         /\ \A n \in 1..Len(s) - 1 : RemoveAt(s, k)[n] = s[IF n < k THEN n ELSE n + 1]
<1>1. PICK a, b : a = SubSeq(s, 1, k - 1) /\ b = SubSeq(s, k + 1, Len(s))
  OBVIOUS
<1>2. Len(s) \in Nat /\ \A n \in 1..Len(s) : s[n] \in S
  OBVIOUS
<1>3. a \in Seq(S) /\ Len(a) = k - 1 /\ \A n \in 1..k - 1 : a[n] = s[n]
  BY <1>1, <1>2, SubSeqProperties, Z3
<1>4. b \in Seq(S) /\ Len(b) = Len(s) - k /\ \A n \in 1..Len(s) - k : b[n] = s[n + k]
  BY <1>1, <1>2, SubSeqProperties, Z3
<1>5. /\ a \o b \in Seq(S) /\ Len(a \o b) = Len(a) + Len(b)
      /\ \A n \in 1..Len(a) + Len(b) :
           (a \o b)[n] = IF n <= Len(a) THEN a[n] ELSE b[n - Len(a)]
  BY <1>3, <1>4, ConcatProperties
<1>6. PICK r : r = a \o b
  OBVIOUS
<1>7. RemoveAt(s, k) = r
  BY <1>1, <1>6 DEF RemoveAt
<1>8. r \in Seq(S) /\ Len(r) = Len(s) - 1
  BY <1>2, <1>3, <1>4, <1>5, <1>6
<1>9. ASSUME NEW n \in 1..Len(s) - 1 PROVE r[n] = s[IF n < k THEN n ELSE n + 1]
  <2>1. r[n] = IF n <= Len(a) THEN a[n] ELSE b[n - Len(a)]
    BY <1>2, <1>3, <1>4, <1>5, <1>6
  <2>2. CASE n < k
    BY <1>2, <1>3, <2>1, <2>2
  <2>3. CASE ~(n < k)
    <3>1. n - (k - 1) \in 1..Len(s) - k /\ (n - (k - 1)) + k = n + 1
      BY <1>2, <2>3
    <3>2. r[n] = b[n - (k - 1)] /\ b[n - (k - 1)] = s[(n - (k - 1)) + k]
      BY <1>2, <1>3, <1>4, <2>1, <2>3, <3>1
    <3>3. QED
      BY <2>3, <3>1, <3>2
  <2>4. QED
    BY <2>2, <2>3
<1>10. QED
  BY <1>7, <1>8, <1>9

LEMMA ListedRemove ==
  ASSUME NEW o, NEW S, Lists(o, S), NEW k \in 1..Len(o)
  PROVE  Lists(RemoveAt(o, k), S \ {o[k]})
<1>1. PICK r, N : r = RemoveAt(o, k) /\ N = Len(o)
  OBVIOUS
<1>2. o \in Seq(TriggerIds) /\ N \in Nat /\ k \in 1..N
  BY <1>1 DEF Lists
<1>3. PICK at : at = [n \in 1..N - 1 |-> IF n < k THEN n ELSE n + 1]
  OBVIOUS
<1>4. r \in Seq(TriggerIds) /\ Len(r) = N - 1 /\ \A n \in 1..N - 1 : r[n] = o[at[n]]
  <2>1. /\ RemoveAt(o, k) \in Seq(TriggerIds) /\ Len(RemoveAt(o, k)) = Len(o) - 1
        /\ \A n \in 1..Len(o) - 1 : RemoveAt(o, k)[n] = o[IF n < k THEN n ELSE n + 1]
    BY <1>2, WithoutOne
  <2>2. QED
    BY <1>1, <1>3, <2>1
<1>5. /\ \A n \in 1..N - 1 : at[n] \in 1..N /\ at[n] # k
      /\ \A n, m \in 1..N - 1 : at[n] = at[m] => n = m
  BY <1>2, <1>3
<1>6. ASSUME NEW m \in 1..N, m # k PROVE \E n \in 1..N - 1 : at[n] = m
  <2>1. CASE m < k
    BY <1>2, <1>3, <2>1
  <2>2. CASE m > k
    <3>1. m - 1 \in 1..N - 1 /\ ~(m - 1 < k) /\ (m - 1) + 1 = m
      BY <1>2, <2>2
    <3>2. QED
      BY <1>3, <3>1
  <2>3. QED
    BY <1>2, <1>6, <2>1, <2>2
<1>7. /\ \A n, m \in 1..N : o[n] = o[m] => n = m
      /\ \A i : i \in S <=> \E n \in 1..N : o[n] = i
  BY <1>1 DEF Lists
<1>8. \A n, m \in 1..N - 1 : r[n] = r[m] => n = m
  BY <1>4, <1>5, <1>7
<1>9. ASSUME NEW i PROVE i \in S \ {o[k]} <=> \E n \in 1..N - 1 : r[n] = i
  <2>1. ASSUME NEW n \in 1..N - 1, r[n] = i PROVE i \in S \ {o[k]}
    BY <1>2, <1>4, <1>5, <1>7, <2>1
  <2>2. ASSUME i \in S \ {o[k]} PROVE \E n \in 1..N - 1 : r[n] = i
    <3>1. PICK m \in 1..N : o[m] = i
      BY <1>7, <2>2
    <3>2. m # k
      BY <2>2, <3>1
    <3>3. QED
      BY <1>4, <1>6, <3>1, <3>2
  <2>3. QED
    BY <2>1, <2>2
<1>10. QED
  BY <1>1, <1>4, <1>8, <1>9 DEF Lists

\* A restart lists the triggers in some order.
LEMMA ListedOrders ==
  ASSUME NEW o \in Orders, NEW defs, Ordered(o, defs)
  PROVE  /\ o = [t \in Tables |-> o[t]]
         /\ \A t \in Tables : Lists(o[t], TriggersOf(defs, t))
<1>1. o = [t \in Tables |-> o[t]]
  BY DEF Orders
<1>2. ASSUME NEW t \in Tables PROVE Lists(o[t], TriggersOf(defs, t))
  <2>1. PICK S \in SUBSET TriggerIds : o[t] \in Arrangements(S)
    BY DEF Orders
  <2>2. Cardinality(S) \in Nat
    BY IdsAssumption, FS_Subset, FS_CardinalityType DEF TriggerIds
  <2>3. PICK s, n : n \in Nat /\ s = o[t] /\ n = Cardinality(S)
    BY <2>2
  <2>4. /\ s \in [1..n -> S] /\ DOMAIN s = 1..n
        /\ \A k, m \in DOMAIN s : s[k] = s[m] => k = m
    BY <2>1, <2>3 DEF Arrangements
  <2>5. s \in Seq(TriggerIds) /\ Len(s) = n
    BY <2>3, <2>4
  <2>6. {s[k] : k \in DOMAIN s} = TriggersOf(defs, t)
    BY <2>3 DEF Ordered
  <2>7. \A i : i \in TriggersOf(defs, t) <=> \E k \in 1..n : s[k] = i
    BY <2>4, <2>6
  <2>8. QED
    BY <2>3, <2>4, <2>5, <2>7 DEF Lists
<1>3. QED
  BY <1>1, <1>2

\* Each trigger once: there are as many places as triggers.
LEMMA ListedMeans ==
  ASSUME NEW o, NEW S, Lists(o, S)
  PROVE  {o[k] : k \in DOMAIN o} = S /\ Len(o) = Cardinality(S)
<1>1. PICK n \in Nat : n = Len(o) /\ DOMAIN o = 1..n
  BY DEF Lists
<1>2. {o[k] : k \in DOMAIN o} = S
  BY <1>1 DEF Lists
<1>3. o \in Bijection(1..n, S)
  <2>1. o \in [1..n -> S] /\ \A i \in S : \E k \in 1..n : o[k] = i
    BY <1>1 DEF Lists
  <2>2. \A k, m \in 1..n : o[k] = o[m] => k = m
    BY <1>1 DEF Lists
  <2>3. QED
    BY <2>1, <2>2 DEF Bijection, Injection, Surjection, IsInjective
<1>4. Cardinality(S) = Cardinality(1..n) /\ Cardinality(1..n) = n
  <2>1. IsFiniteSet(1..n) /\ Cardinality(1..n) = IF 1 > n THEN 0 ELSE n - 1 + 1
    BY FS_Interval
  <2>2. ExistsBijection(1..n, S)
    BY <1>3 DEF ExistsBijection
  <2>3. QED
    BY <2>1, <2>2, FS_Bijection
<1>5. QED
  BY <1>1, <1>2, <1>4

DDLs == [step : {"idle", "fetch", "save", "delete"}, id : Ids \cup {None},
         def : Definitions \cup {None}, held : BOOLEAN]

\* A statement has the definition it is to save, unless it holds a job.
DDLFits(d, defs) ==
  /\ d.step = "idle" => d = NoDDL
  /\ d.step # "idle" => d.id \in Ids
  /\ d.step = "fetch" /\ d.id \in TriggerIds => d.def # None
  /\ d.step = "save" /\ ~d.held => d.def # None
  /\ d.held => d.step = "save" /\ defs[d.id] # None

CatalogTyped ==
  /\ work \in Works
  /\ mem \in [Ids -> Definitions \cup {None}]
  /\ order = [t \in Tables |-> order[t]]
  /\ \A t \in Tables : Lists(order[t], TriggersOf(mem, t))
  /\ disk \in [Keys -> (Ids \X Definitions) \cup {None}]
  /\ \A k \in Keys : disk[k] # None => Key(disk[k][1]) = k
  /\ ddl \in [Clients -> DDLs]
  /\ \A c \in Clients : DDLFits(ddl[c], mem)

LEMMA IdleFits == \A defs : NoDDL \in DDLs /\ DDLFits(NoDDL, defs)
  BY DEF NoDDL, DDLs, DDLFits

\* A trigger is no job.
LEMMA Apart ==
  /\ TriggerIds \subseteq Ids /\ JobIds \subseteq Ids
  /\ \A i \in TriggerIds : i \notin JobIds /\ i[3] \in Tables
  /\ \A defs, t, i : i \in TriggersOf(defs, t) <=> i \in TriggerIds /\ i[3] = t /\ defs[i] # None
  BY IdsAssumption DEF TriggerIds, JobIds, TriggersOf

LEMMA DdlTyped ==
  ASSUME CatalogTyped, NEW c \in Clients, NEW d \in DDLs, NextDDL(c, d), DDLFits(d, mem'),
         \A i \in Ids : mem[i] # None => mem'[i] # None
  PROVE  ddl' \in [Clients -> DDLs] /\ \A e \in Clients : DDLFits(ddl'[e], mem')
<1>1. /\ ddl' \in [Clients -> DDLs] /\ ddl'[c] = d
      /\ \A e \in Clients : e # c => ddl'[e] = ddl[e]
  BY DEF CatalogTyped, NextDDL
<1>2. ASSUME NEW e \in Clients, e # c PROVE DDLFits(ddl[e], mem')
  <2>1. DDLFits(ddl[e], mem)
    BY DEF CatalogTyped
  <2>2. QED
    BY <2>1 DEF DDLFits
<1>3. QED
  BY <1>1, <1>2

LEMMA CreateTyped ==
  ASSUME CatalogTyped, NEW c \in Clients, Create(c)
  PROVE  CatalogTyped' /\ \A i \in Ids : mem[i] # None => mem'[i] # None
<1>1. PICK m \in work.makes[c] :
        /\ mem[m[1]] = None
        /\ mem' = [mem EXCEPT ![m[1]] = m[2]]
        /\ order' = IF m[1] \in TriggerIds THEN [order EXCEPT ![m[1][3]] = Append(@, m[1])] ELSE order
        /\ NextDDL(c, [step |-> "fetch", id |-> m[1], def |-> m[2], held |-> FALSE])
        /\ UNCHANGED <<work, disk>>
  BY DEF Create
<1>2. m \in Ids \X Definitions
  BY WorksAssumption DEF CatalogTyped
<1>3. PICK i \in Ids, def \in Definitions : m = <<i, def>>
  BY <1>2
<1>4. /\ mem[i] = None /\ mem' = [mem EXCEPT ![i] = def]
      /\ order' = IF i \in TriggerIds THEN [order EXCEPT ![i[3]] = Append(@, i)] ELSE order
      /\ NextDDL(c, [step |-> "fetch", id |-> i, def |-> def, held |-> FALSE])
      /\ UNCHANGED <<work, disk>>
  BY <1>1, <1>3
<1>5. def # None
  BY NoneAssumption
<1>6. /\ mem' \in [Ids -> Definitions \cup {None}] /\ mem'[i] = def
      /\ \A l \in Ids : l # i => mem'[l] = mem[l]
  BY <1>4 DEF CatalogTyped
<1>7. \A l \in Ids : mem[l] # None => mem'[l] # None
  BY <1>4, <1>6
<1>8. TriggerIds \subseteq Ids
  BY Apart
<1>9. ddl' \in [Clients -> DDLs] /\ \A e \in Clients : DDLFits(ddl'[e], mem')
  <2>1. PICK d : d = [step |-> "fetch", id |-> i, def |-> def, held |-> FALSE]
    OBVIOUS
  <2>2. d \in DDLs /\ d.step = "fetch" /\ d.id = i /\ d.def = def /\ d.held = FALSE
    BY <2>1 DEF DDLs
  <2>3. DDLFits(d, mem')
    BY <1>5, <2>2 DEF DDLFits
  <2>4. QED
    BY <1>4, <1>7, <2>1, <2>2, <2>3, DdlTyped
<1>10. order' = [t \in Tables |-> order'[t]]
  BY <1>4 DEF CatalogTyped
<1>11. ASSUME NEW t \in Tables PROVE Lists(order'[t], TriggersOf(mem', t))
  <2>1. Lists(order[t], TriggersOf(mem, t))
    BY DEF CatalogTyped
  <2>2. CASE i \in TriggerIds /\ i[3] = t
    <3>1. order'[t] = Append(order[t], i)
      BY <1>4, <2>2 DEF CatalogTyped
    <3>2. TriggersOf(mem', t) = TriggersOf(mem, t) \cup {i} /\ i \notin TriggersOf(mem, t)
      BY <1>4, <1>5, <1>6, <1>8, <2>2 DEF TriggersOf
    <3>3. QED
      BY <2>1, <2>2, <3>1, <3>2, ListedAppend
  <2>3. CASE ~(i \in TriggerIds /\ i[3] = t)
    <3>1. order'[t] = order[t]
      BY <1>4, <2>3 DEF CatalogTyped
    <3>2. TriggersOf(mem', t) = TriggersOf(mem, t)
      BY <1>6, <1>8, <2>3 DEF TriggersOf
    <3>3. QED
      BY <2>1, <3>1, <3>2
  <2>4. QED
    BY <2>2, <2>3
<1>12. QED
  BY <1>4, <1>6, <1>7, <1>9, <1>10, <1>11 DEF CatalogTyped

LEMMA AlterTyped ==
  ASSUME CatalogTyped, NEW c \in Clients, AlterJob(c)
  PROVE  CatalogTyped' /\ \A i \in Ids : mem[i] # None => mem'[i] # None
<1>1. PICK i \in work.alters[c] :
        /\ mem[i] # None
        /\ mem' = [mem EXCEPT ![i].mark = Toggled(@)]
        /\ NextDDL(c, [step |-> "fetch", id |-> i, def |-> None, held |-> FALSE])
        /\ UNCHANGED <<work, order, disk>>
  BY DEF AlterJob
<1>2. i \in JobIds /\ i \in Ids /\ i \notin TriggerIds
  BY WorksAssumption, Apart DEF CatalogTyped
<1>3. /\ mem' \in [Ids -> Definitions \cup {None}] /\ mem'[i] # None
      /\ \A l \in Ids : l # i => mem'[l] = mem[l]
  <2>1. PICK f : f = [mem[i] EXCEPT !.mark = Toggled(mem[i].mark)]
    OBVIOUS
  <2>2. mem[i] \in Definitions
    BY <1>1, <1>2 DEF CatalogTyped
  <2>3. f \in Definitions /\ f # None
    BY <2>1, <2>2, NoneAssumption DEF Definitions, Toggled, Marks
  <2>4. mem' = [mem EXCEPT ![i] = f]
    BY <1>1, <2>1
  <2>5. QED
    BY <1>2, <2>3, <2>4 DEF CatalogTyped
<1>4. \A l \in Ids : mem[l] # None => mem'[l] # None
  BY <1>3
<1>5. ddl' \in [Clients -> DDLs] /\ \A e \in Clients : DDLFits(ddl'[e], mem')
  <2>1. PICK d : d = [step |-> "fetch", id |-> i, def |-> None, held |-> FALSE]
    OBVIOUS
  <2>2. d \in DDLs /\ d.step = "fetch" /\ d.id = i /\ d.held = FALSE
    BY <1>2, <2>1 DEF DDLs
  <2>3. DDLFits(d, mem')
    BY <1>2, <2>2 DEF DDLFits
  <2>4. QED
    BY <1>1, <1>4, <2>1, <2>2, <2>3, DdlTyped
<1>6. \A t \in Tables : TriggersOf(mem', t) = TriggersOf(mem, t)
  <2>1. TriggerIds \subseteq Ids
    BY Apart
  <2>2. QED
    BY <1>2, <1>3, <2>1 DEF TriggersOf
<1>7. QED
  BY <1>1, <1>3, <1>4, <1>5, <1>6 DEF CatalogTyped

\* What is looked up is in the catalog: a list has no trigger that is not.
LEMMA FoundIsThere ==
  ASSUME CatalogTyped, NEW i \in Ids, NEW def, NEW l \in Found(i, def)
  PROVE  l \in Ids /\ mem[l] \in Definitions
<1>1. l \in Ids /\ mem[l] # None
  <2>1. CASE i \notin TriggerIds
    BY <2>1 DEF Found
  <2>2. CASE i \in TriggerIds
    <3>1. PICK t \in Tables : t = i[3]
      BY <2>2, Apart
    <3>2. PICK o : o = order[t] /\ Lists(o, TriggersOf(mem, t))
      BY DEF CatalogTyped
    <3>3. PICK k \in DOMAIN o : l = o[k]
      BY <2>2, <3>1, <3>2 DEF Found
    <3>4. k \in 1..Len(o)
      BY <3>2, <3>3 DEF Lists
    <3>5. l \in TriggersOf(mem, t)
      BY <3>2, <3>3, <3>4 DEF Lists
    <3>6. QED
      BY <3>5, Apart
  <2>3. QED
    BY <2>1, <2>2
<1>2. QED
  BY <1>1 DEF CatalogTyped

LEMMA FetchTyped ==
  ASSUME CatalogTyped, NEW c \in Clients, Fetch(c)
  PROVE  CatalogTyped' /\ UNCHANGED mem
<1>1. ddl[c].id \in Ids
  BY DEF CatalogTyped, DDLFits, Fetch
<1>2. UNCHANGED <<work, mem, order, disk>>
  BY DEF Fetch, catalog
<1>3. CASE NextDDL(c, NoDDL)
  BY <1>2, <1>3, IdleFits, DdlTyped DEF CatalogTyped
<1>4. CASE \E i \in Found(ddl[c].id, ddl[c].def) :
             NextDDL(c, [step |-> "save", id |-> i, def |-> mem[i], held |-> i \in JobIds])
  <2>1. PICK i \in Found(ddl[c].id, ddl[c].def) :
          NextDDL(c, [step |-> "save", id |-> i, def |-> mem[i], held |-> i \in JobIds])
    BY <1>4
  <2>2. i \in Ids /\ mem[i] \in Definitions /\ mem[i] # None
    BY <1>1, FoundIsThere, NoneAssumption
  <2>3. PICK h \in BOOLEAN : h = (i \in JobIds)
    <3>1. CASE i \in JobIds
      BY <3>1, Zenon
    <3>2. CASE i \notin JobIds
      <4>1. (i \in JobIds) = FALSE
        BY <3>2
      <4>2. QED
        BY <4>1, Zenon
    <3>3. QED
      BY <3>1, <3>2
  <2>4. PICK d : d = [step |-> "save", id |-> i, def |-> mem[i], held |-> h]
    OBVIOUS
  <2>5. d \in DDLs /\ d.step = "save" /\ d.id = i /\ d.def = mem[i]
    BY <2>2, <2>3, <2>4 DEF DDLs
  <2>6. DDLFits(d, mem')
    BY <1>2, <2>2, <2>5 DEF DDLFits
  <2>7. NextDDL(c, d)
    BY <2>1, <2>3, <2>4
  <2>8. ddl' \in [Clients -> DDLs] /\ \A e \in Clients : DDLFits(ddl'[e], mem')
    BY <1>2, <2>5, <2>6, <2>7, DdlTyped
  <2>9. QED
    BY <1>2, <2>8 DEF CatalogTyped
<1>5. QED
  BY <1>2, <1>3, <1>4 DEF Fetch

LEMMA WriteTyped ==
  ASSUME CatalogTyped, NEW c \in Clients, NEW i \in Ids, NEW v,
         v = None \/ (v \in Ids \X Definitions /\ v[1] = i),
         disk' = [disk EXCEPT ![Key(i)] = v], NextDDL(c, NoDDL), UNCHANGED <<work, mem, order>>
  PROVE  CatalogTyped'
<1>1. ddl' \in [Clients -> DDLs] /\ \A e \in Clients : DDLFits(ddl'[e], mem')
  BY IdleFits, DdlTyped
<1>2. /\ disk' \in [Keys -> (Ids \X Definitions) \cup {None}]
      /\ \A k \in Keys : disk'[k] = IF k = Key(i) THEN v ELSE disk[k]
  BY DEF CatalogTyped
<1>3. \A k \in Keys : disk'[k] # None => Key(disk'[k][1]) = k
  BY <1>2 DEF CatalogTyped
<1>4. QED
  BY <1>1, <1>2, <1>3 DEF CatalogTyped

LEMMA SaveTyped ==
  ASSUME CatalogTyped, NEW c \in Clients, Save(c)
  PROVE  CatalogTyped' /\ UNCHANGED mem
<1>1. PICK i, f : i = ddl[c].id /\ f = IF ddl[c].held THEN mem[ddl[c].id] ELSE ddl[c].def
  OBVIOUS
<1>2. DDLFits(ddl[c], mem) /\ ddl[c] \in DDLs /\ ddl[c].step = "save"
  BY DEF CatalogTyped, Save
<1>3. i \in Ids /\ f # None
  BY <1>1, <1>2 DEF DDLFits
<1>4. f \in Definitions
  BY <1>1, <1>2, <1>3 DEF DDLs, CatalogTyped
<1>5. PICK v : v = <<i, f>>
  OBVIOUS
<1>6. /\ disk' = IF Encodable(f) THEN [disk EXCEPT ![Key(i)] = v] ELSE disk
      /\ NextDDL(c, NoDDL) /\ UNCHANGED <<work, mem, order>>
  BY <1>1, <1>5 DEF Save, catalog
<1>7. v \in Ids \X Definitions /\ v[1] = i
  BY <1>3, <1>4, <1>5
<1>8. CASE Encodable(f)
  BY <1>3, <1>6, <1>7, <1>8, WriteTyped
<1>9. CASE ~Encodable(f)
  <2>1. ddl' \in [Clients -> DDLs] /\ \A e \in Clients : DDLFits(ddl'[e], mem')
    BY <1>6, IdleFits, DdlTyped
  <2>2. QED
    BY <1>6, <1>9, <2>1 DEF CatalogTyped
<1>10. QED
  BY <1>6, <1>8, <1>9

LEMMA DeleteTyped ==
  ASSUME CatalogTyped, NEW c \in Clients, Delete(c)
  PROVE  CatalogTyped' /\ UNCHANGED mem
<1>1. ddl[c].id \in Ids
  BY DEF CatalogTyped, DDLFits, Delete
<1>2. /\ disk' = [disk EXCEPT ![Key(ddl[c].id)] = None] /\ NextDDL(c, NoDDL)
      /\ UNCHANGED <<work, mem, order>>
  BY DEF Delete, catalog
<1>3. QED
  BY <1>1, <1>2, WriteTyped

\* Whoever holds a job that is dropped keeps its definition.
LEMMA DropTyped ==
  ASSUME CatalogTyped, NEW c \in Clients, Drop(c)
  PROVE  CatalogTyped'
<1>1. PICK i \in work.drops[c] :
        /\ mem[i] # None
        /\ mem' = [mem EXCEPT ![i] = None]
        /\ IF i \in TriggerIds
           THEN \E k \in DOMAIN order[i[3]] :
                  order[i[3]][k] = i /\ order' = [order EXCEPT ![i[3]] = RemoveAt(@, k)]
           ELSE UNCHANGED order
        /\ ddl' = [d \in Clients |->
                 IF d = c THEN [step |-> "delete", id |-> i, def |-> None, held |-> FALSE]
                          ELSE LetGo(ddl[d], i)]
        /\ UNCHANGED <<work, disk>>
  BY Zenon DEF Drop
<1>2. i \in Ids /\ mem[i] \in Definitions /\ TriggerIds \subseteq Ids
  BY <1>1, WorksAssumption, Apart DEF CatalogTyped
<1>3. /\ mem' \in [Ids -> Definitions \cup {None}] /\ mem'[i] = None
      /\ \A l \in Ids : l # i => mem'[l] = mem[l]
  BY <1>1, <1>2 DEF CatalogTyped
<1>4. ASSUME NEW d \in DDLs, DDLFits(d, mem)
      PROVE  LetGo(d, i) \in DDLs /\ DDLFits(LetGo(d, i), mem')
  <2>1. CASE d.id = i /\ d.held
    <3>1. PICK e : e = [d EXCEPT !.def = mem[i], !.held = FALSE]
      OBVIOUS
    <3>2. e \in DDLs /\ e.step = d.step /\ e.id = i /\ e.def = mem[i] /\ e.held = FALSE
      BY <1>2, <1>4, <2>1, <3>1 DEF DDLs
    <3>3. d.step = "save"
      BY <1>4, <2>1 DEF DDLFits
    <3>4. DDLFits(e, mem')
      BY <1>1, <1>2, <3>2, <3>3 DEF DDLFits
    <3>5. LetGo(d, i) = e
      BY <2>1, <3>1 DEF LetGo
    <3>6. QED
      BY <3>2, <3>4, <3>5
  <2>2. CASE ~(d.id = i /\ d.held)
    <3>1. LetGo(d, i) = d
      BY <2>2 DEF LetGo
    <3>2. DDLFits(d, mem')
      BY <1>3, <1>4, <2>2 DEF DDLFits
    <3>3. QED
      BY <1>4, <3>1, <3>2
  <2>3. QED
    BY <2>1, <2>2
<1>5. ddl' \in [Clients -> DDLs] /\ \A e \in Clients : DDLFits(ddl'[e], mem')
  <2>1. PICK d : d = [step |-> "delete", id |-> i, def |-> None, held |-> FALSE]
    OBVIOUS
  <2>2. d \in DDLs /\ d.step = "delete" /\ d.id = i /\ d.held = FALSE
    BY <1>2, <2>1 DEF DDLs
  <2>3. DDLFits(d, mem')
    BY <1>2, <2>2 DEF DDLFits
  <2>4. ddl' = [e \in Clients |-> IF e = c THEN d ELSE LetGo(ddl[e], i)]
    BY <1>1, <2>1
  <2>5. \A e \in Clients : ddl[e] \in DDLs /\ DDLFits(ddl[e], mem)
    BY DEF CatalogTyped
  <2>6. QED
    BY <1>4, <2>2, <2>3, <2>4, <2>5
<1>6. ASSUME NEW t \in Tables, ~(i \in TriggerIds /\ i[3] = t)
      PROVE  TriggersOf(mem', t) = TriggersOf(mem, t)
  BY <1>2, <1>3, <1>6 DEF TriggersOf
<1>7. /\ order' = [t \in Tables |-> order'[t]]
      /\ \A t \in Tables : Lists(order'[t], TriggersOf(mem', t))
  <2>1. CASE i \notin TriggerIds
    BY <1>1, <1>6, <2>1 DEF CatalogTyped
  <2>2. CASE i \in TriggerIds
    <3>1. PICK t \in Tables : t = i[3]
      BY <2>2, Apart
    <3>2. PICK o : o = order[t] /\ Lists(o, TriggersOf(mem, t))
      BY DEF CatalogTyped
    <3>3. PICK k \in DOMAIN o : o[k] = i /\ order' = [order EXCEPT ![t] = RemoveAt(o, k)]
      BY <1>1, <2>2, <3>1, <3>2
    <3>4. k \in 1..Len(o)
      BY <3>2, <3>3 DEF Lists
    <3>5. Lists(RemoveAt(o, k), TriggersOf(mem, t) \ {i})
      BY <3>2, <3>3, <3>4, ListedRemove
    <3>6. TriggersOf(mem', t) = TriggersOf(mem, t) \ {i}
      BY <1>2, <1>3 DEF TriggersOf
    <3>7. PICK n : n = RemoveAt(o, k)
      OBVIOUS
    <3>8. /\ order' = [u \in Tables |-> order'[u]]
          /\ order'[t] = n /\ \A u \in Tables : u # t => order'[u] = order[u]
      BY <3>3, <3>7 DEF CatalogTyped
    <3>9. ASSUME NEW u \in Tables PROVE Lists(order'[u], TriggersOf(mem', u))
      <4>1. CASE u = t
        BY <3>5, <3>6, <3>7, <3>8, <4>1
      <4>2. CASE u # t
        BY <1>6, <3>1, <3>8, <4>2 DEF CatalogTyped
      <4>3. QED
        BY <4>1, <4>2
    <3>10. QED
      BY <3>8, <3>9
  <2>3. QED
    BY <2>1, <2>2
<1>8. QED
  BY <1>1, <1>3, <1>5, <1>7 DEF CatalogTyped

LEMMA RestartTyped ==
  ASSUME CatalogTyped, Restart
  PROVE  CatalogTyped'
<1>1. /\ mem' = [i \in Ids |-> Loaded(i)] /\ work' = work /\ disk' = disk
      /\ ddl' = [c \in Clients |-> NoDDL]
      /\ order' \in Orders /\ Ordered(order', mem')
  BY DEF Restart
<1>2. \A i \in Ids : Loaded(i) \in Definitions \cup {None}
  <2>1. \A i \in Ids : Key(i) \in Keys
    BY DEF Keys
  <2>2. QED
    BY <2>1 DEF Loaded, CatalogTyped
<1>3. mem' \in [Ids -> Definitions \cup {None}]
  BY <1>1, <1>2
<1>4. /\ order' = [t \in Tables |-> order'[t]]
      /\ \A t \in Tables : Lists(order'[t], TriggersOf(mem', t))
  BY <1>1, ListedOrders
<1>5. ddl' \in [Clients -> DDLs] /\ \A e \in Clients : DDLFits(ddl'[e], mem')
  BY <1>1, IdleFits
<1>6. QED
  BY <1>1, <1>3, <1>4, <1>5 DEF CatalogTyped

LEMMA InitTyped == Init => CatalogTyped
<1> SUFFICES ASSUME Init PROVE CatalogTyped
  OBVIOUS
<1>1. work \in Works /\ mem = work.start /\ ddl = [c \in Clients |-> NoDDL]
  BY DEF Init
<1>2. mem \in [Ids -> Definitions \cup {None}]
  BY <1>1, WorksAssumption
<1>3. disk = [k \in Keys |-> IF Holder(k) = {} THEN None
                            ELSE LET i == CHOOSE i \in Holder(k) : TRUE
                                 IN  <<i, work.start[i]>>]
  BY DEF Init
<1>4. ASSUME NEW k \in Keys
      PROVE  \/ disk[k] = None
             \/ disk[k] \in Ids \X Definitions /\ Key(disk[k][1]) = k
  <2>1. CASE Holder(k) # {}
    <3>1. PICK l : l = CHOOSE i \in Holder(k) : TRUE
      OBVIOUS
    <3>2. l \in Holder(k) /\ disk[k] = <<l, mem[l]>>
      BY <1>1, <1>3, <2>1, <3>1
    <3>3. l \in Ids /\ Key(l) = k /\ mem[l] # None
      BY <1>1, <3>2 DEF Holder
    <3>4. QED
      BY <1>2, <3>2, <3>3
  <2>2. CASE Holder(k) = {}
    BY <1>3, <2>2
  <2>3. QED
    BY <2>1, <2>2
<1>5. /\ disk \in [Keys -> (Ids \X Definitions) \cup {None}]
      /\ \A k \in Keys : disk[k] # None => Key(disk[k][1]) = k
  BY <1>3, <1>4
<1>6. /\ order = [t \in Tables |-> order[t]]
      /\ \A t \in Tables : Lists(order[t], TriggersOf(mem, t))
  <2>1. order \in Orders /\ Ordered(order, mem)
    BY DEF Init
  <2>2. QED
    BY <2>1, ListedOrders
<1>7. ddl \in [Clients -> DDLs] /\ \A c \in Clients : DDLFits(ddl[c], mem)
  BY <1>1, IdleFits
<1>8. QED
  BY <1>1, <1>2, <1>5, <1>6, <1>7 DEF CatalogTyped

\* Only DDL and a restart touch the catalog.
LEMMA NextTyped == CatalogTyped /\ [Next]_vars => CatalogTyped'
<1> SUFFICES ASSUME CatalogTyped, [Next]_vars PROVE CatalogTyped'
  OBVIOUS
<1>1. ASSUME NEW c \in Clients, DDL(c) PROVE CatalogTyped'
  BY <1>1, CreateTyped, AlterTyped, FetchTyped, SaveTyped, DropTyped, DeleteTyped DEF DDL
<1>2. CASE Restart
  BY <1>2, RestartTyped
<1>3. ASSUME ~\E c \in Clients : DDL(c), ~Restart PROVE UNCHANGED <<work, mem, order, disk, ddl>>
  BY <1>3 DEF Next, vars, Run, Step, Execute,
         Return, EnterTriggers, GetTriggers, LeaveTriggers, LeftTriggers, InsertRow, BreakOff,
         Persist, Minute, Snapshot, StartJob, catalog
<1>4. CASE UNCHANGED <<work, mem, order, disk, ddl>>
  BY <1>4 DEF CatalogTyped
<1>5. QED
  BY <1>1, <1>2, <1>3, <1>4

----------------------------------------------------------------------------
(* The types of stacks and times                                           *)

StackTyped ==
  /\ stack \in [Threads -> Seq(Frames)]
  /\ failed \subseteq Threads /\ reg \in [Threads -> Int] /\ depth \in Int
  /\ unsaved \subseteq Tables

\* What a frame's kind says of it.
LEMMA KindOfFrame ==
  ASSUME NEW f \in Frames
  PROVE  /\ f.kind = "insert" => f \in InsertFrames
         /\ f.kind = "trigger" => f \in TriggerFrames
         /\ f.kind = "body" => f \in BodyFrames
         /\ f.todo \in Seq(Statements)
<1>1. << >> \in Seq(Statements)
  OBVIOUS
<1>2. CASE f \in BodyFrames
  <2>1. f.kind = "body" /\ f.todo \in Seq(Statements)
    BY <1>2 DEF BodyFrames
  <2>2. QED
    BY <1>2, <2>1
<1>3. CASE f \in InsertFrames
  <2>1. f.kind = "insert" /\ f.todo = << >>
    BY <1>3 DEF InsertFrames
  <2>2. QED
    BY <1>1, <1>3, <2>1
<1>4. CASE f \in TriggerFrames
  <2>1. f.kind = "trigger" /\ f.todo \in Seq(Statements)
    BY <1>4 DEF TriggerFrames
  <2>2. QED
    BY <1>4, <2>1
<1>5. QED
  BY <1>2, <1>3, <1>4 DEF Frames

\* A frame in another phase or with less to do.
LEMMA TypedChange ==
  /\ \A f \in BodyFrames, s \in Seq(Statements) : [f EXCEPT !.todo = s] \in BodyFrames
  /\ \A f \in TriggerFrames, s \in Seq(Statements) : [f EXCEPT !.todo = s] \in TriggerFrames
  /\ \A f \in TriggerFrames, x \in {"entering", "in", "leaving"} :
       [f EXCEPT !.phase = x] \in TriggerFrames
  /\ \A f \in InsertFrames, x \in {"before", "row", "after", "persist"} :
       [f EXCEPT !.phase = x] \in InsertFrames
  /\ \A f \in InsertFrames, n \in 0..2 : [f EXCEPT !.rows = n] \in InsertFrames
  /\ \A f \in InsertFrames : [f EXCEPT !.wrote = TRUE] \in InsertFrames
<1>1. \A f \in BodyFrames, s \in Seq(Statements) : [f EXCEPT !.todo = s] \in BodyFrames
  BY DEF BodyFrames
<1>2. \A f \in TriggerFrames, s \in Seq(Statements) : [f EXCEPT !.todo = s] \in TriggerFrames
  BY DEF TriggerFrames
<1>3. \A f \in TriggerFrames, x \in {"entering", "in", "leaving"} :
        [f EXCEPT !.phase = x] \in TriggerFrames
  BY DEF TriggerFrames
<1>4. \A f \in InsertFrames, x \in {"before", "row", "after", "persist"} :
        [f EXCEPT !.phase = x] \in InsertFrames
  BY DEF InsertFrames
<1>5. \A f \in InsertFrames, n \in 0..2 : [f EXCEPT !.rows = n] \in InsertFrames
  BY DEF InsertFrames
<1>6. \A f \in InsertFrames : [f EXCEPT !.wrote = TRUE] \in InsertFrames
  BY DEF InsertFrames
<1>7. QED
  BY <1>1, <1>2, <1>3, <1>4, <1>5, <1>6

LEMMA TypedStack ==
  ASSUME NEW s \in Seq(Frames)
  PROVE  /\ \A f \in Frames : <<f>> \o s \in Seq(Frames)
         /\ s # << >> => Head(s) \in Frames /\ Tail(s) \in Seq(Frames)
<1>1. \A f \in Frames : <<f>> \in Seq(Frames)
  OBVIOUS
<1>2. \A f \in Frames : <<f>> \o s \in Seq(Frames)
  BY <1>1
<1>3. s # << >> => Head(s) \in Frames /\ Tail(s) \in Seq(Frames)
  OBVIOUS
<1>4. QED
  BY <1>2, <1>3

LEMMA TypedBody ==
  ASSUME NEW of \in Ids \cup {None}, NEW todo \in Seq(Statements)
  PROVE  BodyOf(of, todo) \in BodyFrames /\ BodyOf(of, todo) \in Frames
  BY DEF BodyOf, Frame, BodyFrames, Frames

LEMMA TypedInsert ==
  ASSUME NEW s \in Statements, s.do = "insert"
  PROVE  Frame("insert", << >>, s.on, "before", s.rows, s.bare) \in Frames
<1>1. s.on \in Tables /\ s.rows \in 0..2 /\ s.bare \in BOOLEAN
  BY DEF Statements
<1>2. QED
  BY <1>1 DEF Frame, InsertFrames, Frames

\* The bodies of a table's triggers are statements.
LEMMA TypedFired ==
  ASSUME CatalogTyped, NEW t \in Tables, NEW mark, NEW bare
  PROVE  Fired(t, mark, bare) \in Seq(Statements)
<1>1. PICK o, n : o = order[t] /\ n = Len(o)
  OBVIOUS
<1>2. n \in Nat /\ \A k \in 1..n : o[k] \in Ids /\ mem[o[k]] \in Definitions
  <2>1. Lists(o, TriggersOf(mem, t))
    BY <1>1 DEF CatalogTyped
  <2>2. n \in Nat /\ \A k \in 1..n : o[k] \in TriggersOf(mem, t)
    BY <1>1, <2>1 DEF Lists
  <2>3. \A i \in TriggersOf(mem, t) : i \in Ids /\ mem[i] # None
    BY DEF TriggersOf, TriggerIds
  <2>4. QED
    BY <2>2, <2>3 DEF CatalogTyped
<1> DEFINE Text(k) == IF mem[o[k]].mark = mark THEN mem[o[k]].body ELSE << >>
           Is(b) == b = [k \in 0..n |-> IF k = 0 THEN << >> ELSE b[k - 1] \o Text(k)]
           F == CHOOSE b : Is(b)
           G == [x \in (1..n) \X Seq(Statements) |-> x[2] \o Text(x[1])]
<1>3. \A k \in 1..n : Text(k) \in Seq(Statements)
  BY <1>2 DEF Definitions
<1>4. << >> \in Seq(Statements)
  OBVIOUS
<1>5. Fired(t, mark, bare) = IF bare THEN F[n] ELSE << >>
  BY <1>1 DEF Fired
<1> HIDE DEF Text
<1>6. G \in [(1..n) \X Seq(Statements) -> Seq(Statements)]
  <2>1. \A k \in 1..n, s \in Seq(Statements) : s \o Text(k) \in Seq(Statements)
    BY <1>3, ConcatProperties
  <2>2. QED
    BY <2>1
<1>7. PICK b \in [0..n -> Seq(Statements)] :
        b[0] = << >> /\ \A k \in 1..n : b[k] = b[k - 1] \o Text(k)
  <2>1. PICK b \in [0..n -> Seq(Statements)] : b[0] = << >> /\ \A k \in 1..n : b[k] = G[<<k, b[k - 1]>>]
    <3> HIDE DEF G
    <3>1. \E b \in [0..n -> Seq(Statements)] : Recurs(b, n, << >>, G)
      BY <1>2, <1>4, <1>6, Recursion, Zenon
    <3>2. QED
      BY <3>1, Zenon DEF Recurs
  <2>2. ASSUME NEW k \in 1..n PROVE b[k] = b[k - 1] \o Text(k)
    <3>1. <<k, b[k - 1]>> \in (1..n) \X Seq(Statements)
      BY <1>2
    <3>2. QED
      BY <2>1, <3>1
  <2>3. QED
    BY <2>1, <2>2
<1>8. Is(b)
  <2>1. ASSUME NEW k \in 0..n PROVE b[k] = IF k = 0 THEN << >> ELSE b[k - 1] \o Text(k)
    <3>1. CASE k = 0
      BY <1>7, <3>1
    <3>2. CASE k # 0
      <4>1. k \in 1..n
        BY <1>2, <3>2
      <4>2. QED
        BY <1>7, <3>2, <4>1
    <3>3. QED
      BY <3>1, <3>2
  <2>2. b = [k \in 0..n |-> b[k]]
    OBVIOUS
  <2>3. b = [k \in 0..n |-> IF k = 0 THEN << >> ELSE b[k - 1] \o Text(k)]
    BY <2>1, <2>2, Zenon
  <2>4. QED
    BY <2>3
<1> HIDE DEF Is
<1>9. Is(F)
  BY <1>8
<1> HIDE DEF F
<1>10. PICK f : f = F /\ Is(f)
  BY <1>9
<1>11. \A k \in 0..n : f[k] = IF k = 0 THEN << >> ELSE f[k - 1] \o Text(k)
  BY <1>10 DEF Is
<1> DEFINE T == {k \in Nat : k <= n => f[k] \in Seq(Statements)}
<1>12. 0 \in T
  <2>1. 0 \in 0..n
    BY <1>2
  <2>2. f[0] = << >>
    BY <1>11, <2>1
  <2>3. QED
    BY <1>4, <2>2
<1>13. ASSUME NEW k \in Nat, k \in T PROVE k + 1 \in T
  <2> SUFFICES ASSUME k + 1 <= n PROVE f[k + 1] \in Seq(Statements)
    OBVIOUS
  <2>1. k + 1 \in 1..n /\ k + 1 \in 0..n /\ k + 1 # 0 /\ (k + 1) - 1 = k /\ k <= n
    BY <1>2
  <2>2. f[k] \in Seq(Statements)
    BY <1>13, <2>1
  <2>3. f[k + 1] = f[k] \o Text(k + 1)
    BY <1>11, <2>1
  <2>4. QED
    BY <1>3, <2>1, <2>2, <2>3, ConcatProperties
<1> HIDE DEF T
<1>14. n \in T
  BY <1>2, <1>12, <1>13, Induction
<1>15. F[n] \in Seq(Statements)
  BY <1>2, <1>10, <1>14 DEF T
<1>16. QED
  BY <1>4, <1>5, <1>15

LEMMA TypedStep ==
  ASSUME StackTyped, NEW c \in Threads, NEW st \in Seq(Frames), Stack(c, st)
  PROVE  stack' \in [Threads -> Seq(Frames)]
  BY DEF StackTyped, Stack

\* The INSERT under an executeTriggers.
LEMMA InsertUnder ==
  ASSUME StackTyped, RowsInv, NEW c \in Threads, stack[c] # << >>, Top(c).kind = "trigger"
  PROVE  stack[c][2] \in InsertFrames /\ Under(c) # << >>
<1>1. PICK s \in Seq(Frames) : s = stack[c]
  BY DEF StackTyped
<1>2. WellFormed(s) /\ s # << >>
  BY <1>1 DEF RowsInv
<1>3. s[1].kind = "trigger" /\ 1 \in 1..Len(s)
  BY <1>1, <1>2 DEF Top
<1>4. 1 + 1 \in 1..Len(s) /\ s[1 + 1].kind = "insert"
  BY <1>2, <1>3 DEF WellFormed, TriggersOverInserts
<1>5. s[2] \in Frames /\ s[2].kind = "insert"
  BY <1>4
<1>6. Tail(s) # << >>
  <2>1. PICK u : u = Tail(s)
    OBVIOUS
  <2>2. Len(u) = Len(s) - 1 /\ Len(s) \in Nat /\ Len(s) # 1
    BY <1>2, <1>4, <2>1
  <2>3. Len(u) # 0
    BY <2>2
  <2>4. QED
    BY <2>1, <2>3, EmptySequence
<1>7. QED
  BY <1>1, <1>5, <1>6, KindOfFrame DEF Under

LEMMA TypedAfter ==
  ASSUME NEW f \in InsertFrames
  PROVE  AfterTriggers(f) \in InsertFrames
<1>1. /\ \A x \in {"before", "row", "after", "persist"} : [f EXCEPT !.phase = x] \in InsertFrames
  BY TypedChange
<1>2. ASSUME f.rows > 1 PROVE [f EXCEPT !.phase = "before", !.rows = @ - 1] \in InsertFrames
  <2>1. PICK g : g = [f EXCEPT !.phase = "before"]
    OBVIOUS
  <2>2. g \in InsertFrames /\ f.rows - 1 \in 0..2
    BY <1>1, <1>2, <2>1 DEF InsertFrames
  <2>3. [g EXCEPT !.rows = f.rows - 1] \in InsertFrames
    BY <2>2, TypedChange
  <2>4. [f EXCEPT !.phase = "before", !.rows = @ - 1] = [g EXCEPT !.rows = f.rows - 1]
    BY <2>1
  <2>5. QED
    BY <2>3, <2>4
<1>3. QED
  BY <1>1, <1>2 DEF AfterTriggers

\* What a step of a thread finds on its stack.
LEMMA TypedTop ==
  ASSUME StackTyped, NEW c \in Threads, stack[c] # << >>
  PROVE  /\ Top(c) \in Frames /\ Under(c) \in Seq(Frames)
         /\ \A f \in Frames : <<f>> \o Under(c) \in Seq(Frames) /\ <<f>> \o stack[c] \in Seq(Frames)
<1>1. stack[c] \in Seq(Frames)
  BY DEF StackTyped
<1>2. Top(c) \in Frames /\ Under(c) \in Seq(Frames)
  BY <1>1, TypedStack DEF Top, Under
<1>3. QED
  BY <1>1, <1>2, TypedStack

LEMMA ExecuteTyped ==
  ASSUME CatalogTyped, StackTyped, NEW c \in Threads, Execute(c)
  PROVE  StackTyped'
<1> DEFINE rest == <<[Top(c) EXCEPT !.todo = Tail(@)]>> \o Under(c)
<1>1. PICK s : s = Head(Top(c).todo)
  OBVIOUS
<1>2. /\ stack[c] # << >> /\ (Top(c).kind = "body" \/ Top(c).kind = "trigger")
      /\ Top(c).todo # << >>
  BY DEF Execute, OnTop
<1>3. Top(c) \in Frames /\ Top(c).todo \in Seq(Statements)
  BY <1>2, TypedTop, KindOfFrame
<1>4. s \in Statements /\ Tail(Top(c).todo) \in Seq(Statements)
  BY <1>1, <1>2, <1>3
<1>5. [Top(c) EXCEPT !.todo = Tail(@)] \in Frames
  BY <1>2, <1>3, <1>4, KindOfFrame, TypedChange DEF Frames
<1>6. rest \in Seq(Frames)
  BY <1>2, <1>5, TypedTop
<1>7. UNCHANGED <<reg, depth, unsaved>> /\ failed' \subseteq Threads
  BY DEF Execute, Fail, StackTyped
<1>8. PICK r \in Seq(Frames) : r = rest
  BY <1>6
<1>9. \/ UNCHANGED stack
      \/ s.do = "insert" /\ Stack(c, <<Frame("insert", << >>, s.on, "before", s.rows, s.bare)>> \o r)
      \/ s.do = "call" /\ mem[s.on] # None /\ Stack(c, <<BodyOf(s.on, mem[s.on].body)>> \o r)
      \/ Stack(c, r)
  BY <1>1, <1>8 DEF Execute
<1> HIDE DEF rest
<1>10. CASE UNCHANGED stack
  BY <1>7, <1>10 DEF StackTyped
<1>11. ASSUME NEW f \in Frames, Stack(c, <<f>> \o r) PROVE StackTyped'
  <2>1. <<f>> \o r \in Seq(Frames)
    BY TypedStack
  <2>2. QED
    BY <1>7, <1>11, <2>1, TypedStep DEF StackTyped
<1>12. CASE s.do = "insert" /\ Stack(c, <<Frame("insert", << >>, s.on, "before", s.rows, s.bare)>> \o r)
  BY <1>4, <1>11, <1>12, TypedInsert
<1>13. CASE s.do = "call" /\ mem[s.on] # None /\ Stack(c, <<BodyOf(s.on, mem[s.on].body)>> \o r)
  <2>1. s.on \in Ids
    BY <1>4, <1>13 DEF Statements
  <2>2. mem[s.on].body \in Seq(Statements)
    BY <1>13, <2>1 DEF CatalogTyped, Definitions
  <2>3. QED
    BY <1>11, <1>13, <2>1, <2>2, TypedBody
<1>14. CASE Stack(c, r)
  BY <1>7, <1>14, TypedStep DEF StackTyped
<1>15. QED
  BY <1>9, <1>10, <1>12, <1>13, <1>14

LEMMA ThreadTyped ==
  ASSUME CatalogTyped, StackTyped, RowsInv, NEW c \in Threads, Step(c)
  PROVE  StackTyped'
<1>1. stack[c] # << >>
  BY DEF Step, Execute, Return, EnterTriggers, GetTriggers, LeaveTriggers, LeftTriggers,
         InsertRow, BreakOff, Persist, OnTop
<1>2. /\ Top(c) \in Frames /\ Under(c) \in Seq(Frames)
      /\ \A f \in Frames : <<f>> \o Under(c) \in Seq(Frames) /\ <<f>> \o stack[c] \in Seq(Frames)
  BY <1>1, TypedTop
<1>3. /\ InsertFrames \subseteq Frames /\ TriggerFrames \subseteq Frames
      /\ Top(c).kind = "insert" => Top(c) \in InsertFrames /\ Top(c).of \in Tables
      /\ Top(c).kind = "trigger" => Top(c) \in TriggerFrames
  <2>1. /\ Top(c).kind = "insert" => Top(c) \in InsertFrames
        /\ Top(c).kind = "trigger" => Top(c) \in TriggerFrames
    BY <1>2, KindOfFrame
  <2>2. \A f \in InsertFrames : f.of \in Tables
    BY DEF InsertFrames
  <2>3. QED
    BY <2>1, <2>2 DEF Frames
<1>4. CASE Execute(c)
  BY <1>4, ExecuteTyped
<1>5. CASE Return(c)
  <2>1. Stack(c, Under(c)) /\ failed' \subseteq Threads /\ UNCHANGED <<reg, depth, unsaved>>
    BY <1>5 DEF Return, StackTyped
  <2>2. QED
    BY <1>2, <2>1, TypedStep DEF StackTyped
<1>6. CASE EnterTriggers(c)
  <2>1. PICK f : f = Frame("trigger", << >>, Top(c).of, "entering", 0, Top(c).bare)
    OBVIOUS
  <2>2. Top(c).kind = "insert"
    BY <1>6 DEF EnterTriggers, OnTop
  <2>3. Top(c).of \in Tables /\ Top(c).bare \in BOOLEAN
    BY <1>3, <2>2 DEF InsertFrames
  <2>4. f \in TriggerFrames
    BY <2>1, <2>3 DEF Frame, TriggerFrames
  <2>5. UNCHANGED <<depth, unsaved>> /\ failed' \subseteq Threads
    BY <1>6 DEF EnterTriggers, Fail, StackTyped
  <2>6. CASE UNCHANGED <<stack, reg>>
    BY <2>5, <2>6 DEF StackTyped
  <2>7. CASE Push(c, f) /\ reg' = [reg EXCEPT ![c] = depth]
    <3>1. Stack(c, <<f>> \o stack[c]) /\ <<f>> \o stack[c] \in Seq(Frames)
      BY <1>2, <1>3, <2>4, <2>7 DEF Push
    <3>2. stack' \in [Threads -> Seq(Frames)]
      BY <3>1, TypedStep
    <3>3. reg' \in [Threads -> Int]
      BY <2>7 DEF StackTyped
    <3>4. QED
      BY <2>5, <3>2, <3>3 DEF StackTyped
  <2>8. QED
    BY <1>6, <2>1, <2>6, <2>7 DEF EnterTriggers
<1>7. CASE GetTriggers(c)
  <2>1. Top(c).kind = "trigger"
    BY <1>7 DEF GetTriggers, OnTop
  <2>2. PICK insert : insert = stack[c][2]
    OBVIOUS
  <2>3. insert \in InsertFrames /\ insert.of \in Tables
    BY <1>1, <2>1, <2>2, InsertUnder DEF InsertFrames
  <2>4. PICK todo : todo = Fired(insert.of, insert.phase, insert.bare)
    OBVIOUS
  <2>5. todo \in Seq(Statements)
    BY <2>3, <2>4, TypedFired
  <2>6. /\ Stack(c, <<[Top(c) EXCEPT !.phase = "in", !.todo = todo]>> \o Under(c))
        /\ depth' = reg[c] + 1 /\ UNCHANGED <<failed, reg, unsaved>>
    BY <1>7, <2>2, <2>4 DEF GetTriggers
  <2>7. [Top(c) EXCEPT !.phase = "in", !.todo = todo] \in TriggerFrames
    <3>1. PICK g : g = [Top(c) EXCEPT !.phase = "in"]
      OBVIOUS
    <3>2. g \in TriggerFrames
      BY <1>3, <2>1, <3>1, TypedChange
    <3>3. [Top(c) EXCEPT !.phase = "in", !.todo = todo] = [g EXCEPT !.todo = todo]
      BY <3>1
    <3>4. QED
      BY <2>5, <3>2, <3>3, TypedChange
  <2>8. stack' \in [Threads -> Seq(Frames)]
    BY <1>2, <1>3, <2>6, <2>7, TypedStep
  <2>9. depth' \in Int
    BY <2>6 DEF StackTyped
  <2>10. QED
    BY <2>6, <2>8, <2>9 DEF StackTyped
<1>8. CASE LeaveTriggers(c)
  <2>1. Top(c) \in TriggerFrames
    BY <1>3, <1>8 DEF LeaveTriggers, OnTop
  <2>2. [Top(c) EXCEPT !.phase = "leaving"] \in Frames
    BY <1>3, <2>1, TypedChange
  <2>3. /\ Stack(c, <<[Top(c) EXCEPT !.phase = "leaving"]>> \o Under(c))
        /\ reg' = [reg EXCEPT ![c] = depth] /\ UNCHANGED <<failed, depth, unsaved>>
    BY <1>8 DEF LeaveTriggers, ToPhase
  <2>4. stack' \in [Threads -> Seq(Frames)]
    BY <1>2, <2>2, <2>3, TypedStep
  <2>5. reg' \in [Threads -> Int]
    BY <2>3 DEF StackTyped
  <2>6. QED
    BY <2>3, <2>4, <2>5 DEF StackTyped
<1>9. CASE LeftTriggers(c)
  <2>1. Top(c).kind = "trigger"
    BY <1>9 DEF LeftTriggers, OnTop
  <2>2. PICK insert : insert = stack[c][2]
    OBVIOUS
  <2>3. insert \in InsertFrames /\ AfterTriggers(insert) \in InsertFrames
    BY <1>1, <2>1, <2>2, InsertUnder, TypedAfter
  <2>4. PICK g : g = IF c \in failed THEN insert ELSE AfterTriggers(insert)
    OBVIOUS
  <2>5. g \in Frames
    BY <1>3, <2>3, <2>4
  <2>6. /\ Stack(c, <<g>> \o Tail(Under(c))) /\ depth' = reg[c] - 1
        /\ UNCHANGED <<failed, reg, unsaved>>
    BY <1>9, <2>2, <2>4 DEF LeftTriggers
  <2>7. Tail(Under(c)) \in Seq(Frames)
    BY <1>1, <1>2, <2>1, InsertUnder, TypedStack
  <2>8. stack' \in [Threads -> Seq(Frames)]
    BY <2>5, <2>6, <2>7, TypedStack, TypedStep
  <2>9. depth' \in Int
    BY <2>6 DEF StackTyped
  <2>10. QED
    BY <2>6, <2>8, <2>9 DEF StackTyped
<1>10. CASE InsertRow(c)
  <2>1. Top(c) \in InsertFrames /\ Top(c).of \in Tables
    BY <1>3, <1>10 DEF InsertRow, OnTop
  <2>2. UNCHANGED <<reg, depth>> /\ failed' \subseteq Threads
    BY <1>10 DEF InsertRow, Fail, StackTyped
  <2>3. CASE UNCHANGED <<stack, unsaved>>
    BY <2>2, <2>3 DEF StackTyped
  <2>4. CASE /\ unsaved' = unsaved \cup {Top(c).of}
             /\ Stack(c, <<[Top(c) EXCEPT !.phase = "after", !.wrote = TRUE]>> \o Under(c))
    <3>1. PICK g : g = [Top(c) EXCEPT !.phase = "after"]
      OBVIOUS
    <3>2. g \in InsertFrames
      BY <2>1, <3>1, TypedChange
    <3>3. [Top(c) EXCEPT !.phase = "after", !.wrote = TRUE] = [g EXCEPT !.wrote = TRUE]
      BY <3>1
    <3>4. [g EXCEPT !.wrote = TRUE] \in Frames
      BY <1>3, <3>2, TypedChange
    <3>5. stack' \in [Threads -> Seq(Frames)]
      BY <1>2, <2>4, <3>3, <3>4, TypedStep
    <3>6. QED
      BY <2>1, <2>2, <2>4, <3>5 DEF StackTyped
  <2>5. QED
    BY <1>10, <2>3, <2>4 DEF InsertRow
<1>11. CASE BreakOff(c)
  <2>1. Top(c) \in InsertFrames
    BY <1>3, <1>11 DEF BreakOff
  <2>2. /\ Stack(c, <<[Top(c) EXCEPT !.phase = "persist"]>> \o Under(c))
        /\ UNCHANGED <<failed, reg, depth, unsaved>>
    BY <1>11 DEF BreakOff, ToPhase
  <2>3. [Top(c) EXCEPT !.phase = "persist"] \in Frames
    BY <1>3, <2>1, TypedChange
  <2>4. stack' \in [Threads -> Seq(Frames)]
    BY <1>2, <2>2, <2>3, TypedStep
  <2>5. QED
    BY <2>2, <2>4 DEF StackTyped
<1>12. CASE Persist(c)
  <2>1. /\ Stack(c, Under(c)) /\ UNCHANGED <<failed, reg, depth>> /\ unsaved' \subseteq Tables
    BY <1>12 DEF Persist, StackTyped
  <2>2. QED
    BY <1>2, <2>1, TypedStep DEF StackTyped
<1>13. QED
  BY <1>4, <1>5, <1>6, <1>7, <1>8, <1>9, <1>10, <1>11, <1>12 DEF Step

LEMMA RunTyped ==
  ASSUME CatalogTyped, StackTyped, NEW c \in Clients, Run(c)
  PROVE  StackTyped'
<1>1. PICK s \in work.runs[c] :
        /\ Stack(c, <<BodyOf(None, <<s>>)>> \o stack[c])
        /\ UNCHANGED <<failed, reg, depth, unsaved>>
  BY DEF Run, Push
<1>2. s \in Statements /\ c \in Threads
  BY WorksAssumption DEF CatalogTyped, Threads
<1>3. BodyOf(None, <<s>>) \in Frames
  <2>1. <<s>> \in Seq(Statements)
    BY <1>2
  <2>2. QED
    BY <2>1, TypedBody
<1>4. <<BodyOf(None, <<s>>)>> \o stack[c] \in Seq(Frames)
  BY <1>2, <1>3, TypedStack DEF StackTyped
<1>5. stack' \in [Threads -> Seq(Frames)]
  BY <1>1, <1>2, <1>4, TypedStep
<1>6. QED
  BY <1>1, <1>5 DEF StackTyped

----------------------------------------------------------------------------
Snapshots == [id : JobIds, def : Definitions, due : BOOLEAN, held : BOOLEAN]

TimesTyped ==
  /\ tick \in BOOLEAN /\ age \in Nat
  /\ due \subseteq Snapshots
  /\ \A r \in due : r.held => mem[r.id] # None
  /\ since \in [JobIds -> Nat] /\ \A j \in JobIds : since[j] <= Interval[j]

\* Of finitely many jobs one waits longest.
LEMMA LongestIs == Longest \in Nat
<1> DEFINE Is(S, j) == j \in S /\ \A k \in S : Interval[k] <= Interval[j]
           T == {n \in Nat : \A S \in SUBSET JobIds :
                   IsFiniteSet(S) /\ Cardinality(S) = n /\ S # {} => \E j : Is(S, j)}
<1>0. \A j \in JobIds : Interval[j] \in Nat
  BY IntervalAssumption
<1>1. 0 \in T
  BY FS_EmptySet
<1>2. ASSUME NEW n \in Nat, n \in T PROVE n + 1 \in T
  <2> SUFFICES ASSUME NEW S \in SUBSET JobIds, IsFiniteSet(S), Cardinality(S) = n + 1, S # {}
               PROVE  \E j : Is(S, j)
    OBVIOUS
  <2>1. PICK x \in S : TRUE
    OBVIOUS
  <2>2. PICK R \in SUBSET JobIds : R = S \ {x}
    OBVIOUS
  <2>3. IsFiniteSet(R) /\ Cardinality(R) = n
    BY <2>1, <2>2, FS_RemoveElement
  <2>4. CASE R = {}
    <3>1. Is(S, x)
      BY <1>0, <2>1, <2>2, <2>4
    <3>2. QED
      BY <3>1
  <2>5. CASE R # {}
    <3>1. PICK j : Is(R, j)
      BY <1>2, <2>3, <2>5
    <3>2. CASE Interval[x] <= Interval[j]
      <4>1. Is(S, j)
        BY <2>2, <3>1, <3>2
      <4>2. QED
        BY <4>1
    <3>3. CASE ~(Interval[x] <= Interval[j])
      <4>1. Is(S, x)
        BY <1>0, <2>1, <2>2, <3>1, <3>3
      <4>2. QED
        BY <4>1
    <3>4. QED
      BY <3>2, <3>3
  <2>6. QED
    BY <2>4, <2>5
<1> HIDE DEF T
<1>3. IsFiniteSet(JobIds) /\ Cardinality(JobIds) \in Nat
  BY IdsAssumption, FS_Subset, FS_CardinalityType DEF JobIds
<1>4. Cardinality(JobIds) \in T
  BY <1>1, <1>2, <1>3, Induction
<1>5. CASE JobIds # {}
  <2>1. PICK j : Is(JobIds, j)
    BY <1>3, <1>4, <1>5 DEF T
  <2>2. \E n \in {Interval[k] : k \in JobIds} : \A k \in JobIds : Interval[k] <= n
    BY <2>1
  <2>3. Longest \in {Interval[k] : k \in JobIds}
    BY <1>5, <2>2 DEF Longest
  <2>4. QED
    BY <1>0, <2>3
<1>6. CASE JobIds = {}
  BY <1>6 DEF Longest
<1>7. QED
  BY <1>5, <1>6

LEMMA LeastIs ==
  ASSUME NEW x \in Nat, NEW y \in Nat
  PROVE  Least(x, y) \in Nat /\ Least(x, y) <= y
  BY DEF Least

\* A job that was held when it was dropped is held no more.
LEMMA DropTimes ==
  ASSUME CatalogTyped, TimesTyped, NEW c \in Clients, Drop(c)
  PROVE  TimesTyped'
<1>1. PICK i \in work.drops[c] :
        /\ mem[i] # None /\ mem' = [mem EXCEPT ![i] = None]
        /\ due' = {LetGo(r, i) : r \in due}
        /\ UNCHANGED <<tick, age, since>>
  BY Zenon DEF Drop
<1>2. i \in Ids /\ mem[i] \in Definitions
  BY <1>1, WorksAssumption DEF CatalogTyped
<1>3. \A l \in Ids : l # i => mem'[l] = mem[l]
  BY <1>1, <1>2 DEF CatalogTyped
<1>4. ASSUME NEW r \in due
      PROVE  LetGo(r, i) \in Snapshots /\ (LetGo(r, i).held => mem'[LetGo(r, i).id] # None)
  <2>1. r \in Snapshots /\ r.id \in Ids /\ (r.held => mem[r.id] # None)
    BY Apart DEF TimesTyped, Snapshots
  <2>2. CASE r.id = i /\ r.held
    <3>1. PICK e : e = [r EXCEPT !.def = mem[i], !.held = FALSE]
      OBVIOUS
    <3>2. e \in Snapshots /\ e.held = FALSE
      BY <1>2, <2>1, <3>1 DEF Snapshots
    <3>3. LetGo(r, i) = e
      BY <2>2, <3>1 DEF LetGo
    <3>4. QED
      BY <3>2, <3>3
  <2>3. CASE ~(r.id = i /\ r.held)
    <3>1. LetGo(r, i) = r
      BY <2>3 DEF LetGo
    <3>2. r.held => mem'[r.id] # None
      BY <1>3, <2>1, <2>3
    <3>3. QED
      BY <2>1, <3>1, <3>2
  <2>4. QED
    BY <2>2, <2>3
<1>5. due' \subseteq Snapshots /\ \A r \in due' : r.held => mem'[r.id] # None
  BY <1>1, <1>4
<1>6. QED
  BY <1>1, <1>5 DEF TimesTyped

LEMMA SnapshotTyped ==
  ASSUME CatalogTyped, TimesTyped, Snapshot
  PROVE  TimesTyped'
<1>1. /\ due' = {[id |-> j, def |-> mem[j], due |-> since[j] >= Interval[j], held |-> TRUE] :
                   j \in {j \in JobIds : mem[j] # None}}
      /\ tick' = FALSE /\ age' = 0 /\ UNCHANGED <<mem, since>>
  BY DEF Snapshot, catalog
<1>2. ASSUME NEW r \in due' PROVE r \in Snapshots /\ mem[r.id] # None
  <2>1. PICK j \in JobIds : /\ mem[j] # None
                            /\ r = [id |-> j, def |-> mem[j], due |-> since[j] >= Interval[j],
                                    held |-> TRUE]
    BY <1>1, <1>2
  <2>2. PICK b \in BOOLEAN : b = (since[j] >= Interval[j])
    <3>1. CASE since[j] >= Interval[j]
      <4>1. (since[j] >= Interval[j]) = TRUE
        BY <3>1
      <4>2. QED
        BY <4>1, Zenon
    <3>2. CASE ~(since[j] >= Interval[j])
      <4>1. (since[j] >= Interval[j]) = FALSE
        BY <3>2
      <4>2. QED
        BY <4>1, Zenon
    <3>3. QED
      BY <3>1, <3>2
  <2>3. r = [id |-> j, def |-> mem[j], due |-> b, held |-> TRUE]
    BY <2>1, <2>2
  <2>4. mem[j] \in Definitions
    BY <2>1, Apart DEF CatalogTyped
  <2>5. QED
    BY <2>1, <2>3, <2>4 DEF Snapshots
<1>3. QED
  BY <1>1, <1>2 DEF TimesTyped

LEMMA StartTyped ==
  ASSUME CatalogTyped, StackTyped, TimesTyped, StartJob
  PROVE  StackTyped' /\ TimesTyped'
<1>1. PICK r, job :
        /\ r \in due /\ job = IF r.held THEN mem[r.id] ELSE r.def
        /\ due' = due \ {r}
        /\ \/ /\ Push(Scheduler, BodyOf(r.id, job.body))
              /\ since' = IF r.held THEN [since EXCEPT ![r.id] = Least(age, Interval[r.id])] ELSE since
           \/ UNCHANGED <<stack, since>>
        /\ UNCHANGED <<mem, failed, reg, depth, unsaved, tick, age>>
  BY Zenon DEF StartJob, catalog
<1>2. r \in Snapshots /\ r.id \in JobIds /\ r.id \in Ids
  BY <1>1, Apart DEF TimesTyped, Snapshots
<1>3. job \in Definitions
  BY <1>1, <1>2 DEF CatalogTyped, TimesTyped, Snapshots
<1>4. BodyOf(r.id, job.body) \in Frames
  <2>1. job.body \in Seq(Statements)
    BY <1>3 DEF Definitions
  <2>2. QED
    BY <1>2, <2>1, TypedBody
<1>5. stack' \in [Threads -> Seq(Frames)]
  <2>1. CASE UNCHANGED stack
    BY <2>1 DEF StackTyped
  <2>2. CASE Push(Scheduler, BodyOf(r.id, job.body))
    <3>1. Scheduler \in Threads
      BY DEF Threads
    <3>2. <<BodyOf(r.id, job.body)>> \o stack[Scheduler] \in Seq(Frames)
      BY <1>4, <3>1, TypedStack DEF StackTyped
    <3>3. QED
      BY <2>2, <3>1, <3>2, TypedStep DEF Push
  <2>3. QED
    BY <1>1, <2>1, <2>2
<1>6. since' \in [JobIds -> Nat] /\ \A j \in JobIds : since'[j] <= Interval[j]
  <2>1. PICK n \in Nat : n = Least(age, Interval[r.id]) /\ n <= Interval[r.id]
    BY <1>2, IntervalAssumption, LeastIs DEF TimesTyped
  <2>2. CASE since' = since
    BY <2>2 DEF TimesTyped
  <2>3. CASE since' = [since EXCEPT ![r.id] = n]
    BY <1>2, <2>1, <2>3 DEF TimesTyped
  <2>4. QED
    BY <1>1, <2>1, <2>2, <2>3
<1>7. QED
  BY <1>1, <1>5, <1>6 DEF StackTyped, TimesTyped

LEMMA MinuteTyped ==
  ASSUME TimesTyped, Minute
  PROVE  TimesTyped'
<1>1. /\ tick' = TRUE /\ UNCHANGED <<mem, due>>
      /\ since' = [j \in JobIds |-> Least(since[j] + 1, Interval[j])]
      /\ (age' = 0 \/ age' = Least(age + 1, Longest))
  BY DEF Minute, catalog
<1>2. since' \in [JobIds -> Nat] /\ \A j \in JobIds : since'[j] <= Interval[j]
  <2>1. ASSUME NEW j \in JobIds
        PROVE  Least(since[j] + 1, Interval[j]) \in Nat
               /\ Least(since[j] + 1, Interval[j]) <= Interval[j]
    <3>1. since[j] + 1 \in Nat /\ Interval[j] \in Nat
      BY IntervalAssumption DEF TimesTyped
    <3>2. QED
      BY <3>1, LeastIs
  <2>2. QED
    BY <1>1, <2>1
<1>3. age' \in Nat
  <2>1. Least(age + 1, Longest) \in Nat
    <3>1. age + 1 \in Nat /\ Longest \in Nat
      BY LongestIs DEF TimesTyped
    <3>2. QED
      BY <3>1, LeastIs
  <2>2. QED
    BY <1>1, <2>1
<1>4. QED
  BY <1>1, <1>2, <1>3 DEF TimesTyped

TypeInv == CatalogTyped /\ StackTyped /\ TimesTyped /\ RowsInv

LEMMA InitTypes == Init => TypeInv
<1> SUFFICES ASSUME Init PROVE TypeInv
  OBVIOUS
<1>1. StackTyped
  <2>1. << >> \in Seq(Frames)
    OBVIOUS
  <2>2. QED
    BY <2>1 DEF Init, StackTyped
<1>2. TimesTyped
  <2>1. \A j \in JobIds : Interval[j] \in Nat /\ Interval[j] <= Interval[j]
    BY IntervalAssumption
  <2>2. QED
    BY <2>1, IntervalAssumption DEF Init, TimesTyped
<1>3. QED
  BY <1>1, <1>2, InitTyped, InitRows DEF TypeInv

LEMMA NextTypes == TypeInv /\ [Next]_vars => TypeInv'
<1> SUFFICES ASSUME TypeInv, [Next]_vars PROVE TypeInv'
  OBVIOUS
<1>1. CatalogTyped /\ StackTyped /\ TimesTyped /\ RowsInv /\ CatalogTyped' /\ RowsInv'
  BY NextTyped, NextRows DEF TypeInv
<1>2. ASSUME UNCHANGED running PROVE StackTyped'
  BY <1>1, <1>2 DEF StackTyped, running
<1>3. ASSUME UNCHANGED <<mem, timing>> PROVE TimesTyped'
  BY <1>1, <1>3 DEF TimesTyped, timing
<1>4. ASSUME NEW c \in Clients, DDL(c) PROVE StackTyped' /\ TimesTyped'
  <2>1. UNCHANGED running
    BY <1>4 DEF DDL, Create, AlterJob, Fetch, Save, Drop, Delete
  <2>2. CASE Create(c)
    <3>1. \A i \in Ids : mem[i] # None => mem'[i] # None
      BY <1>1, <2>2, CreateTyped
    <3>2. /\ UNCHANGED <<tick, due, age>>
          /\ \/ since' = since
             \/ \E i \in JobIds : since' = [since EXCEPT ![i] = Interval[i]]
      BY <2>2 DEF Create
    <3>3. since' \in [JobIds -> Nat] /\ \A j \in JobIds : since'[j] <= Interval[j]
      <4>1. \A j \in JobIds : Interval[j] \in Nat /\ Interval[j] <= Interval[j]
        BY IntervalAssumption
      <4>2. QED
        BY <1>1, <3>2, <4>1 DEF TimesTyped
    <3>4. \A r \in due : r.id \in Ids
      BY <1>1, Apart DEF TimesTyped, Snapshots
    <3>5. QED
      BY <1>1, <1>2, <2>1, <3>1, <3>2, <3>3, <3>4 DEF TimesTyped
  <2>3. CASE AlterJob(c)
    <3>1. \A i \in Ids : mem[i] # None => mem'[i] # None
      BY <1>1, <2>3, AlterTyped
    <3>2. UNCHANGED <<tick, due, age, since>>
      BY <2>3 DEF AlterJob, timing
    <3>3. \A r \in due : r.id \in Ids
      BY <1>1, Apart DEF TimesTyped, Snapshots
    <3>4. QED
      BY <1>1, <1>2, <2>1, <3>1, <3>2, <3>3 DEF TimesTyped
  <2>4. CASE Fetch(c) \/ Save(c) \/ Delete(c)
    <3>1. UNCHANGED <<mem, timing>>
      BY <2>4 DEF Fetch, Save, Delete, catalog
    <3>2. QED
      BY <1>2, <1>3, <2>1, <3>1
  <2>5. CASE Drop(c)
    BY <1>1, <1>2, <2>1, <2>5, DropTimes
  <2>6. QED
    BY <1>4, <2>2, <2>3, <2>4, <2>5 DEF DDL
<1>5. ASSUME NEW c \in Clients, Run(c) PROVE StackTyped' /\ TimesTyped'
  <2>1. UNCHANGED <<mem, timing>>
    BY <1>5 DEF Run, catalog
  <2>2. QED
    BY <1>1, <1>3, <1>5, <2>1, RunTyped
<1>6. ASSUME NEW c \in Threads, Step(c) PROVE StackTyped' /\ TimesTyped'
  <2>1. UNCHANGED <<mem, timing>>
    BY <1>6 DEF Step, Execute, Return, EnterTriggers, GetTriggers, LeaveTriggers, LeftTriggers,
                InsertRow, BreakOff, Persist, catalog
  <2>2. QED
    BY <1>1, <1>3, <1>6, <2>1, ThreadTyped
<1>7. ASSUME Minute PROVE StackTyped' /\ TimesTyped'
  <2>1. UNCHANGED running
    BY <1>7 DEF Minute
  <2>2. TimesTyped'
    BY <1>1, <1>7, MinuteTyped
  <2>3. QED
    BY <1>2, <2>1, <2>2
<1>8. ASSUME Snapshot PROVE StackTyped' /\ TimesTyped'
  <2>1. UNCHANGED running
    BY <1>8 DEF Snapshot
  <2>2. TimesTyped'
    BY <1>1, <1>8, SnapshotTyped
  <2>3. QED
    BY <1>2, <2>1, <2>2
<1>9. ASSUME StartJob PROVE StackTyped' /\ TimesTyped'
  BY <1>1, <1>9, StartTyped
<1>10. ASSUME Restart PROVE StackTyped' /\ TimesTyped'
  <2>1. /\ stack' = [c \in Threads |-> << >>]
        /\ failed' = {} /\ reg' = [c \in Threads |-> 0] /\ depth' = 0 /\ unsaved' = {}
        /\ tick' = FALSE /\ due' = {} /\ age' = 0 /\ since' = Interval
    BY <1>10 DEF Restart
  <2>2. StackTyped'
    <3>1. << >> \in Seq(Frames)
      OBVIOUS
    <3>2. QED
      BY <2>1, <3>1 DEF StackTyped
  <2>3. TimesTyped'
    <3>1. \A j \in JobIds : Interval[j] \in Nat /\ Interval[j] <= Interval[j]
      BY IntervalAssumption
    <3>2. QED
      BY <2>1, <3>1, IntervalAssumption DEF TimesTyped
  <2>4. QED
    BY <2>2, <2>3
<1>11. ASSUME UNCHANGED vars PROVE StackTyped' /\ TimesTyped'
  <2>1. UNCHANGED running /\ UNCHANGED <<mem, timing>>
    BY <1>11 DEF vars, running, timing, catalog
  <2>2. QED
    BY <1>2, <1>3, <2>1
<1>12. QED
  BY <1>1, <1>4, <1>5, <1>6, <1>7, <1>8, <1>9, <1>10, <1>11 DEF Next, TypeInv

----------------------------------------------------------------------------
(* The theorems                                                            *)

\* When no statement is under way every inserted row is on disk: those of
\* INSERTs that failed half-way too, and of the INSERTs of triggers, procedures
\* and jobs, however deep.
THEOREM RowsArePersisted == Spec => []RowsReachDisk
<1>1. RowsInv => RowsReachDisk
  <2> SUFFICES ASSUME RowsInv, \A c \in Threads : Quiet(c), NEW t \in unsaved PROVE FALSE
    BY DEF RowsReachDisk
  <2>1. PICK c \in Threads : Owes(stack[c], t)
    BY DEF RowsInv
  <2>2. stack[c] = << >>
    BY DEF Quiet
  <2>3. QED
    BY <2>1, <2>2, EmptySequence DEF Owes
<1>2. QED
  BY <1>1, InitRows, NextRows, PTL DEF Spec

\* Whatever sessions create, alter and drop at once: what is saved under a key is
\* a definition of a routine of that key (SaveProcedure, SaveTrigger, SaveJob); a
\* statement saves the definition it has found; and a job that is dropped while a
\* statement or checkAndExecuteJobs holds it has one all the same.
THEOREM TypeCorrect == Spec => []TypeOK
<1>1. TypeInv => TypeOK
  <2> SUFFICES ASSUME TypeInv PROVE TypeOK
    OBVIOUS
  <2>1. CatalogTyped /\ StackTyped /\ TimesTyped
    BY DEF TypeInv
  <2>2. order \in [Tables -> Seq(TriggerIds)]
    BY <2>1 DEF CatalogTyped, Lists
  <2>3. \A c \in Clients : DDLFits(ddl[c], mem)
    BY <2>1 DEF CatalogTyped
  <2>4. QED
    BY <2>1, <2>2, <2>3 DEF TypeOK, CatalogTyped, StackTyped, TimesTyped, DDLs, DDLFits, Snapshots
<1>2. QED
  BY <1>1, InitTypes, NextTypes, PTL DEF Spec

\* The list an INSERT goes through (GetTriggers of catalog/triggers.go) has every
\* trigger of its table once and no other, whichever sessions create and drop triggers and whenever the server
\* restarts.
THEOREM TriggersAreListed == Spec => []Ordered(order, mem)
<1>1. TypeInv => Ordered(order, mem)
  <2> SUFFICES ASSUME TypeInv, NEW t \in Tables
               PROVE  /\ {order[t][k] : k \in DOMAIN order[t]} = TriggersOf(mem, t)
                      /\ Len(order[t]) = Cardinality(TriggersOf(mem, t))
    BY DEF Ordered
  <2>1. Lists(order[t], TriggersOf(mem, t))
    BY DEF TypeInv, CatalogTyped
  <2>2. QED
    BY <2>1, ListedMeans
<1>2. QED
  BY <1>1, InitTypes, NextTypes, PTL DEF Spec

\* While one thread runs statements, triggerDepth is the number of triggers it
\* is in (executeTriggers of executor_trigger.go), after any number of errors,
\* procedures and jobs: the limit of 16 strikes neither early nor late.
THEOREM DepthStaysNesting == Spec => []DepthIsNesting
<1>1. QED
  BY DepthMeans, InitDepth, NextDepth, PTL DEF Spec

\* Procedures, triggers and jobs whose bodies can be encoded come back from a
\* restart as they are, and one that CREATE, ALTER or DROP was at work on as it
\* was before or after: for statements one at a time, and for sessions that
\* create and alter at once.
THEOREM RoutinesAreDurable == Spec /\ Orderly(work) => DurableSpec
<1>1. Init /\ Orderly(work) => Durable!Init
  BY InitSaved
<1>2. Init /\ Orderly(work) => SavedInv
  BY InitSaved
<1>3. Orderly(work) /\ SavedInv /\ [Next]_vars => SavedInv' /\ Orderly(work)'
  BY NextSaved
<1>4. Orderly(work) /\ SavedInv /\ [Next]_vars
        => [Durable!Next]_<<mem, [i \in Ids |-> {mem[i], Loaded(i)}],
                            {ddl[c].id : c \in {c \in Clients : ddl[c] # NoDDL}} \cup Unsavable>>
  BY NextSaved
<1>5. QED
  BY <1>1, <1>2, <1>3, <1>4, PTL DEF Spec, DurableSpec, Durable!Spec
=============================================================================
