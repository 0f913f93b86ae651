--------------------- MODULE ConcurrentStatementsProofs ---------------------
(***************************************************************************)
(* What the statements of concurrent clients keep.                         *)
(*                                                                         *)
(* Of the locks, for any tables, foreign keys, clients and workload: every *)
(* statement returns the locks it takes, and no row changes under a        *)
(* reader's lock; with ranks for the locks, no circular wait.              *)
(*                                                                         *)
(* Of a foreign key, for any rows, key values, clients and workloads:      *)
(* types; every reference has its row, if it names the key by the table's  *)
(* own name, one client writes references and removes parents and no       *)
(* UPDATE sets a key.                                                      *)
(***************************************************************************)
EXTENDS TableLocks, ForeignKeys, FiniteSetTheorems, FunctionTheorems, SequenceTheorems,
        WellFoundedInduction, TLAPS

----------------------------------------------------------------------------
(* Induction over the natural numbers, as a fact about sets                *)

Below == OpToRel(<, Nat)

LEMMA Least ==
  ASSUME NEW S, S \subseteq Nat, S # {}
  PROVE  \E n \in S : \A m \in S : n <= m
<1>1. IsWellFoundedOn(Below, Nat)
  BY NatLessThanWellFounded, Zenon DEF Below
<1>2. \E n \in S : \A m \in S : <<m, n>> \notin Below
  BY <1>1, WFMin, Zenon
<1>3. \A m, n \in Nat : <<m, n>> \in Below <=> m < n
  BY DEF Below, OpToRel
<1>4. PICK n \in S : \A m \in S : <<m, n>> \notin Below
  BY <1>2
<1>5. ASSUME NEW m \in S PROVE n <= m
  <2>1. m \in Nat /\ n \in Nat /\ ~(m < n)
    BY <1>3, <1>4
  <2>2. QED
    BY <2>1
<1>6. QED
  BY <1>5

LEMMA Induction ==
  ASSUME NEW S, 0 \in S, \A n \in Nat : n \in S => n + 1 \in S
  PROVE  Nat \subseteq S
<1> SUFFICES ASSUME Nat \ S # {} PROVE FALSE
  OBVIOUS
<1>1. PICK n \in Nat \ S : \A m \in Nat \ S : n <= m
  <2>1. Nat \ S \subseteq Nat
    OBVIOUS
  <2>2. QED
    BY <2>1, Least
<1>2. n - 1 \in Nat /\ n - 1 \notin Nat \ S
  BY <1>1
<1>3. n \in S
  BY <1>2
<1>4. QED
  BY <1>1, <1>3

LEMMA FlattenStep ==
  ASSUME NEW ss, NEW k \in Nat \ {0}
  PROVE  \E f : f = [i \in 1..k |-> IF i = 1 THEN ss[i] ELSE f[i - 1] \o ss[i]]
<1> DEFINE Is(f, n) == f = [i \in 1..n |-> IF i = 1 THEN ss[i] ELSE f[i - 1] \o ss[i]]
           T == {n \in Nat : \E f : Is(f, n)}
<1>1. 0 \in T
  <2>1. Is([i \in 1..0 |-> ss], 0)
    OBVIOUS
  <2>2. QED
    BY <2>1
<1>2. ASSUME NEW n \in Nat, n \in T PROVE n + 1 \in T
  <2>1. PICK f : Is(f, n)
    BY <1>2
  <2>0. PICK g : g = [i \in 1..n + 1 |->
                       IF i \in 1..n THEN f[i] ELSE IF i = 1 THEN ss[i] ELSE f[i - 1] \o ss[i]]
    OBVIOUS
  <2>2. ASSUME NEW i \in 1..n + 1
        PROVE  g[i] = IF i = 1 THEN ss[i] ELSE g[i - 1] \o ss[i]
    <3>1. CASE i \in 1..n
      <4>1. f[i] = IF i = 1 THEN ss[i] ELSE f[i - 1] \o ss[i]
        BY <2>1, <3>1
      <4>2. i # 1 => i - 1 \in 1..n /\ i - 1 \in 1..n + 1
        BY <3>1
      <4>3. QED
        BY <2>0, <3>1, <4>1, <4>2
    <3>2. CASE i = n + 1
      <4>1. i # 1 => i - 1 \in 1..n /\ i - 1 \in 1..n + 1
        BY <3>2
      <4>2. i \notin 1..n
        BY <3>2
      <4>3. QED
        BY <2>0, <4>1, <4>2
    <3>3. QED
      BY <3>1, <3>2
  <2>3. Is(g, n + 1)
    <3>1. g = [i \in 1..n + 1 |-> g[i]]
      BY <2>0
    <3>2. QED
      BY <2>2, <3>1, Zenon
  <2> HIDE DEF Is
  <2>4. \E h : Is(h, n + 1)
    BY <2>3
  <2>5. QED
    BY <2>4
<1> HIDE DEF T
<1>3. k \in T
  BY <1>1, <1>2, Induction
<1>4. QED
  BY <1>3 DEF T

LEMMA Flattened ==
  ASSUME NEW ss, Len(ss) \in Nat \ {0}
  PROVE  \E f : /\ f = [i \in 1..Len(ss) |-> IF i = 1 THEN ss[i] ELSE f[i - 1] \o ss[i]]
                /\ FlattenSeq(ss) = f[Len(ss)]
  BY FlattenStep DEF FlattenSeq

----------------------------------------------------------------------------
(* What a statement holds between its calls                                *)

Ops == {"Lock", "Unlock", "RLock", "RUnlock", "read", "write"}
Steps == [op : Ops, on : Mutexes]

\* A lock in the hands of a statement: for writing, or for reading.
Grips == {"w", "r"} \X Mutexes

After(call, held) ==
  CASE call.op = "Lock" -> held \cup {<<"w", call.on>>}
    [] call.op = "Unlock" -> held \ {<<"w", call.on>>}
    [] call.op = "RLock" -> held \cup {<<"r", call.on>>}
    [] call.op = "RUnlock" -> held \ {<<"r", call.on>>}
    [] OTHER -> held

\* The call may be made with these locks held, where <<m, n>> \in Inside says
\* that lock n may be taken inside lock m.
Legal(call, held, Inside) ==
  /\ call.op = "Lock" => <<"w", call.on>> \notin held
  /\ call.op = "RLock" => <<"r", call.on>> \notin held
  /\ call.op \in {"Lock", "RLock"} => \A x \in held : <<x[2], call.on>> \in Inside
  /\ call.op = "Unlock" => <<"w", call.on>> \in held
  /\ call.op = "RUnlock" => <<"r", call.on>> \in held
  /\ call.op = "read" => (<<"w", Store>> \in held => <<"r", call.on>> \in held)
  /\ call.op = "write" => <<"w", call.on>> \in held

\* The calls of p, made one after the other, lead from what is held to what
\* is held in the end.
Path(p, path, Inside) ==
  /\ path \in [1..Len(p) + 1 -> SUBSET Grips]
  /\ \A i \in 1..Len(p) : Legal(p[i], path[i], Inside) /\ path[i + 1] = After(p[i], path[i])

Leads(p, from, to, Inside) ==
  /\ p \in Seq(Steps)
  /\ \E path : Path(p, path, Inside) /\ path[1] = from /\ path[Len(p) + 1] = to

LEMMA LeadsNowhere ==
  ASSUME NEW held \in SUBSET Grips, NEW Inside
  PROVE  Leads(<<>>, held, held, Inside)
<1> DEFINE path == [i \in 1..1 |-> held]
<1>1. Path(<<>>, path, Inside) /\ path[1] = held
  BY DEF Path
<1>2. <<>> \in Seq(Steps) /\ Len(<<>>) = 0 /\ 0 + 1 = 1
  BY EmptySeq
<1> HIDE DEF path
<1>3. QED
  BY <1>1, <1>2 DEF Leads

LEMMA LeadsOne ==
  ASSUME NEW call \in Steps, NEW held \in SUBSET Grips, NEW Inside, Legal(call, held, Inside)
  PROVE  /\ Leads(<<call>>, held, After(call, held), Inside)
         /\ After(call, held) \in SUBSET Grips
<1>0. After(call, held) \in SUBSET Grips
  BY DEF After, Grips, Steps
<1>1. PICK path : path = [i \in 1..2 |-> IF i = 1 THEN held ELSE After(call, held)]
  OBVIOUS
<1>2. <<call>> \in Seq(Steps) /\ Len(<<call>>) = 1 /\ <<call>>[1] = call
  OBVIOUS
<1>3. path \in [1..2 -> SUBSET Grips] /\ path[1] = held /\ path[2] = After(call, held)
  BY <1>0, <1>1
<1>4. Path(<<call>>, path, Inside)
  BY <1>2, <1>3 DEF Path
<1>5. QED
  BY <1>0, <1>2, <1>3, <1>4 DEF Leads

LEMMA LeadsThrough ==
  ASSUME NEW p, NEW q, NEW from, NEW between, NEW to, NEW Inside,
         Leads(p, from, between, Inside), Leads(q, between, to, Inside)
  PROVE  Leads(p \o q, from, to, Inside)
<1>1. PICK f : Path(p, f, Inside) /\ f[1] = from /\ f[Len(p) + 1] = between
  BY DEF Leads
<1>2. PICK g : Path(q, g, Inside) /\ g[1] = between /\ g[Len(q) + 1] = to
  BY DEF Leads
<1>3. p \in Seq(Steps) /\ q \in Seq(Steps) /\ Len(p) \in Nat /\ Len(q) \in Nat
  BY DEF Leads
<1>4. PICK m : m = Len(p)
  OBVIOUS
<1>5. PICK n : n = Len(q)
  OBVIOUS
<1>6. /\ p \o q \in Seq(Steps) /\ Len(p \o q) = m + n
      /\ \A i \in 1..m + n : (p \o q)[i] = IF i <= m THEN p[i] ELSE q[i - m]
  BY <1>3, <1>4, <1>5, ConcatProperties
<1>7. PICK h : h = [i \in 1..m + n + 1 |-> IF i <= m THEN f[i] ELSE g[i - m]]
  OBVIOUS
<1>8. /\ f \in [1..m + 1 -> SUBSET Grips] /\ g \in [1..n + 1 -> SUBSET Grips]
      /\ m \in Nat /\ n \in Nat /\ f[m + 1] = g[1]
  BY <1>1, <1>2, <1>3, <1>4, <1>5 DEF Path
<1>9. h \in [1..m + n + 1 -> SUBSET Grips]
  <2>1. ASSUME NEW i \in 1..m + n + 1 PROVE (IF i <= m THEN f[i] ELSE g[i - m]) \in SUBSET Grips
    <3>1. CASE i <= m
      <4>1. i \in 1..m + 1
        BY <1>8, <3>1
      <4>2. QED
        BY <1>8, <3>1, <4>1
    <3>2. CASE ~(i <= m)
      <4>1. i - m \in 1..n + 1
        BY <1>8, <3>2
      <4>2. QED
        BY <1>8, <3>2, <4>1
    <3>3. QED
      BY <3>1, <3>2
  <2>2. QED
    BY <1>7, <2>1
<1>10. ASSUME NEW i \in 1..m + n
       PROVE  Legal((p \o q)[i], h[i], Inside) /\ h[i + 1] = After((p \o q)[i], h[i])
  <2>1. i \in 1..m + n + 1 /\ i + 1 \in 1..m + n + 1
    BY <1>8
  <2>2. CASE i <= m
    <3>1. i \in 1..m /\ (p \o q)[i] = p[i] /\ h[i] = f[i]
      BY <1>6, <1>7, <1>8, <2>1, <2>2
    <3>2. Legal(p[i], f[i], Inside) /\ f[i + 1] = After(p[i], f[i])
      BY <1>1, <1>4, <3>1 DEF Path
    <3>3. h[i + 1] = f[i + 1]
      <4>1. CASE i + 1 <= m
        BY <1>7, <2>1, <4>1
      <4>2. CASE ~(i + 1 <= m)
        <5>1. i = m /\ (i + 1) - m = 1
          BY <1>8, <2>2, <4>2
        <5>2. h[i + 1] = g[(i + 1) - m]
          BY <1>7, <2>1, <4>2
        <5>3. QED
          BY <1>8, <5>1, <5>2
      <4>3. QED
        BY <4>1, <4>2
    <3>4. QED
      BY <3>1, <3>2, <3>3
  <2>3. CASE ~(i <= m)
    <3>1. /\ i - m \in 1..n /\ (p \o q)[i] = q[i - m] /\ h[i] = g[i - m]
          /\ ~(i + 1 <= m) /\ (i + 1) - m = (i - m) + 1
      BY <1>6, <1>7, <1>8, <2>1, <2>3
    <3>2. Legal(q[i - m], g[i - m], Inside) /\ g[(i - m) + 1] = After(q[i - m], g[i - m])
      BY <1>2, <1>5, <3>1 DEF Path
    <3>3. h[i + 1] = g[(i + 1) - m]
      BY <1>7, <2>1, <3>1
    <3>4. QED
      BY <3>1, <3>2, <3>3
  <2>4. QED
    BY <2>2, <2>3
<1>11. Path(p \o q, h, Inside)
  BY <1>6, <1>9, <1>10 DEF Path
<1>12. h[1] = from
  <2>1. 1 \in 1..m + n + 1
    BY <1>8
  <2>2. CASE 1 <= m
    BY <1>1, <1>7, <2>1, <2>2
  <2>3. CASE ~(1 <= m)
    <3>1. m = 0 /\ 1 - m = 1
      BY <1>8, <2>3
    <3>2. h[1] = g[1 - m]
      BY <1>7, <2>1, <2>3
    <3>3. QED
      BY <1>1, <1>8, <3>1, <3>2
  <2>4. QED
    BY <2>2, <2>3
<1>13. h[m + n + 1] = to
  <2>1. m + n + 1 \in 1..m + n + 1 /\ ~(m + n + 1 <= m) /\ (m + n + 1) - m = n + 1
    BY <1>8
  <2>2. h[m + n + 1] = g[(m + n + 1) - m]
    BY <1>7, <2>1
  <2>3. QED
    BY <1>2, <1>5, <2>1, <2>2
<1>14. QED
  BY <1>6, <1>11, <1>12, <1>13 DEF Leads

\* What is left after the next call.
LEMMA LeadsOn ==
  ASSUME NEW p, p # <<>>, NEW from, NEW to, NEW Inside, Leads(p, from, to, Inside)
  PROVE  /\ Head(p) \in Steps /\ Legal(Head(p), from, Inside)
         /\ Leads(Tail(p), After(Head(p), from), to, Inside)
<1>1. PICK f : Path(p, f, Inside) /\ f[1] = from /\ f[Len(p) + 1] = to
  BY DEF Leads
<1>2. p \in Seq(Steps) /\ Len(p) \in Nat \ {0}
  BY EmptySeq DEF Leads
<1>3. PICK m : m = Len(p)
  OBVIOUS
<1>4. /\ Head(p) = p[1] /\ Head(p) \in Steps /\ Tail(p) \in Seq(Steps) /\ Len(Tail(p)) = m - 1
      /\ \A i \in 1..m - 1 : Tail(p)[i] = p[i + 1]
  BY <1>2, <1>3, HeadTailProperties
<1>5. f \in [1..m + 1 -> SUBSET Grips] /\ m \in Nat \ {0}
  BY <1>1, <1>2, <1>3 DEF Path
<1>6. PICK g : g = [i \in 1..m |-> f[i + 1]]
  OBVIOUS
<1>7. g \in [1..(m - 1) + 1 -> SUBSET Grips]
  <2>1. \A i \in 1..m : i + 1 \in 1..m + 1
    BY <1>5
  <2>2. (m - 1) + 1 = m
    BY <1>5
  <2>3. g \in [1..m -> SUBSET Grips]
    BY <1>5, <1>6, <2>1
  <2>4. QED
    BY <2>2, <2>3
<1>8. ASSUME NEW i \in 1..m - 1
      PROVE  Legal(Tail(p)[i], g[i], Inside) /\ g[i + 1] = After(Tail(p)[i], g[i])
  <2>1. i \in 1..m /\ i + 1 \in 1..m
    BY <1>5
  <2>2. Legal(p[i + 1], f[i + 1], Inside) /\ f[(i + 1) + 1] = After(p[i + 1], f[i + 1])
    BY <1>1, <1>3, <2>1 DEF Path
  <2>3. g[i] = f[i + 1] /\ g[i + 1] = f[(i + 1) + 1]
    BY <1>6, <2>1
  <2>4. QED
    BY <1>4, <2>2, <2>3
<1>9. Path(Tail(p), g, Inside)
  BY <1>4, <1>7, <1>8 DEF Path
<1>10. 1 \in 1..m /\ m \in 1..m
  BY <1>5
<1>11. Legal(p[1], f[1], Inside) /\ f[1 + 1] = After(p[1], f[1])
  BY <1>1, <1>3, <1>10 DEF Path
<1>12. g[1] = After(Head(p), from) /\ Legal(Head(p), from, Inside)
  BY <1>1, <1>4, <1>6, <1>10, <1>11
<1>13. g[Len(Tail(p)) + 1] = to
  <2>1. Len(Tail(p)) + 1 = m
    BY <1>4, <1>5
  <2>2. g[m] = f[m + 1]
    BY <1>6, <1>10
  <2>3. QED
    BY <1>1, <1>3, <2>1, <2>2
<1>14. QED
  BY <1>4, <1>9, <1>12, <1>13 DEF Leads

----------------------------------------------------------------------------
(* The shapes of a statement                                               *)

\* The lock may be taken, for writing or for reading.
Takeable(mode, m, held, Inside) ==
  <<mode, m>> \notin held /\ \A x \in held : <<x[2], m>> \in Inside

\* Calls that hold in the end what they held at first.
Neutral(p, held, Inside) == Leads(p, held, held, Inside)

LEMMA NeutralThrough ==
  ASSUME NEW p, NEW q, NEW held, NEW Inside, Neutral(p, held, Inside), Neutral(q, held, Inside)
  PROVE  Neutral(p \o q, held, Inside)
  BY LeadsThrough DEF Neutral

LEMMA LockedNeutral ==
  ASSUME NEW m \in Mutexes, NEW held \in SUBSET Grips, NEW Inside, Takeable("w", m, held, Inside),
         NEW body, Neutral(body, held \cup {<<"w", m>>}, Inside)
  PROVE  Neutral(Locked(m, body), held, Inside)
<1> DEFINE take == [op |-> "Lock", on |-> m]
           give == [op |-> "Unlock", on |-> m]
           more == held \cup {<<"w", m>>}
<1>1. take \in Steps /\ give \in Steps /\ more \in SUBSET Grips
  BY DEF Steps, Ops, Grips
<1>2. After(take, held) = more /\ After(give, more) = held
  BY DEF After, Takeable
<1>3. Legal(take, held, Inside) /\ Legal(give, more, Inside)
  BY DEF Legal, Takeable
<1> HIDE DEF take, give, more
<1>4. Leads(<<take>>, held, more, Inside) /\ Leads(<<give>>, more, held, Inside)
  BY <1>1, <1>2, <1>3, LeadsOne
<1>5. Leads(body, more, more, Inside)
  BY DEF Neutral, more
<1>6. Leads(<<take>> \o body, held, more, Inside)
  BY <1>4, <1>5, LeadsThrough
<1>7. Leads((<<take>> \o body) \o <<give>>, held, held, Inside)
  BY <1>4, <1>6, LeadsThrough
<1>8. QED
  BY <1>7 DEF Neutral, Locked, Call, take, give

LEMMA RLockedNeutral ==
  ASSUME NEW m \in Mutexes, NEW held \in SUBSET Grips, NEW Inside, Takeable("r", m, held, Inside),
         NEW body, Neutral(body, held \cup {<<"r", m>>}, Inside)
  PROVE  Neutral(RLocked(m, body), held, Inside)
<1> DEFINE take == [op |-> "RLock", on |-> m]
           give == [op |-> "RUnlock", on |-> m]
           more == held \cup {<<"r", m>>}
<1>1. take \in Steps /\ give \in Steps /\ more \in SUBSET Grips
  BY DEF Steps, Ops, Grips
<1>2. After(take, held) = more /\ After(give, more) = held
  BY DEF After, Takeable
<1>3. Legal(take, held, Inside) /\ Legal(give, more, Inside)
  BY DEF Legal, Takeable
<1> HIDE DEF take, give, more
<1>4. Leads(<<take>>, held, more, Inside) /\ Leads(<<give>>, more, held, Inside)
  BY <1>1, <1>2, <1>3, LeadsOne
<1>5. Leads(body, more, more, Inside)
  BY DEF Neutral, more
<1>6. Leads(<<take>> \o body, held, more, Inside)
  BY <1>4, <1>5, LeadsThrough
<1>7. Leads((<<take>> \o body) \o <<give>>, held, held, Inside)
  BY <1>4, <1>6, LeadsThrough
<1>8. QED
  BY <1>7 DEF Neutral, RLocked, Call, take, give

LEMMA ReadNeutral ==
  ASSUME NEW t \in Mutexes, NEW held \in SUBSET Grips, NEW Inside,
         <<"w", Store>> \in held => <<"r", t>> \in held
  PROVE  Neutral(Call("read", t), held, Inside)
<1> DEFINE read == [op |-> "read", on |-> t]
<1>1. read \in Steps /\ Legal(read, held, Inside) /\ After(read, held) = held
  BY DEF Steps, Ops, Legal, After
<1> HIDE DEF read
<1>2. QED
  BY <1>1, LeadsOne DEF Neutral, Call, read

LEMMA WriteNeutral ==
  ASSUME NEW t \in Mutexes, NEW held \in SUBSET Grips, NEW Inside, <<"w", t>> \in held
  PROVE  Neutral(Call("write", t), held, Inside)
<1> DEFINE write == [op |-> "write", on |-> t]
<1>1. write \in Steps /\ Legal(write, held, Inside) /\ After(write, held) = held
  BY DEF Steps, Ops, Legal, After
<1> HIDE DEF write
<1>2. QED
  BY <1>1, LeadsOne DEF Neutral, Call, write

LEMMA FlattenNeutral ==
  ASSUME NEW ss, Len(ss) \in Nat, NEW held \in SUBSET Grips, NEW Inside,
         Len(ss) = 0 => ss = <<>>,
         \A i \in 1..Len(ss) : Neutral(ss[i], held, Inside)
  PROVE  Neutral(FlattenSeq(ss), held, Inside)
<1>1. CASE Len(ss) = 0
  <2>1. FlattenSeq(ss) = <<>>
    BY <1>1 DEF FlattenSeq
  <2>2. QED
    BY <2>1, LeadsNowhere DEF Neutral
<1>2. CASE Len(ss) # 0
  <2>1. PICK f : /\ f = [i \in 1..Len(ss) |-> IF i = 1 THEN ss[i] ELSE f[i - 1] \o ss[i]]
                 /\ FlattenSeq(ss) = f[Len(ss)]
    BY <1>2, Flattened
  <2> DEFINE T == {n \in Nat : n \in 1..Len(ss) => Neutral(f[n], held, Inside)}
  <2>2. 0 \in T
    OBVIOUS
  <2>3. ASSUME NEW n \in Nat, n \in T PROVE n + 1 \in T
    <3> SUFFICES ASSUME n + 1 \in 1..Len(ss) PROVE Neutral(f[n + 1], held, Inside)
      OBVIOUS
    <3>1. CASE n = 0
      <4>1. 1 \in 1..Len(ss) /\ n + 1 = 1
        BY <3>1
      <4>2. f[1] = ss[1] /\ Neutral(ss[1], held, Inside)
        BY <2>1, <4>1
      <4>3. QED
        BY <4>1, <4>2
    <3>2. CASE n # 0
      <4>1. n \in 1..Len(ss) /\ Neutral(f[n], held, Inside) /\ Neutral(ss[n + 1], held, Inside)
        BY <2>3, <3>2
      <4>2. f[n + 1] = f[n] \o ss[n + 1]
        <5>1. \A i \in 1..Len(ss) : i # 1 => f[i] = f[i - 1] \o ss[i]
          BY <2>1
        <5>2. n + 1 # 1 /\ (n + 1) - 1 = n
          BY <3>2
        <5>3. f[n + 1] = f[(n + 1) - 1] \o ss[n + 1]
          BY <5>1, <5>2
        <5>4. QED
          BY <5>2, <5>3
      <4>3. QED
        BY <4>1, <4>2, NeutralThrough
    <3>3. QED
      BY <3>1, <3>2
  <2> HIDE DEF T
  <2>4. Len(ss) \in T
    BY <2>2, <2>3, Induction
  <2>5. QED
    BY <1>2, <2>1, <2>4 DEF T
<1>3. QED
  BY <1>1, <1>2

LEMMA EachNeutral ==
  ASSUME NEW n \in Nat, NEW ss, ss = [i \in 1..n |-> ss[i]], NEW held \in SUBSET Grips, NEW Inside,
         \A i \in 1..n : Neutral(ss[i], held, Inside)
  PROVE  Neutral(FlattenSeq(ss), held, Inside)
<1>1. ASSUME NEW i \in 1..n PROVE ss[i] \in Seq(Steps)
  BY DEF Neutral, Leads
<1>2. ss \in Seq(Seq(Steps)) /\ Len(ss) = n
  BY <1>1
<1>3. Len(ss) = 0 => ss = <<>>
  BY <1>2, EmptySeq
<1>4. QED
  BY <1>2, <1>3, FlattenNeutral

\* A set in some order, and in each of its orders.
LEMMA InOrder ==
  ASSUME NEW S, IsFiniteSet(S)
  PROVE  /\ Len(SetToSeq(S)) \in Nat
         /\ \A i \in 1..Len(SetToSeq(S)) : SetToSeq(S)[i] \in S
         /\ \A s \in SetToSeqs(S) : s \in Seq(S) /\ Len(s) = Cardinality(S)
<1>1. Cardinality(S) \in Nat
  BY FS_CardinalityType
<1>2. SetToSeq(S) \in [1..Cardinality(S) -> S]
  <2>1. \E f \in [1..Cardinality(S) -> S] : IsInjective(f)
    <3>0. PICK n \in Nat : ExistsBijection(1..n, S)
      BY FS_NatBijection
    <3>1. PICK f : f \in Bijection(1..Cardinality(S), S)
      BY <3>0, FS_CountingElements DEF ExistsBijection
    <3>2. f \in [1..Cardinality(S) -> S]
          /\ \A a, b \in 1..Cardinality(S) : f[a] = f[b] => a = b
      BY <3>1 DEF Bijection, Injection, IsInjective
    <3>3. QED
      BY <3>2 DEF IsInjective
  <2>2. QED
    BY <2>1 DEF SetToSeq
<1>3. QED
  BY <1>1, <1>2 DEF SetToSeqs

----------------------------------------------------------------------------
(* The statements                                                          *)

\* What a statement asks of the order of the locks.
Allows(kind, t, Inside) ==
  /\ kind \notin {"select", "dropTable"} => <<Store, t>> \in Inside
  /\ kind = "insert" /\ References[t] # {} => <<t, Catalog>> \in Inside
  /\ kind = "delete" /\ t \in Keyed =>
       \A m \in {Catalog} \cup Referencing(t) : <<t, m>> \in Inside
  /\ kind \in {"createIndex", "renameColumn", "dropColumn"} => <<Catalog, t>> \in Inside

LEMMA Locks ==
  /\ Catalog \in Mutexes /\ Store \in Mutexes /\ Tables \subseteq Mutexes
  /\ \A t \in Tables : t # Catalog /\ t # Store
  BY LocksAssumption DEF Mutexes

LEMMA LookupNeutral ==
  ASSUME NEW held \in SUBSET Grips, NEW Inside, Takeable("r", Catalog, held, Inside)
  PROVE  Neutral(GetTable, held, Inside) /\ Neutral(GetAllTables, held, Inside)
<1>1. held \cup {<<"r", Catalog>>} \in SUBSET Grips
  BY Locks DEF Grips
<1>2. Neutral(<<>>, held \cup {<<"r", Catalog>>}, Inside)
  BY <1>1, LeadsNowhere DEF Neutral
<1>3. Neutral(RLocked(Catalog, <<>>), held, Inside)
  BY <1>2, Locks, RLockedNeutral
<1>4. QED
  BY <1>3 DEF GetTable, GetAllTables

\* With no lock held every lock is free.
LEMMA NothingHeld ==
  ASSUME NEW Inside
  PROVE  /\ {} \in SUBSET Grips
         /\ \A m \in Mutexes : Takeable("w", m, {}, Inside) /\ Takeable("r", m, {}, Inside)
         /\ Neutral(GetTable, {}, Inside) /\ Neutral(GetAllTables, {}, Inside)
         /\ Neutral(<<>>, {}, Inside)
         /\ \A m \in Mutexes : Neutral(Locked(m, <<>>), {}, Inside)
<1>1. \A m \in Mutexes : Takeable("w", m, {}, Inside) /\ Takeable("r", m, {}, Inside)
  BY DEF Takeable
<1>2. Neutral(GetTable, {}, Inside) /\ Neutral(GetAllTables, {}, Inside)
  BY <1>1, Locks, LookupNeutral
<1>3. Neutral(<<>>, {}, Inside)
  BY LeadsNowhere DEF Neutral
<1>4. ASSUME NEW m \in Mutexes PROVE Neutral(Locked(m, <<>>), {}, Inside)
  <2>1. {} \cup {<<"w", m>>} \in SUBSET Grips
    BY DEF Grips
  <2>2. Neutral(<<>>, {} \cup {<<"w", m>>}, Inside)
    BY <2>1, LeadsNowhere DEF Neutral
  <2>3. QED
    BY <1>1, <2>2, LockedNeutral
<1>5. QED
  BY <1>1, <1>2, <1>3, <1>4

LEMMA SaveNeutral ==
  ASSUME NEW t \in Tables, NEW Inside, <<Store, t>> \in Inside
  PROVE  Neutral(Save(t), {}, Inside)
<1> DEFINE one == {<<"w", Store>>}
           two == one \cup {<<"r", t>>}
<1>1. one \in SUBSET Grips /\ two \in SUBSET Grips /\ t \in Mutexes /\ Store \in Mutexes
  BY Locks DEF Grips
<1>2. Takeable("r", t, one, Inside)
  BY DEF Takeable
<1>3. Neutral(Call("read", t), two, Inside)
  BY <1>1, ReadNeutral
<1>4. Neutral(RLocked(t, Call("read", t)), one, Inside)
  BY <1>1, <1>2, <1>3, RLockedNeutral
<1>5. Takeable("w", Store, {}, Inside) /\ {} \cup {<<"w", Store>>} = one
  BY DEF Takeable
<1>6. QED
  BY <1>1, <1>4, <1>5, LockedNeutral DEF Save

\* The rows of a table are written under its lock.
LEMMA WriteAlone ==
  ASSUME NEW t \in Tables, NEW Inside
  PROVE  Neutral(Locked(t, Call("write", t)), {}, Inside)
<1> DEFINE one == {} \cup {<<"w", t>>}
<1>1. one \in SUBSET Grips /\ t \in Mutexes /\ <<"w", t>> \in one
  BY Locks DEF Grips
<1>2. Neutral(Call("write", t), one, Inside)
  BY <1>1, WriteNeutral
<1>3. QED
  BY <1>1, <1>2, NothingHeld, LockedNeutral

LEMMA InsertRowNeutral ==
  ASSUME NEW t \in Tables, NEW Inside, References[t] # {} => <<t, Catalog>> \in Inside,
         NEW write \in {Call("write", t), <<>>}
  PROVE  Neutral(InsertRow(t, write), {}, Inside)
<1> DEFINE Check(r) == GetTable \o Call("read", r)
           s == SetToSeq(References[t])
           ss == [i \in 1..Len(s) |-> Check(s[i])]
           one == {} \cup {<<"w", t>>}
<1>1. one \in SUBSET Grips /\ t \in Mutexes /\ t # Store /\ t # Catalog
  BY Locks DEF Grips
<1>2. IsFiniteSet(References[t]) /\ References[t] \subseteq Tables
  <2>1. References[t] \subseteq Tables
    BY ReferencesAssumption, KeyedAssumption
  <2>2. QED
    BY <2>1, TablesAssumption, FS_Subset
<1>3. ASSUME NEW r \in References[t] PROVE Neutral(Check(r), one, Inside)
  <2>1. Takeable("r", Catalog, one, Inside)
    BY DEF Takeable
  <2>2. Neutral(GetTable, one, Inside)
    BY <1>1, <2>1, LookupNeutral
  <2>3. r \in Mutexes /\ <<"w", Store>> \notin one
    BY <1>1, <1>2, Locks
  <2>4. Neutral(Call("read", r), one, Inside)
    BY <1>1, <2>3, ReadNeutral
  <2>5. QED
    BY <2>2, <2>4, NeutralThrough
<1>4. Len(s) \in Nat /\ \A i \in 1..Len(s) : s[i] \in References[t]
  BY <1>2, InOrder
<1>5. Neutral(FlattenSeq(ss), one, Inside)
  <2>1. \A i \in 1..Len(s) : Neutral(ss[i], one, Inside)
    BY <1>3, <1>4
  <2>2. ss = [i \in 1..Len(s) |-> ss[i]]
    OBVIOUS
  <2> HIDE DEF ss, s, one
  <2>3. QED
    BY <1>1, <1>4, <2>1, <2>2, EachNeutral
<1>6. Neutral(write, one, Inside)
  <2>1. CASE write = <<>>
    BY <1>1, <2>1, LeadsNowhere DEF Neutral
  <2>2. CASE write = Call("write", t)
    BY <1>1, <2>2, WriteNeutral
  <2>3. QED
    BY <2>1, <2>2
<1>7. Neutral(FlattenSeq(ss) \o write, one, Inside)
  BY <1>5, <1>6, NeutralThrough
<1>8. InsertRow(t, write) = Locked(t, FlattenSeq(ss) \o write)
  BY DEF InsertRow, Each
<1> HIDE DEF ss
<1>9. QED
  BY <1>1, <1>7, <1>8, NothingHeld, LockedNeutral

LEMMA InsertNeutral ==
  ASSUME NEW t \in Tables, NEW Inside, Allows("insert", t, Inside), NEW p \in Insert(t)
  PROVE  Neutral(p, {}, Inside)
<1>1. /\ Neutral(InsertRow(t, Call("write", t)), {}, Inside)
      /\ Neutral(InsertRow(t, <<>>), {}, Inside)
  BY InsertRowNeutral DEF Allows
<1>2. Neutral(Save(t), {}, Inside) /\ Neutral(GetTable, {}, Inside)
  BY SaveNeutral, NothingHeld DEF Allows
<1>3. QED
  BY <1>1, <1>2, NeutralThrough DEF Insert

LEMMA UpdateNeutral ==
  ASSUME NEW t \in Tables, NEW Inside, Allows("update", t, Inside), NEW p \in Update(t)
  PROVE  Neutral(p, {}, Inside)
<1> DEFINE Check(r) == GetTable \o RLocked(r, Call("read", r))
           s == SetToSeq(References[t])
           ss == [i \in 1..Len(s) |-> Check(s[i])]
<1>1. IsFiniteSet(References[t]) /\ References[t] \subseteq Tables
  <2>1. References[t] \subseteq Tables
    BY ReferencesAssumption, KeyedAssumption
  <2>2. QED
    BY <2>1, TablesAssumption, FS_Subset
<1>2. ASSUME NEW r \in References[t] PROVE Neutral(Check(r), {}, Inside)
  <2> DEFINE one == {} \cup {<<"r", r>>}
  <2>1. r \in Mutexes /\ one \in SUBSET Grips /\ <<"w", Store>> \notin one
    BY <1>1, Locks DEF Grips
  <2>2. Neutral(Call("read", r), one, Inside)
    BY <2>1, ReadNeutral
  <2>3. Neutral(RLocked(r, Call("read", r)), {}, Inside)
    BY <2>1, <2>2, NothingHeld, RLockedNeutral
  <2>4. QED
    BY <2>3, NothingHeld, NeutralThrough
<1>3. Len(s) \in Nat /\ \A i \in 1..Len(s) : s[i] \in References[t]
  BY <1>1, InOrder
<1>4. Neutral(FlattenSeq(ss), {}, Inside)
  <2>1. \A i \in 1..Len(s) : Neutral(ss[i], {}, Inside)
    BY <1>2, <1>3
  <2>2. ss = [i \in 1..Len(s) |-> ss[i]]
    OBVIOUS
  <2> HIDE DEF ss, s
  <2>3. QED
    BY <1>3, <2>1, <2>2, NothingHeld, EachNeutral
<1>5. Neutral(GetTable \o FlattenSeq(ss), {}, Inside)
  BY <1>4, NothingHeld, NeutralThrough
<1>6. Neutral(Locked(t, Call("write", t)), {}, Inside) /\ Neutral(Save(t), {}, Inside)
  BY WriteAlone, SaveNeutral DEF Allows
<1>7. p \in { GetTable \o FlattenSeq(ss) \o Locked(t, Call("write", t))
                \o Locked(t, Call("write", t)) \o Save(t),
              GetTable \o FlattenSeq(ss) }
  BY DEF Update, Each
<1> HIDE DEF ss
<1>8. QED
  BY <1>5, <1>6, <1>7, NeutralThrough

\* What DELETE holds while it checks.
LEMMA CheckNeutral ==
  ASSUME NEW t \in Tables, NEW Inside, Allows("delete", t, Inside), t \in Keyed,
         NEW s \in Referencing(t), NEW last
  PROVE  Neutral(CheckReferences(s, last), {<<"w", t>>}, Inside)
<1> DEFINE one == {<<"w", t>>}
           two == one \cup {<<"r", s>>}
<1>1. /\ s \in Mutexes /\ one \in SUBSET Grips /\ two \in SUBSET Grips
      /\ <<"w", Store>> \notin two /\ <<t, s>> \in Inside
  BY Locks DEF Grips, Referencing, Allows
<1>2. Neutral(Call("read", s), two, Inside)
  BY <1>1, ReadNeutral
<1>3. Takeable("r", s, one, Inside)
  BY <1>1 DEF Takeable
<1>4. QED
  BY <1>1, <1>2, <1>3, RLockedNeutral DEF CheckReferences

LEMMA ChecksNeutral ==
  ASSUME NEW t \in Tables, NEW Inside, Allows("delete", t, Inside), t \in Keyed,
         NEW check \in Checked(t) \cup Refused(t)
  PROVE  Neutral(check, {<<"w", t>>}, Inside)
<1> DEFINE one == {<<"w", t>>}
           Clear(s) == CheckReferences(s, FALSE)
           Parts(s) == [i \in 1..Len(s) |-> Clear(s[i])]
<1>1. one \in SUBSET Grips
  BY Locks DEF Grips
<1>2. Neutral(GetAllTables, one, Inside)
  <2>1. Takeable("r", Catalog, one, Inside)
    BY DEF Takeable, Allows
  <2>2. QED
    BY <1>1, <2>1, LookupNeutral
<1>3. Referencing(t) \subseteq Tables /\ IsFiniteSet(Referencing(t))
  <2>1. Referencing(t) \subseteq Tables
    BY DEF Referencing
  <2>2. QED
    BY <2>1, TablesAssumption, FS_Subset
<1>4. ASSUME NEW s \in Seq(Referencing(t)) PROVE Neutral(FlattenSeq(Parts(s)), one, Inside)
  <2>1. Len(s) \in Nat /\ \A i \in 1..Len(s) : s[i] \in Referencing(t)
    OBVIOUS
  <2>2. \A i \in 1..Len(s) : Neutral(Clear(s[i]), one, Inside)
    BY <2>1, CheckNeutral
  <2>3. PICK ss : ss = Parts(s)
    OBVIOUS
  <2>4. ss = [i \in 1..Len(s) |-> ss[i]] /\ \A i \in 1..Len(s) : Neutral(ss[i], one, Inside)
    BY <2>2, <2>3
  <2> HIDE DEF Parts, one
  <2>5. Neutral(FlattenSeq(ss), one, Inside)
    BY <1>1, <2>1, <2>4, EachNeutral
  <2>6. QED
    BY <2>3, <2>5
<1>5. CASE check \in Checked(t)
  <2>1. PICK s \in SetToSeqs(Referencing(t)) : check = GetAllTables \o FlattenSeq(Parts(s))
    BY <1>5 DEF Checked, Each
  <2>2. s \in Seq(Referencing(t))
    BY <1>3, InOrder
  <2> HIDE DEF Parts, one
  <2>3. QED
    BY <1>2, <1>4, <2>1, <2>2, NeutralThrough DEF one
<1>6. CASE check \in Refused(t)
  <2>0. PICK S \in SUBSET Referencing(t) :
          /\ S # {}
          /\ \E s \in SetToSeqs(S) :
               check = GetAllTables \o FlattenSeq(Parts(Front(s)))
                         \o CheckReferences(Last(s), TRUE)
    <3>1. PICK s \in UNION {SetToSeqs(S) : S \in (SUBSET Referencing(t)) \ {{}}} :
            check = GetAllTables \o FlattenSeq(Parts(Front(s))) \o CheckReferences(Last(s), TRUE)
      BY <1>6, Zenon DEF Refused, Each
    <3>2. PICK S \in (SUBSET Referencing(t)) \ {{}} : s \in SetToSeqs(S)
      OBVIOUS
    <3>3. S \in SUBSET Referencing(t) /\ S # {}
      OBVIOUS
    <3> HIDE DEF Parts
    <3>4. QED
      BY <3>1, <3>2, <3>3, Zenon
  <2>1. PICK s \in SetToSeqs(S) :
          check = GetAllTables \o FlattenSeq(Parts(Front(s))) \o CheckReferences(Last(s), TRUE)
    BY <2>0
  <2>2. IsFiniteSet(S)
    BY <1>3, FS_Subset
  <2>3. s \in Seq(S) /\ Len(s) = Cardinality(S) /\ Cardinality(S) \in Nat /\ Cardinality(S) # 0
    BY <2>0, <2>1, <2>2, InOrder, FS_CardinalityType, FS_EmptySet
  <2>4. s \in Seq(Referencing(t)) /\ Len(s) \in 1..Len(s)
    BY <2>3
  <2>5. Front(s) \in Seq(Referencing(t)) /\ Last(s) \in Referencing(t)
    BY <2>4 DEF Front, Last
  <2>6. Neutral(CheckReferences(Last(s), TRUE), one, Inside)
    BY <2>5, CheckNeutral
  <2> HIDE DEF Parts, one
  <2>7. Neutral(GetAllTables \o FlattenSeq(Parts(Front(s))), one, Inside)
    BY <1>2, <1>4, <2>5, NeutralThrough
  <2>8. QED
    BY <2>1, <2>6, <2>7, NeutralThrough DEF one
<1>7. QED
  BY <1>5, <1>6

LEMMA DeleteNeutral ==
  ASSUME NEW t \in Tables, NEW Inside, Allows("delete", t, Inside), NEW p \in Delete(t)
  PROVE  Neutral(p, {}, Inside)
<1> DEFINE one == {<<"w", t>>}
           Fine == {check \in {<<>>} \cup Checked(t) \cup Refused(t) :
                      check = <<>> \/ t \in Keyed}
<1>1. one \in SUBSET Grips /\ t \in Mutexes /\ one = {} \cup {<<"w", t>>}
  BY Locks DEF Grips
<1>2. ASSUME NEW check \in Fine
      PROVE  /\ Neutral(Locked(t, check), {}, Inside)
             /\ Neutral(Locked(t, check \o Call("write", t)), {}, Inside)
  <2>1. Neutral(check, one, Inside)
    <3>1. CASE check = <<>>
      BY <1>1, <3>1, LeadsNowhere DEF Neutral
    <3>2. CASE check # <<>>
      BY <3>2, ChecksNeutral
    <3>3. QED
      BY <3>1, <3>2
  <2>2. Neutral(check \o Call("write", t), one, Inside)
    <3>1. Neutral(Call("write", t), one, Inside)
      BY <1>1, WriteNeutral
    <3>2. QED
      BY <2>1, <3>1, NeutralThrough
  <2> HIDE DEF Fine
  <2>3. QED
    BY <1>1, <2>1, <2>2, NothingHeld, LockedNeutral
<1>3. /\ Neutral(GetTable, {}, Inside) /\ Neutral(Save(t), {}, Inside)
      /\ Neutral(Locked(t, Call("write", t)), {}, Inside)
  BY NothingHeld, SaveNeutral, WriteAlone DEF Allows
<1>4. \/ \E check \in Fine :
           p = GetTable \o Locked(t, check \o Call("write", t)) \o Locked(t, Call("write", t))
                 \o Save(t)
      \/ \E check \in Fine : p = GetTable \o Locked(t, check)
  BY DEF Delete
<1> HIDE DEF Fine
<1>5. ASSUME NEW check \in Fine,
             p = GetTable \o Locked(t, check \o Call("write", t)) \o Locked(t, Call("write", t))
                   \o Save(t)
      PROVE  Neutral(p, {}, Inside)
  BY <1>2, <1>3, <1>5, NeutralThrough
<1>6. ASSUME NEW check \in Fine, p = GetTable \o Locked(t, check)
      PROVE  Neutral(p, {}, Inside)
  BY <1>2, <1>3, <1>6, NeutralThrough
<1>7. QED
  BY <1>4, <1>5, <1>6

\* The catalog's lock with the table's lock inside it.
LEMMA ChangeNeutral ==
  ASSUME NEW t \in Tables, NEW Inside, <<Catalog, t>> \in Inside
  PROVE  Neutral(Locked(Catalog, Locked(t, Call("write", t))), {}, Inside)
<1> DEFINE one == {<<"w", Catalog>>}
           two == one \cup {<<"w", t>>}
<1>1. /\ one \in SUBSET Grips /\ two \in SUBSET Grips /\ t \in Mutexes /\ t # Catalog
      /\ Catalog \in Mutexes /\ one = {} \cup {<<"w", Catalog>>} /\ <<"w", t>> \in two
  BY Locks DEF Grips
<1>2. Neutral(Call("write", t), two, Inside)
  BY <1>1, WriteNeutral
<1>3. Takeable("w", t, one, Inside)
  BY <1>1 DEF Takeable
<1>4. Neutral(Locked(t, Call("write", t)), one, Inside)
  BY <1>1, <1>2, <1>3, LockedNeutral
<1>5. QED
  BY <1>1, <1>4, NothingHeld, LockedNeutral

LEMMA OtherNeutral ==
  ASSUME NEW kind \in {"select", "createTable", "createIndex", "renameColumn", "dropColumn",
                       "dropTable"},
         NEW t \in Tables, NEW Inside, Allows(kind, t, Inside), NEW p \in Plans(kind, t)
  PROVE  Neutral(p, {}, Inside)
<1>1. /\ Neutral(GetTable, {}, Inside) /\ Neutral(GetAllTables, {}, Inside)
      /\ Neutral(Locked(Catalog, <<>>), {}, Inside) /\ Neutral(Locked(Store, <<>>), {}, Inside)
  BY NothingHeld, Locks
<1>2. kind \notin {"select", "dropTable"} => Neutral(Save(t), {}, Inside)
  BY SaveNeutral DEF Allows
<1>3. kind \in {"createIndex", "renameColumn", "dropColumn"} =>
        Neutral(Locked(Catalog, Locked(t, Call("write", t))), {}, Inside)
  BY ChangeNeutral DEF Allows
<1>4. CASE kind = "select"
  <2> DEFINE one == {} \cup {<<"r", t>>}
  <2>1. t \in Mutexes /\ one \in SUBSET Grips /\ <<"w", Store>> \notin one
    BY Locks DEF Grips
  <2>2. Neutral(Call("read", t), one, Inside)
    BY <2>1, ReadNeutral
  <2>3. Neutral(RLocked(t, Call("read", t)), {}, Inside)
    BY <2>1, <2>2, NothingHeld, RLockedNeutral
  <2>4. p = GetTable \o RLocked(t, Call("read", t))
    BY <1>4 DEF Plans, Select
  <2>5. QED
    BY <1>1, <2>3, <2>4, NeutralThrough
<1>5. CASE kind = "createTable"
  <2>1. p = Locked(Catalog, <<>>) \o GetTable \o Save(t)
    BY <1>5 DEF Plans, CreateTable
  <2>2. QED
    BY <1>1, <1>2, <1>5, <2>1, NeutralThrough
<1>6. CASE kind = "createIndex"
  <2>1. p = Locked(Catalog, Locked(t, Call("write", t))) \o GetTable \o Save(t)
    BY <1>6 DEF Plans, CreateIndex
  <2>2. QED
    BY <1>1, <1>2, <1>3, <1>6, <2>1, NeutralThrough
<1>7. CASE kind = "renameColumn"
  <2>1. p = Locked(Catalog, Locked(t, Call("write", t))) \o GetTable \o Save(t)
              \o Locked(Store, <<>>)
    BY <1>7 DEF Plans, RenameColumn
  <2>2. QED
    BY <1>1, <1>2, <1>3, <1>7, <2>1, NeutralThrough
<1>8. CASE kind = "dropColumn"
  <2>1. p = GetAllTables \o Locked(Catalog, Locked(t, Call("write", t)))
              \o GetTable \o Save(t) \o Locked(Store, <<>>)
    BY <1>8 DEF Plans, DropColumn
  <2>2. QED
    BY <1>1, <1>2, <1>3, <1>8, <2>1, NeutralThrough
<1>9. CASE kind = "dropTable"
  <2>1. p = GetTable \o GetAllTables \o Locked(Catalog, <<>>) \o Locked(Store, <<>>)
    BY <1>9 DEF Plans, DropTable
  <2>2. QED
    BY <1>1, <2>1, NeutralThrough
<1>10. QED
  BY <1>4, <1>5, <1>6, <1>7, <1>8, <1>9

\* Every statement takes its locks in the order allowed and returns them.
LEMMA PlansNeutral ==
  ASSUME NEW kind \in StatementKinds, NEW t \in Tables, NEW Inside, Allows(kind, t, Inside),
         NEW p \in Plans(kind, t)
  PROVE  Leads(p, {}, {}, Inside)
<1>1. CASE kind = "insert"
  <2>1. p \in Insert(t)
    BY <1>1 DEF Plans
  <2>2. QED
    BY <1>1, <2>1, InsertNeutral DEF Neutral
<1>2. CASE kind = "update"
  <2>1. p \in Update(t)
    BY <1>2 DEF Plans
  <2>2. QED
    BY <1>2, <2>1, UpdateNeutral DEF Neutral
<1>3. CASE kind = "delete"
  <2>1. p \in Delete(t)
    BY <1>3 DEF Plans
  <2>2. QED
    BY <1>3, <2>1, DeleteNeutral DEF Neutral
<1>4. CASE kind \notin {"insert", "update", "delete"}
  BY <1>4, OtherNeutral DEF Neutral, StatementKinds
<1>5. QED
  BY <1>1, <1>2, <1>3, <1>4

----------------------------------------------------------------------------
(* The invariant                                                           *)

\* What client c holds of the locks whose writers are w and whose readers r.
HeldIn(w, r, c) == {x \in Grips : IF x[1] = "w" THEN w[x[2]] = c ELSE c \in r[x[2]]}

LockTypes ==
  /\ plan \in [Clients -> Seq(Steps)]
  /\ pending \in [Mutexes -> Clients \cup {Nobody}]
  /\ writer \in [Mutexes -> Clients \cup {Nobody}]
  /\ readers \in [Mutexes -> SUBSET Clients]

\* A writer is alone, and a writer that has announced itself still waits.
Exclusion ==
  \A m \in Mutexes :
    /\ writer[m] # Nobody => readers[m] = {} /\ pending[m] = Nobody
    /\ pending[m] # Nobody => Calls(pending[m], "Lock", m)

\* What is left of each statement returns the locks it holds, in order.
LockInv(Inside) ==
  /\ LockTypes
  /\ Exclusion
  /\ \A c \in Clients : Leads(plan[c], HeldIn(writer, readers, c), {}, Inside)

\* The workload keeps to the order.
WorkAllows(Inside) ==
  \A kind \in StatementKinds, t \in Tables : <<kind, t>> \in Workload => Allows(kind, t, Inside)

\* A statement that has ended holds nothing.
LEMMA EndedHoldsNothing ==
  ASSUME NEW held, NEW Inside, Leads(<<>>, held, {}, Inside)
  PROVE  held = {}
<1>1. PICK path : path[1] = held /\ path[Len(<<>>) + 1] = {}
  BY DEF Leads
<1>2. Len(<<>>) + 1 = 1
  BY EmptySeq
<1>3. QED
  BY <1>1, <1>2

\* A call that may be made takes and returns nothing but its own lock.
LEMMA CallMade ==
  ASSUME NEW Inside, LockInv(Inside), NEW c \in Clients, NEW op, NEW m, Calls(c, op, m)
  PROVE  /\ op \in Ops /\ m \in Mutexes /\ plan[c] # <<>>
         /\ Head(plan[c]) = [op |-> op, on |-> m]
         /\ Head(plan[c]).op = op /\ Head(plan[c]).on = m
         /\ Legal([op |-> op, on |-> m], HeldIn(writer, readers, c), Inside)
         /\ Leads(Tail(plan[c]), After([op |-> op, on |-> m], HeldIn(writer, readers, c)),
                  {}, Inside)
<1>1. plan[c] # <<>> /\ Head(plan[c]) = [op |-> op, on |-> m]
  BY DEF Calls
<1>2. Leads(plan[c], HeldIn(writer, readers, c), {}, Inside)
  BY DEF LockInv
<1>3. /\ Head(plan[c]) \in Steps /\ Legal(Head(plan[c]), HeldIn(writer, readers, c), Inside)
      /\ Leads(Tail(plan[c]), After(Head(plan[c]), HeldIn(writer, readers, c)), {}, Inside)
  BY <1>1, <1>2, LeadsOn
<1>4. op \in Ops /\ m \in Mutexes
  BY <1>1, <1>3 DEF Steps
<1>5. QED
  BY <1>1, <1>3, <1>4

\* The steps that return from a call.
LEMMA ReturnKeeps ==
  ASSUME NEW Inside, LockInv(Inside), NEW c \in Clients, NEW op, NEW m,
         Calls(c, op, m), Return(c),
         HeldIn(writer', readers', c) = After([op |-> op, on |-> m], HeldIn(writer, readers, c)),
         \A d \in Clients \ {c} : HeldIn(writer', readers', d) = HeldIn(writer, readers, d)
  PROVE  /\ plan' \in [Clients -> Seq(Steps)]
         /\ \A d \in Clients : Leads(plan'[d], HeldIn(writer', readers', d), {}, Inside)
         /\ \A d \in Clients \ {c} : plan'[d] = plan[d]
<1>1. /\ Leads(Tail(plan[c]), HeldIn(writer', readers', c), {}, Inside)
      /\ Tail(plan[c]) \in Seq(Steps)
  <2>1. Leads(Tail(plan[c]), HeldIn(writer', readers', c), {}, Inside)
    BY CallMade
  <2>2. QED
    BY <2>1 DEF Leads
<1>2. plan \in [Clients -> Seq(Steps)] /\ plan' = [plan EXCEPT ![c] = Tail(plan[c])]
  BY DEF LockInv, LockTypes, Return
<1>3. plan' \in [Clients -> Seq(Steps)] /\ plan'[c] = Tail(plan[c])
      /\ \A d \in Clients \ {c} : plan'[d] = plan[d]
  BY <1>1, <1>2
<1>4. \A d \in Clients : Leads(plan[d], HeldIn(writer, readers, d), {}, Inside)
  BY DEF LockInv
<1>5. ASSUME NEW d \in Clients PROVE Leads(plan'[d], HeldIn(writer', readers', d), {}, Inside)
  <2>1. CASE d = c
    BY <1>1, <1>3, <2>1
  <2>2. CASE d # c
    BY <1>3, <1>4, <2>2
  <2>3. QED
    BY <2>1, <2>2
<1>6. QED
  BY <1>3, <1>5

\* A client that waits on a lock it has announced itself on stands at that call.
LEMMA ExclusionKept ==
  ASSUME NEW Inside, LockInv(Inside), NEW c \in Clients, LockTypes',
         \A d \in Clients \ {c} : plan'[d] = plan[d],
         \A m \in Mutexes : writer'[m] # Nobody => readers'[m] = {} /\ pending'[m] = Nobody,
         \A m \in Mutexes : pending'[m] # Nobody => pending'[m] = pending[m] /\ pending[m] # c
  PROVE  Exclusion'
<1>1. ASSUME NEW m \in Mutexes, pending'[m] # Nobody
      PROVE  plan'[pending'[m]] # <<>> /\ Head(plan'[pending'[m]]) = [op |-> "Lock", on |-> m]
  <2>1. pending'[m] = pending[m] /\ pending[m] \in Clients \ {c} /\ pending[m] # Nobody
    BY <1>1 DEF LockInv, LockTypes
  <2>2. Calls(pending[m], "Lock", m)
    BY <2>1 DEF LockInv, Exclusion
  <2>3. plan'[pending[m]] = plan[pending[m]]
    BY <2>1
  <2>4. QED
    BY <2>1, <2>2, <2>3 DEF Calls
<1>2. QED
  BY <1>1 DEF Exclusion, Calls

LEMMA StartKeeps ==
  ASSUME NEW Inside, WorkAllows(Inside), LockInv(Inside), NEW c \in Clients, Start(c)
  PROVE  LockInv(Inside)'
<1>1. PICK w \in Workload : \E p \in Plans(w[1], w[2]) : plan' = [plan EXCEPT ![c] = p]
  BY DEF Start
<1>2. PICK p \in Plans(w[1], w[2]) : plan' = [plan EXCEPT ![c] = p]
  BY <1>1
<1>3. w[1] \in StatementKinds /\ w[2] \in Tables /\ <<w[1], w[2]>> \in Workload
  BY WorkloadAssumption
<1>4. Allows(w[1], w[2], Inside)
  BY <1>3 DEF WorkAllows
<1>5. Leads(p, {}, {}, Inside)
  BY <1>2, <1>3, <1>4, PlansNeutral
<1>6. p \in Seq(Steps)
  BY <1>5 DEF Leads
<1>7. LockTypes /\ pending' = pending /\ writer' = writer /\ readers' = readers
  BY DEF LockInv, Start, locks
<1>8. /\ plan' \in [Clients -> Seq(Steps)] /\ plan'[c] = p
      /\ \A d \in Clients \ {c} : plan'[d] = plan[d]
  BY <1>2, <1>6, <1>7 DEF LockTypes
<1>9. plan[c] = <<>> /\ \A d \in Clients : Leads(plan[d], HeldIn(writer, readers, d), {}, Inside)
  BY DEF Start, LockInv
<1>10. HeldIn(writer, readers, c) = {}
  BY <1>9, EndedHoldsNothing
<1>11. ASSUME NEW d \in Clients PROVE Leads(plan'[d], HeldIn(writer', readers', d), {}, Inside)
  <2>1. CASE d = c
    BY <1>5, <1>7, <1>8, <1>10, <2>1
  <2>2. CASE d # c
    BY <1>7, <1>8, <1>9, <2>2
  <2>3. QED
    BY <2>1, <2>2
<1>12. LockTypes'
  BY <1>7, <1>8 DEF LockTypes
<1>13. \A m \in Mutexes : pending[m] # c
  <2>1. SUFFICES ASSUME NEW m \in Mutexes, pending[m] = c PROVE FALSE
    OBVIOUS
  <2>2. Calls(c, "Lock", m)
    BY <2>1, NobodyAssumption DEF LockInv, Exclusion
  <2>3. QED
    BY <1>9, <2>2 DEF Calls
<1>14. Exclusion'
  <2>1. \A m \in Mutexes : writer'[m] # Nobody => readers'[m] = {} /\ pending'[m] = Nobody
    BY <1>7 DEF LockInv, Exclusion
  <2>2. \A m \in Mutexes : pending'[m] # Nobody => pending'[m] = pending[m] /\ pending[m] # c
    BY <1>7, <1>13
  <2>3. QED
    BY <1>8, <1>12, <2>1, <2>2, ExclusionKept
<1>15. QED
  BY <1>11, <1>12, <1>14 DEF LockInv

LEMMA AnnounceKeeps ==
  ASSUME NEW Inside, LockInv(Inside), NEW c \in Clients, NEW m \in Mutexes, Announce(c, m)
  PROVE  LockInv(Inside)'
<1>1. /\ LockTypes /\ plan' = plan /\ writer' = writer /\ readers' = readers
      /\ pending' = [pending EXCEPT ![m] = c]
      /\ writer[m] = Nobody /\ Calls(c, "Lock", m)
  BY DEF LockInv, Announce
<1>2. LockTypes' /\ pending'[m] = c /\ \A n \in Mutexes \ {m} : pending'[n] = pending[n]
  BY <1>1 DEF LockTypes
<1>3. ASSUME NEW n \in Mutexes
      PROVE  /\ writer'[n] # Nobody => readers'[n] = {} /\ pending'[n] = Nobody
             /\ pending'[n] # Nobody =>
                  /\ plan'[pending'[n]] # <<>>
                  /\ Head(plan'[pending'[n]]) = [op |-> "Lock", on |-> n]
  <2>1. CASE n = m
    BY <1>1, <1>2, <2>1 DEF Calls
  <2>2. CASE n # m
    BY <1>1, <1>2, <2>2 DEF LockInv, Exclusion, Calls
  <2>3. QED
    BY <2>1, <2>2
<1>4. Exclusion'
  BY <1>3 DEF Exclusion, Calls
<1>5. \A d \in Clients : Leads(plan'[d], HeldIn(writer', readers', d), {}, Inside)
  BY <1>1 DEF LockInv
<1>6. QED
  BY <1>2, <1>4, <1>5 DEF LockInv

\* How each call changes what the clients hold.
LEMMA LockMoves ==
  ASSUME LockTypes, NEW m \in Mutexes, NEW c \in Clients, Lock(c, m), writer[m] = Nobody
  PROVE  /\ HeldIn(writer', readers', c) = HeldIn(writer, readers, c) \cup {<<"w", m>>}
         /\ \A d \in Clients \ {c} : HeldIn(writer', readers', d) = HeldIn(writer, readers, d)
<1>1. readers' = readers /\ \A n \in Mutexes : writer'[n] = IF n = m THEN c ELSE writer[n]
  BY DEF LockTypes, Lock
<1>2. \A x \in Grips : x[1] \in {"w", "r"} /\ x[2] \in Mutexes /\ x = <<x[1], x[2]>>
  BY DEF Grips
<1>3. <<"w", m>> \in Grips
  BY DEF Grips
<1>4. QED
  BY <1>1, <1>2, <1>3, NobodyAssumption DEF HeldIn

LEMMA UnlockMoves ==
  ASSUME LockTypes, NEW m \in Mutexes, NEW c \in Clients, Unlock(c, m), writer[m] = c
  PROVE  /\ HeldIn(writer', readers', c) = HeldIn(writer, readers, c) \ {<<"w", m>>}
         /\ \A d \in Clients \ {c} : HeldIn(writer', readers', d) = HeldIn(writer, readers, d)
<1>1. readers' = readers /\ \A n \in Mutexes : writer'[n] = IF n = m THEN Nobody ELSE writer[n]
  BY DEF LockTypes, Unlock
<1>2. \A x \in Grips : x[1] \in {"w", "r"} /\ x[2] \in Mutexes /\ x = <<x[1], x[2]>>
  BY DEF Grips
<1>3. <<"w", m>> \in Grips
  BY DEF Grips
<1>4. QED
  BY <1>1, <1>2, <1>3, NobodyAssumption DEF HeldIn

LEMMA RLockMoves ==
  ASSUME LockTypes, NEW m \in Mutexes, NEW c \in Clients, RLock(c, m)
  PROVE  /\ HeldIn(writer', readers', c) = HeldIn(writer, readers, c) \cup {<<"r", m>>}
         /\ \A d \in Clients \ {c} : HeldIn(writer', readers', d) = HeldIn(writer, readers, d)
<1>1. writer' = writer /\ \A n \in Mutexes : readers'[n] = IF n = m THEN readers[n] \cup {c}
                                                          ELSE readers[n]
  BY DEF LockTypes, RLock
<1>2. \A x \in Grips : x[1] \in {"w", "r"} /\ x[2] \in Mutexes /\ x = <<x[1], x[2]>>
  BY DEF Grips
<1>3. <<"r", m>> \in Grips
  BY DEF Grips
<1>4. QED
  BY <1>1, <1>2, <1>3 DEF HeldIn

LEMMA RUnlockMoves ==
  ASSUME LockTypes, NEW m \in Mutexes, NEW c \in Clients, RUnlock(c, m)
  PROVE  /\ HeldIn(writer', readers', c) = HeldIn(writer, readers, c) \ {<<"r", m>>}
         /\ \A d \in Clients \ {c} : HeldIn(writer', readers', d) = HeldIn(writer, readers, d)
<1>1. writer' = writer /\ \A n \in Mutexes : readers'[n] = IF n = m THEN readers[n] \ {c}
                                                          ELSE readers[n]
  BY DEF LockTypes, RUnlock
<1>2. \A x \in Grips : x[1] \in {"w", "r"} /\ x[2] \in Mutexes /\ x = <<x[1], x[2]>>
  BY DEF Grips
<1>3. <<"r", m>> \in Grips
  BY DEF Grips
<1>4. QED
  BY <1>1, <1>2, <1>3 DEF HeldIn

LEMMA LockKeeps ==
  ASSUME NEW Inside, LockInv(Inside), NEW c \in Clients, NEW m \in Mutexes, Lock(c, m)
  PROVE  LockInv(Inside)'
<1>1. /\ LockTypes /\ Calls(c, "Lock", m) /\ Return(c) /\ readers' = readers
      /\ pending[m] = c /\ readers[m] = {} /\ c # Nobody
      /\ pending' = [pending EXCEPT ![m] = Nobody] /\ writer' = [writer EXCEPT ![m] = c]
  BY NobodyAssumption DEF LockInv, Lock
<1>2. writer[m] = Nobody
  BY <1>1 DEF LockInv, Exclusion
<1>3. /\ pending' \in [Mutexes -> Clients \cup {Nobody}]
      /\ writer' \in [Mutexes -> Clients \cup {Nobody}]
      /\ readers' \in [Mutexes -> SUBSET Clients]
      /\ pending'[m] = Nobody /\ writer'[m] = c
      /\ \A n \in Mutexes \ {m} : pending'[n] = pending[n] /\ writer'[n] = writer[n]
  BY <1>1 DEF LockTypes
<1>4. HeldIn(writer', readers', c) = After([op |-> "Lock", on |-> m], HeldIn(writer, readers, c))
  BY <1>1, <1>2, LockMoves DEF After
<1>5. \A d \in Clients \ {c} : HeldIn(writer', readers', d) = HeldIn(writer, readers, d)
  BY <1>1, <1>2, LockMoves
<1>6. /\ plan' \in [Clients -> Seq(Steps)]
      /\ \A d \in Clients : Leads(plan'[d], HeldIn(writer', readers', d), {}, Inside)
      /\ \A d \in Clients \ {c} : plan'[d] = plan[d]
  BY <1>1, <1>4, <1>5, ReturnKeeps
<1>7. LockTypes'
  BY <1>3, <1>6 DEF LockTypes
<1>8. ASSUME NEW n \in Mutexes
      PROVE  /\ writer'[n] # Nobody => readers'[n] = {} /\ pending'[n] = Nobody
             /\ pending'[n] # Nobody => pending'[n] = pending[n] /\ pending[n] # c
  <2>1. CASE n = m
    BY <1>1, <1>3, <2>1
  <2>2. CASE n # m
    <3>1. pending[n] = c => FALSE
      <4>1. pending[n] = c => Calls(c, "Lock", n)
        BY <1>1 DEF LockInv, Exclusion
      <4>2. Calls(c, "Lock", n) => n = m
        BY <1>1 DEF Calls
      <4>3. QED
        BY <2>2, <4>1, <4>2
    <3>2. QED
      BY <1>1, <1>3, <2>2, <3>1 DEF LockInv, Exclusion
  <2>3. QED
    BY <2>1, <2>2
<1>9. Exclusion'
  BY <1>6, <1>7, <1>8, ExclusionKept
<1>10. QED
  BY <1>6, <1>7, <1>9 DEF LockInv

\* The other calls announce nobody and take nobody's announcement back.
LEMMA OthersWait ==
  ASSUME NEW Inside, LockInv(Inside), NEW c \in Clients, NEW op, NEW m,
         Calls(c, op, m), op # "Lock"
  PROVE  \A n \in Mutexes : pending[n] # c
<1>1. SUFFICES ASSUME NEW n \in Mutexes, pending[n] = c PROVE FALSE
  OBVIOUS
<1>2. Calls(c, "Lock", n)
  BY <1>1, NobodyAssumption DEF LockInv, Exclusion
<1>3. QED
  BY <1>2 DEF Calls

LEMMA UnlockKeeps ==
  ASSUME NEW Inside, LockInv(Inside), NEW c \in Clients, NEW m \in Mutexes, Unlock(c, m)
  PROVE  LockInv(Inside)'
<1>1. /\ LockTypes /\ Calls(c, "Unlock", m) /\ Return(c)
      /\ readers' = readers /\ pending' = pending
      /\ writer' = [writer EXCEPT ![m] = Nobody] /\ c # Nobody
  BY NobodyAssumption DEF LockInv, Unlock
<1>2. writer[m] = c
  <2>1. <<"w", m>> \in HeldIn(writer, readers, c)
    BY <1>1, CallMade DEF Legal
  <2>2. QED
    BY <2>1 DEF HeldIn
<1>3. /\ writer' \in [Mutexes -> Clients \cup {Nobody}]
      /\ writer'[m] = Nobody /\ \A n \in Mutexes \ {m} : writer'[n] = writer[n]
  BY <1>1 DEF LockTypes
<1>4. HeldIn(writer', readers', c) = After([op |-> "Unlock", on |-> m], HeldIn(writer, readers, c))
  BY <1>1, <1>2, UnlockMoves DEF After
<1>5. \A d \in Clients \ {c} : HeldIn(writer', readers', d) = HeldIn(writer, readers, d)
  BY <1>1, <1>2, UnlockMoves
<1>6. /\ plan' \in [Clients -> Seq(Steps)]
      /\ \A d \in Clients : Leads(plan'[d], HeldIn(writer', readers', d), {}, Inside)
      /\ \A d \in Clients \ {c} : plan'[d] = plan[d]
  BY <1>1, <1>4, <1>5, ReturnKeeps
<1>7. LockTypes'
  BY <1>1, <1>3, <1>6 DEF LockTypes
<1>8. \A n \in Mutexes : writer'[n] # Nobody => readers'[n] = {} /\ pending'[n] = Nobody
  BY <1>1, <1>3 DEF LockInv, Exclusion
<1>9. \A n \in Mutexes : pending'[n] # Nobody => pending'[n] = pending[n] /\ pending[n] # c
  BY <1>1, OthersWait
<1>10. Exclusion'
  BY <1>6, <1>7, <1>8, <1>9, ExclusionKept
<1>11. QED
  BY <1>6, <1>7, <1>10 DEF LockInv

LEMMA RLockKeeps ==
  ASSUME NEW Inside, LockInv(Inside), NEW c \in Clients, NEW m \in Mutexes, RLock(c, m)
  PROVE  LockInv(Inside)'
<1>1. /\ LockTypes /\ Calls(c, "RLock", m) /\ Return(c)
      /\ writer' = writer /\ pending' = pending
      /\ writer[m] = Nobody /\ readers' = [readers EXCEPT ![m] = readers[m] \cup {c}]
  BY DEF LockInv, RLock
<1>2. /\ readers' \in [Mutexes -> SUBSET Clients]
      /\ \A n \in Mutexes \ {m} : readers'[n] = readers[n]
  BY <1>1 DEF LockTypes
<1>3. HeldIn(writer', readers', c) = After([op |-> "RLock", on |-> m], HeldIn(writer, readers, c))
  BY <1>1, RLockMoves DEF After
<1>4. \A d \in Clients \ {c} : HeldIn(writer', readers', d) = HeldIn(writer, readers, d)
  BY <1>1, RLockMoves
<1>5. /\ plan' \in [Clients -> Seq(Steps)]
      /\ \A d \in Clients : Leads(plan'[d], HeldIn(writer', readers', d), {}, Inside)
      /\ \A d \in Clients \ {c} : plan'[d] = plan[d]
  BY <1>1, <1>3, <1>4, ReturnKeeps
<1>6. LockTypes'
  BY <1>1, <1>2, <1>5 DEF LockTypes
<1>7. \A n \in Mutexes : writer'[n] # Nobody => readers'[n] = {} /\ pending'[n] = Nobody
  BY <1>1, <1>2 DEF LockInv, Exclusion
<1>8. \A n \in Mutexes : pending'[n] # Nobody => pending'[n] = pending[n] /\ pending[n] # c
  BY <1>1, OthersWait
<1>9. Exclusion'
  BY <1>5, <1>6, <1>7, <1>8, ExclusionKept
<1>10. QED
  BY <1>5, <1>6, <1>9 DEF LockInv

LEMMA RUnlockKeeps ==
  ASSUME NEW Inside, LockInv(Inside), NEW c \in Clients, NEW m \in Mutexes, RUnlock(c, m)
  PROVE  LockInv(Inside)'
<1>1. /\ LockTypes /\ Calls(c, "RUnlock", m) /\ Return(c)
      /\ writer' = writer /\ pending' = pending
      /\ readers' = [readers EXCEPT ![m] = readers[m] \ {c}]
  BY DEF LockInv, RUnlock
<1>2. /\ readers' \in [Mutexes -> SUBSET Clients]
      /\ \A n \in Mutexes : readers[n] = {} => readers'[n] = {}
  BY <1>1 DEF LockTypes
<1>3. HeldIn(writer', readers', c) = After([op |-> "RUnlock", on |-> m], HeldIn(writer, readers, c))
  BY <1>1, RUnlockMoves DEF After
<1>4. \A d \in Clients \ {c} : HeldIn(writer', readers', d) = HeldIn(writer, readers, d)
  BY <1>1, RUnlockMoves
<1>5. /\ plan' \in [Clients -> Seq(Steps)]
      /\ \A d \in Clients : Leads(plan'[d], HeldIn(writer', readers', d), {}, Inside)
      /\ \A d \in Clients \ {c} : plan'[d] = plan[d]
  BY <1>1, <1>3, <1>4, ReturnKeeps
<1>6. LockTypes'
  BY <1>1, <1>2, <1>5 DEF LockTypes
<1>7. \A n \in Mutexes : writer'[n] # Nobody => readers'[n] = {} /\ pending'[n] = Nobody
  BY <1>1, <1>2 DEF LockInv, Exclusion
<1>8. \A n \in Mutexes : pending'[n] # Nobody => pending'[n] = pending[n] /\ pending[n] # c
  BY <1>1, OthersWait
<1>9. Exclusion'
  BY <1>5, <1>6, <1>7, <1>8, ExclusionKept
<1>10. QED
  BY <1>5, <1>6, <1>9 DEF LockInv

LEMMA AccessKeeps ==
  ASSUME NEW Inside, LockInv(Inside), NEW c \in Clients, NEW t \in Tables, Access(c, t)
  PROVE  LockInv(Inside)'
<1>1. /\ LockTypes /\ Return(c) /\ pending' = pending /\ writer' = writer /\ readers' = readers
  BY DEF LockInv, Access, locks
<1>2. PICK op \in {"read", "write"} : Calls(c, op, t)
  BY DEF Access
<1>3. HeldIn(writer', readers', c) = After([op |-> op, on |-> t], HeldIn(writer, readers, c))
  BY <1>1, <1>2 DEF After
<1>4. \A d \in Clients \ {c} : HeldIn(writer', readers', d) = HeldIn(writer, readers, d)
  BY <1>1
<1>5. /\ plan' \in [Clients -> Seq(Steps)]
      /\ \A d \in Clients : Leads(plan'[d], HeldIn(writer', readers', d), {}, Inside)
      /\ \A d \in Clients \ {c} : plan'[d] = plan[d]
  BY <1>1, <1>2, <1>3, <1>4, ReturnKeeps
<1>6. LockTypes'
  BY <1>1, <1>5 DEF LockTypes
<1>7. \A n \in Mutexes : writer'[n] # Nobody => readers'[n] = {} /\ pending'[n] = Nobody
  BY <1>1 DEF LockInv, Exclusion
<1>8. \A n \in Mutexes : pending'[n] # Nobody => pending'[n] = pending[n] /\ pending[n] # c
  BY <1>1, <1>2, OthersWait
<1>9. Exclusion'
  BY <1>5, <1>6, <1>7, <1>8, ExclusionKept
<1>10. QED
  BY <1>5, <1>6, <1>9 DEF LockInv

\* The invariant, for every order that the workload keeps to.
LEMMA LocksAtFirst ==
  ASSUME NEW Inside, LockInit
  PROVE  LockInv(Inside)
<1>1. LockTypes
  BY EmptySeq DEF LockInit, LockTypes
<1>2. Exclusion
  BY DEF LockInit, Exclusion
<1>3. ASSUME NEW c \in Clients PROVE Leads(plan[c], HeldIn(writer, readers, c), {}, Inside)
  <2>1. HeldIn(writer, readers, c) = {}
    BY NobodyAssumption DEF LockInit, HeldIn, Grips
  <2>2. plan[c] = <<>>
    BY DEF LockInit
  <2>3. QED
    BY <2>1, <2>2, LeadsNowhere
<1>4. QED
  BY <1>1, <1>2, <1>3 DEF LockInv

LEMMA LocksStayInOrder ==
  ASSUME NEW Inside, WorkAllows(Inside), LockInv(Inside), [LockNext]_lockVars
  PROVE  LockInv(Inside)'
<1>1. CASE LockNext
  <2>1. PICK c \in Clients : Start(c) \/ Step(c)
    BY <1>1 DEF LockNext
  <2>2. CASE Start(c)
    BY <2>2, StartKeeps
  <2>3. CASE Step(c)
    BY <2>3, AnnounceKeeps, LockKeeps, UnlockKeeps, RLockKeeps, RUnlockKeeps, AccessKeeps
    DEF Step
  <2>4. QED
    BY <2>1, <2>2, <2>3
<1>2. CASE UNCHANGED lockVars
  BY <1>2 DEF lockVars, locks, LockInv, LockTypes, Exclusion, Calls
<1>3. QED
  BY <1>1, <1>2

----------------------------------------------------------------------------
(* The locks: theorems                                                     *)

\* Without any order.
Anyhow == Mutexes \X Mutexes

LEMMA AnyhowAllowed == WorkAllows(Anyhow)
<1>1. ASSUME NEW kind \in StatementKinds, NEW t \in Tables PROVE Allows(kind, t, Anyhow)
  BY Locks DEF Allows, Anyhow, Referencing
<1>2. QED
  BY <1>1 DEF WorkAllows

LEMMA LocksAnyhow == LockSpec => []LockInv(Anyhow)
<1>1. LockInit => LockInv(Anyhow)
  BY LocksAtFirst
<1>2. LockInv(Anyhow) /\ [LockNext]_lockVars => LockInv(Anyhow)'
  BY AnyhowAllowed, LocksStayInOrder
<1>3. QED
  BY <1>1, <1>2, PTL DEF LockSpec

\* No row is written while a statement inside the table's lock reads: the
\* serializer inside the store's lock (pebble_storage.go:797) and the scans,
\* index lookups and reference checks under the table's read lock.
THEOREM RowsStandStillUnderLocks == LockSpec => []LockedReadsAreStable
<1>1. LockInv(Anyhow) => LockedReadsAreStable
  <2> SUFFICES ASSUME LockInv(Anyhow), NEW c \in Clients, NEW d \in Clients, NEW t \in Tables,
                      Calls(c, "read", t), Calls(d, "write", t)
               PROVE  c = d \/ (c \notin readers[t] /\ writer[Store] # c)
    BY DEF LockedReadsAreStable
  <2>1. <<"w", t>> \in HeldIn(writer, readers, d)
    BY CallMade DEF Legal
  <2>2. writer[t] = d /\ t \in Mutexes
    BY <2>1 DEF HeldIn, Grips
  <2>3. readers[t] = {}
    BY <2>2, NobodyAssumption DEF LockInv, Exclusion
  <2>4. ASSUME writer[Store] = c PROVE FALSE
    <3>1. <<"w", Store>> \in HeldIn(writer, readers, c)
      BY <2>4, Locks DEF HeldIn, Grips
    <3>2. <<"r", t>> \in HeldIn(writer, readers, c)
      BY <3>1, CallMade DEF Legal
    <3>3. QED
      BY <2>3, <3>2 DEF HeldIn
  <2>5. QED
    BY <2>3, <2>4
<1>2. QED
  BY <1>1, LocksAnyhow, PTL

\* A statement that has returned, whatever way, holds and awaits no lock.
THEOREM StatementsReturnTheirLocks == LockSpec => []LocksReturned
<1>1. LockInv(Anyhow) => LocksReturned
  <2> SUFFICES ASSUME LockInv(Anyhow), NEW c \in Clients, NEW m \in Mutexes, plan[c] = <<>>
               PROVE  c \notin readers[m] \cup {pending[m], writer[m]}
    BY DEF LocksReturned
  <2>1. Leads(<<>>, HeldIn(writer, readers, c), {}, Anyhow)
    BY DEF LockInv
  <2>2. HeldIn(writer, readers, c) = {}
    BY <2>1, EndedHoldsNothing
  <2>3. <<"w", m>> \in Grips /\ <<"r", m>> \in Grips
    BY DEF Grips
  <2>4. c \notin readers[m] /\ writer[m] # c
    BY <2>2, <2>3 DEF HeldIn
  <2>5. pending[m] # c
    BY NobodyAssumption DEF LockInv, Exclusion, Calls
  <2>6. QED
    BY <2>4, <2>5
<1>2. QED
  BY <1>1, LocksAnyhow, PTL

\* The locks that may be taken inside others when they have ranks.
Downward(rank) == {x \in Mutexes \X Mutexes : rank[x[2]] < rank[x[1]]}

\* A waiting client wants one lock, of lower rank than any it holds, and
\* waits for its writer, for the one announced, or once announced for a reader.
LEMMA Waiting ==
  ASSUME NEW rank, LockInv(Downward(rank)), NEW c \in Clients, NEW d \in WaitsFor(c)
  PROVE  LET m == Head(plan[c]).on
         IN  /\ m \in Mutexes
             /\ \A n \in Mutexes : writer[n] = c \/ c \in readers[n] => rank[m] < rank[n]
             /\ \/ d = writer[m]
                \/ d = pending[m] /\ ~Calls(c, "Lock", m)
                \/ d = pending[m] /\ d # c
                \/ d \in readers[m]
             /\ pending[m] = c => d = writer[m] \/ d \in readers[m]
<1>1. PICK n \in Mutexes :
        \/ Calls(c, "RLock", n) /\ d \in {pending[n], writer[n]}
        \/ Calls(c, "Lock", n) /\ pending[n] # c /\ d \in {pending[n], writer[n]}
        \/ Calls(c, "Lock", n) /\ pending[n] = c /\ d \in readers[n]
  BY DEF WaitsFor
<1>2. PICK op \in {"RLock", "Lock"} : Calls(c, op, n)
  BY <1>1
<1>3. /\ Head(plan[c]).on = n /\ Head(plan[c]) = [op |-> op, on |-> n]
      /\ Legal([op |-> op, on |-> n], HeldIn(writer, readers, c), Downward(rank))
  BY <1>2, CallMade
<1>4. ASSUME NEW k \in Mutexes, writer[k] = c \/ c \in readers[k] PROVE rank[n] < rank[k]
  <2>1. PICK mode \in {"w", "r"} : <<mode, k>> \in HeldIn(writer, readers, c)
    BY <1>4 DEF HeldIn, Grips
  <2>2. <<k, n>> \in Downward(rank)
    BY <1>2, <1>3, <2>1 DEF Legal
  <2>3. QED
    BY <2>2 DEF Downward
<1>5. Calls(c, "RLock", n) => pending[n] # c
  <2>1. pending[n] = c => Calls(c, "Lock", n)
    BY NobodyAssumption DEF LockInv, Exclusion
  <2>2. QED
    BY <2>1 DEF Calls
<1>6. QED
  BY <1>1, <1>3, <1>4, <1>5

\* When the locks have ranks that the workload keeps to, no statements wait
\* for each other in a circle, however many clients there are.
THEOREM RankedLocksNeverCircle ==
  ASSUME NEW rank, Ranked(rank)
  PROVE  LockSpec => []NoCircularWait
<1> DEFINE Order == Downward(rank)
<1>1. WorkAllows(Order)
  <2>1. ASSUME NEW kind \in StatementKinds, NEW t \in Tables, <<kind, t>> \in Workload
        PROVE  Allows(kind, t, Order)
    BY <2>1, Locks DEF Ranked, Allows, Downward, Referencing
  <2>2. QED
    BY <2>1 DEF WorkAllows
<1>2. LockInv(Order) => NoCircularWait
  <2> SUFFICES ASSUME LockInv(Order), NEW S \in (SUBSET Clients) \ {{}},
                      \A c \in S : WaitsFor(c) \cap S # {}
               PROVE  FALSE
    BY DEF NoCircularWait
  <2> DEFINE Wanted(c) == Head(plan[c]).on
  <2>1. \A c \in S : \E d \in S : d \in WaitsFor(c)
    OBVIOUS
  <2>2. ASSUME NEW c \in S
        PROVE  /\ Wanted(c) \in Mutexes /\ rank[Wanted(c)] \in Nat
               /\ \A n \in Mutexes : writer[n] = c \/ c \in readers[n] =>
                                       rank[Wanted(c)] < rank[n]
    <3>1. PICK d \in S : d \in WaitsFor(c)
      BY <2>1
    <3>2. Wanted(c) \in Mutexes
      BY <3>1, Waiting
    <3>3. rank[Wanted(c)] \in Nat
      BY <3>2 DEF Ranked
    <3>4. QED
      BY <3>1, <3>2, <3>3, Waiting
  <2>3. PICK c \in S : \A d \in S : rank[Wanted(c)] <= rank[Wanted(d)]
    <3> DEFINE Ranks == {rank[Wanted(d)] : d \in S}
    <3>1. Ranks \subseteq Nat /\ Ranks # {}
      BY <2>2
    <3>2. PICK n \in Ranks : \A k \in Ranks : n <= k
      <4> HIDE DEF Ranks
      <4>1. QED
        BY <3>1, Least
    <3>3. QED
      BY <3>2
  <2> DEFINE m == Wanted(c)
  <2>4. m \in Mutexes /\ rank[m] \in Nat
    BY <2>2
  <2>5. \A d \in S : ~(writer[m] = d \/ d \in readers[m])
    <3> SUFFICES ASSUME NEW d \in S, writer[m] = d \/ d \in readers[m] PROVE FALSE
      OBVIOUS
    <3>1. rank[Wanted(d)] < rank[m] /\ rank[Wanted(d)] \in Nat
      BY <2>2, <2>4
    <3>2. rank[m] <= rank[Wanted(d)]
      BY <2>3
    <3>3. QED
      BY <2>4, <3>1, <3>2
  <2>6. PICK d \in S : d \in WaitsFor(c)
    BY <2>1
  <2>7. d = pending[m]
    BY <2>5, <2>6, Waiting
  <2>8. Calls(d, "Lock", m)
    BY <2>4, <2>7, NobodyAssumption DEF LockInv, Exclusion
  <2>9. Wanted(d) = m
    BY <2>8 DEF Calls
  <2>10. PICK e \in S : e \in WaitsFor(d)
    BY <2>1
  <2>11. e = writer[m] \/ e \in readers[m]
    BY <2>7, <2>9, <2>10, Waiting
  <2>12. QED
    BY <2>5, <2>11
<1>3. LockInit => LockInv(Order)
  BY LocksAtFirst
<1>4. LockInv(Order) /\ [LockNext]_lockVars => LockInv(Order)'
  BY <1>1, LocksStayInOrder
<1>5. QED
  BY <1>2, <1>3, <1>4, PTL DEF LockSpec

----------------------------------------------------------------------------
(* The foreign key                                                         *)

\* Types.
LEMMA InitType == Init => TypeOK
  BY NobodyAssumption DEF Init, TypeOK

LEMMA EndDeleteType ==
  ASSUME TypeOK, NEW c \in Clients, EndDelete(c), pc[c] = "check",
         work' = work, form' = form, parent' \in [ParentRows -> Values \cup {Free}]
  PROVE  TypeOK'
<1>1. lock = c /\ \A d \in Clients \ {c} : pc[d] # "check"
  BY DEF TypeOK
<1>2. QED
  BY <1>1, NobodyAssumption DEF TypeOK, EndDelete, Goto

LEMMA NextType == TypeOK /\ [Next]_vars => TypeOK'
<1> SUFFICES ASSUME TypeOK, [Next]_vars PROVE TypeOK'
  OBVIOUS
<1> USE DEF Begin, Goto, locals
<1>1. CASE UNCHANGED vars
  BY <1>1 DEF vars, TypeOK
<1>2. ASSUME work' = work, form' = form, NEW c \in Clients, NEW p \in ParentRows, NEW v \in Values,
             InsertParent(c, p, v)
      PROVE  TypeOK'
  BY <1>2 DEF InsertParent, TypeOK
<1>3. ASSUME work' = work, form' = form, NEW c \in Clients, NEW ps \in SUBSET ParentRows,
             NEW v \in Values, UpdateParent(c, ps, v)
      PROVE  TypeOK'
  BY <1>3 DEF UpdateParent, TypeOK
<1>4. ASSUME work' = work, form' = form, NEW c \in Clients, NEW ps \in SUBSET ParentRows,
             BeginDelete(c, ps)
      PROVE  TypeOK'
  BY <1>4, NobodyAssumption DEF BeginDelete, TypeOK
<1>5. ASSUME work' = work, form' = form, NEW c \in Clients, NEW p \in ParentRows, CheckRow(c, p)
      PROVE  TypeOK'
  <2>1. CASE EndDelete(c) /\ UNCHANGED parent
    BY <1>5, <2>1, EndDeleteType DEF CheckRow, TypeOK
  <2>2. CASE /\ todo' = [todo EXCEPT ![c] = @ \ {p}]
             /\ UNCHANGED <<parent, child, lock, pc, hit, val>>
    BY <1>5, <2>2 DEF TypeOK
  <2>3. QED
    BY <1>5, <2>1, <2>2 DEF CheckRow
<1>6. ASSUME work' = work, form' = form, NEW c \in Clients, RemoveRows(c) PROVE TypeOK'
  <2>1. parent' \in [ParentRows -> Values \cup {Free}]
    BY <1>6 DEF RemoveRows, TypeOK
  <2>2. QED
    BY <1>6, <2>1, EndDeleteType DEF RemoveRows
<1>7. ASSUME work' = work, form' = form, NEW c \in Clients, NEW r \in ChildRows,
             NEW v \in ChildValues, InsertChild(c, r, v)
      PROVE  TypeOK'
  BY <1>7 DEF InsertChild, TypeOK, ChildValues
<1>8. ASSUME work' = work, form' = form, NEW c \in Clients, NEW v \in ChildValues,
             ValidateUpdate(c, v)
      PROVE  TypeOK'
  BY <1>8 DEF ValidateUpdate, TypeOK, ChildValues
<1>9. ASSUME work' = work, form' = form, NEW c \in Clients, NEW rs \in SUBSET ChildRows,
             UpdateChildren(c, rs)
      PROVE  TypeOK'
  BY <1>9 DEF UpdateChildren, TypeOK
<1>10. ASSUME work' = work, form' = form, NEW c \in Clients, NEW rs \in SUBSET ChildRows,
              DeleteChildren(c, rs)
       PROVE  TypeOK'
  BY <1>10 DEF DeleteChildren, TypeOK
<1>11. QED
  BY <1>1, <1>2, <1>3, <1>4, <1>5, <1>6, <1>7, <1>8, <1>9, <1>10 DEF Next

----------------------------------------------------------------------------
(* The inductive invariant of the references                               *)

\* A value an UPDATE has checked has its row until it is written; a row that
\* a DELETE has checked is not referenced until it goes.
ChecksHold ==
  \A c \in Clients :
    /\ pc[c] = "write" =>
         "update child" \in work[c] /\ (val[c] \in Values => KeyExists(val[c]))
    /\ pc[c] = "check" =>
         /\ "delete parent" \in work[c]
         /\ \A p \in hit[c] : parent[p] # Free
         /\ \A p \in hit[c] \ todo[c] : ~Referenced(parent[p])

NoOrphan == \A r \in ChildRows : child[r] \in Values => KeyExists(child[r])

ReferencesInv ==
  /\ TypeOK
  /\ NoOrphans
  /\ OneWriter /\ form = "key" => ChecksHold

\* A step that takes no key from the parent.
LEMMA KeysStay ==
  ASSUME \A p \in ParentRows : parent[p] # Free => parent'[p] = parent[p],
         NEW v \in Values, KeyExists(v)
  PROVE  KeyExists(v)'
  BY ValuesAssumption DEF KeyExists

LEMMA NextReferences == ReferencesInv /\ [Next]_vars => ReferencesInv'
<1> SUFFICES ASSUME ReferencesInv, [Next]_vars PROVE ReferencesInv'
  OBVIOUS
<1>0. TypeOK'
  BY NextType DEF ReferencesInv
<1>1. work' = work /\ form' = form
  BY DEF Next, vars
<1>2. OneWriter' = OneWriter
  BY <1>1 DEF OneWriter, KeysFixed
<1>3. SUFFICES ASSUME OneWriter, form = "key"
               PROVE  NoOrphan' /\ ChecksHold'
  BY <1>0, <1>1, <1>2 DEF ReferencesInv, NoOrphans, NoOrphan
<1>4. /\ TypeOK /\ ChecksHold
      /\ \A r \in ChildRows : child[r] \in Values => KeyExists(child[r])
  BY <1>3 DEF ReferencesInv, NoOrphans, NoOrphan
<1> DEFINE Goal == NoOrphan' /\ ChecksHold'
<1> USE DEF Begin, Goto, locals
<1>5. CASE UNCHANGED vars
  BY <1>4, <1>5 DEF vars, ChecksHold, KeyExists, Referenced, NoOrphan
<1>6. ASSUME NEW c \in Clients, NEW p \in ParentRows, NEW v \in Values,
             InsertParent(c, p, v)
      PROVE  Goal
  <2>1. \A q \in ParentRows : parent[q] # Free => parent'[q] = parent[q]
    BY <1>4, <1>6 DEF InsertParent, TypeOK
  <2>2. \A w \in Values : KeyExists(w) => KeyExists(w)'
    BY <2>1, KeysStay
  <2>3. \A d \in Clients : pc[d] # "check"
    BY <1>4, <1>6, NobodyAssumption DEF InsertParent, TypeOK
  <2>4. QED
    BY <1>1, <1>4, <1>6, <2>2, <2>3 DEF InsertParent, ChecksHold, NoOrphan
<1>7. ASSUME NEW c \in Clients, NEW ps \in SUBSET ParentRows, NEW v \in Values,
             UpdateParent(c, ps, v)
      PROVE  Goal
  BY <1>3, <1>7 DEF UpdateParent, OneWriter, KeysFixed
<1>8. ASSUME NEW c \in Clients, NEW ps \in SUBSET ParentRows, BeginDelete(c, ps)
      PROVE  Goal
  <2>1. UNCHANGED <<parent, child, val>> /\ \A w : KeyExists(w)' = KeyExists(w)
    BY <1>8 DEF BeginDelete, KeyExists
  <2>2. /\ "delete parent" \in work[c] /\ pc'[c] = "check"
        /\ hit'[c] = ps /\ todo'[c] = ps /\ \A p \in ps : parent[p] # Free
        /\ \A d \in Clients : d # c =>
             pc'[d] = pc[d] /\ hit'[d] = hit[d] /\ todo'[d] = todo[d]
    BY <1>4, <1>8 DEF BeginDelete, TypeOK, ParentsLive
  <2>3. QED
    BY <1>1, <1>4, <2>1, <2>2 DEF ChecksHold, Referenced, NoOrphan
<1>9. ASSUME NEW c \in Clients, NEW p \in ParentRows, CheckRow(c, p)
      PROVE  Goal
  <2>1. UNCHANGED <<parent, child, val>> /\ \A w : KeyExists(w)' = KeyExists(w)
        /\ \A x : Referenced(x)' = Referenced(x)
    BY <1>9 DEF CheckRow, EndDelete, KeyExists, Referenced
  <2>2. CASE EndDelete(c)
    BY <1>1, <1>4, <2>1, <2>2 DEF EndDelete, ChecksHold, TypeOK, NoOrphan
  <2>3. CASE /\ ~Referenced(parent[p])
             /\ todo' = [todo EXCEPT ![c] = @ \ {p}]
             /\ UNCHANGED <<pc, hit>>
    <3>1. \A d \in Clients : d # c => todo'[d] = todo[d]
      BY <1>4, <2>3 DEF TypeOK
    <3>2. todo'[c] = todo[c] \ {p}
      BY <1>4, <2>3 DEF TypeOK
    <3>3. QED
      BY <1>1, <1>4, <2>1, <2>3, <3>1, <3>2 DEF ChecksHold, NoOrphan
  <2>4. QED
    BY <1>3, <1>9, <2>2, <2>3 DEF CheckRow, Blocked
<1>10. ASSUME NEW c \in Clients, RemoveRows(c) PROVE Goal
  <2>1. /\ pc[c] = "check" /\ "delete parent" \in work[c]
        /\ \A p \in hit[c] : ~Referenced(parent[p])
    BY <1>4, <1>10 DEF RemoveRows, ChecksHold
  <2>2. \A d \in Clients : pc[d] # "write"
    BY <1>3, <1>4, <2>1 DEF ChecksHold, OneWriter
  <2>3. \A d \in Clients : pc[d] = "check" => d = c
    BY <1>4, <2>1 DEF TypeOK
  <2>4. \A d \in Clients : pc'[d] # "write" /\ pc'[d] # "check"
    BY <1>4, <1>10, <2>2, <2>3 DEF RemoveRows, EndDelete, TypeOK
  <2>5. ASSUME NEW r \in ChildRows, child[r] \in Values PROVE KeyExists(child[r])'
    <3>1. PICK p \in ParentRows : parent[p] = child[r]
      BY <1>4, <2>5 DEF KeyExists
    <3>2. p \notin hit[c]
      BY <2>1, <3>1 DEF Referenced
    <3>3. parent'[p] = child[r] /\ child' = child
      BY <1>10, <3>1, <3>2 DEF RemoveRows, EndDelete
    <3>4. QED
      BY <3>3 DEF KeyExists
  <2>6. child' = child
    BY <1>10 DEF RemoveRows, EndDelete
  <2>7. ChecksHold'
    BY <2>4 DEF ChecksHold
  <2>8. NoOrphan'
    BY <2>5, <2>6 DEF KeyExists, NoOrphan
  <2>9. QED
    BY <2>7, <2>8
\* Nobody else is at the checks of a DELETE.
<1>11. ASSUME NEW c \in Clients, work[c] \cap {"insert child", "update child"} # {},
              pc[c] # "check"
       PROVE  \A d \in Clients : pc[d] # "check"
  BY <1>3, <1>4, <1>11 DEF ChecksHold, OneWriter
<1>12. ASSUME NEW c \in Clients, NEW r \in ChildRows, NEW v \in ChildValues,
              InsertChild(c, r, v)
       PROVE  Goal
  <2>1. \A d \in Clients : pc[d] # "check"
    BY <1>11, <1>12 DEF InsertChild
  <2>2. /\ UNCHANGED <<parent, pc, val>> /\ \A w : KeyExists(w)' = KeyExists(w)
        /\ v \in Values => KeyExists(v)
    BY <1>12, ValuesAssumption DEF InsertChild, KeyExists
  <2>3. \A s \in ChildRows : child'[s] = IF s = r THEN v ELSE child[s]
    BY <1>4, <1>12 DEF InsertChild, TypeOK
  <2>4. \A s \in ChildRows : child'[s] \in Values => KeyExists(child'[s])
    BY <1>4, <2>2, <2>3
  <2>5. QED
    BY <1>1, <1>4, <2>1, <2>2, <2>4 DEF ChecksHold, KeyExists, NoOrphan
<1>13. ASSUME NEW c \in Clients, NEW v \in ChildValues, ValidateUpdate(c, v)
       PROVE  Goal
  <2>1. /\ UNCHANGED <<parent, child, hit, todo>> /\ \A w : KeyExists(w)' = KeyExists(w)
        /\ \A w : Referenced(w)' = Referenced(w)
        /\ v \in Values => KeyExists(v)
        /\ "update child" \in work[c]
    BY <1>13, ValuesAssumption DEF ValidateUpdate, KeyExists, Referenced
  <2>2. /\ pc'[c] = "write" /\ val'[c] = v
        /\ \A d \in Clients : d # c => pc'[d] = pc[d] /\ val'[d] = val[d]
    BY <1>4, <1>13 DEF ValidateUpdate, TypeOK
  <2>3. QED
    BY <1>1, <1>4, <2>1, <2>2 DEF ChecksHold, NoOrphan
<1>14. ASSUME NEW c \in Clients, NEW rs \in SUBSET ChildRows, UpdateChildren(c, rs)
       PROVE  Goal
  <2>1. "update child" \in work[c] /\ (val[c] \in Values => KeyExists(val[c]))
    BY <1>4, <1>14 DEF UpdateChildren, ChecksHold
  <2>2. \A d \in Clients : pc[d] # "check"
    BY <1>11, <1>14, <2>1 DEF UpdateChildren
  <2>3. /\ parent' = parent /\ \A w : KeyExists(w)' = KeyExists(w)
        /\ \A r \in ChildRows : child'[r] \in {val[c], child[r]}
        /\ pc'[c] = "idle"
        /\ \A d \in Clients : d # c => pc'[d] = pc[d] /\ val'[d] = val[d]
    BY <1>4, <1>14 DEF UpdateChildren, KeyExists, TypeOK
  <2>4. \A r \in ChildRows : child'[r] \in Values => KeyExists(child'[r])
    BY <1>4, <2>1, <2>3
  <2>5. NoOrphan'
    BY <2>3, <2>4 DEF KeyExists, NoOrphan
  <2>6. \A d \in Clients : pc'[d] # "check" /\ (pc'[d] = "write" => d # c)
    BY <2>2, <2>3
  <2>7. ChecksHold'
    <3>1. ASSUME NEW d \in Clients, pc'[d] = "write"
          PROVE  /\ "update child" \in work'[d]
                 /\ val'[d] \in Values => \E p \in ParentRows : parent'[p] = val'[d]
      <4>1. d # c /\ pc[d] = "write" /\ val'[d] = val[d]
        BY <2>3, <2>6, <3>1
      <4>2. "update child" \in work[d] /\ (val[d] \in Values => KeyExists(val[d]))
        BY <1>4, <4>1 DEF ChecksHold
      <4>3. QED
        BY <1>1, <2>3, <4>1, <4>2 DEF KeyExists
    <3>2. QED
      BY <2>6, <3>1 DEF ChecksHold, KeyExists
  <2>8. QED
    BY <2>5, <2>7
<1>15. ASSUME NEW c \in Clients, NEW rs \in SUBSET ChildRows, DeleteChildren(c, rs)
       PROVE  Goal
  <2>1. /\ UNCHANGED <<parent, pc, hit, todo, val>>
        /\ \A w : KeyExists(w)' = KeyExists(w)
        /\ \A r \in ChildRows : child'[r] = Free \/ child'[r] = child[r]
    BY <1>15 DEF DeleteChildren, KeyExists
  <2>2. \A w : w # Free /\ ~Referenced(w) => ~Referenced(w)'
    BY <2>1 DEF Referenced
  <2>3. \A r \in ChildRows : child'[r] \in Values => KeyExists(child'[r])
    BY <1>4, <2>1, ValuesAssumption
  <2>4. ChecksHold'
    BY <1>1, <1>4, <2>1, <2>2 DEF ChecksHold, NoOrphan
  <2>5. QED
    BY <2>1, <2>3, <2>4 DEF KeyExists, NoOrphan
<1>16. QED
  BY <1>5, <1>6, <1>7, <1>8, <1>9, <1>10, <1>12, <1>13, <1>14, <1>15 DEF Next

----------------------------------------------------------------------------
(* The foreign key: theorems                                               *)

\* The parent's lock is held exactly by the client at the checks of a DELETE,
\* and a DELETE has left to check only rows it is to remove (performDelete).
THEOREM TypeCorrect == Spec => []TypeOK
  BY InitType, NextType, PTL DEF Spec

\* Every reference has its row (README.md:181), however clients insert
\* parents and delete children meanwhile, for every workload in which one
\* client writes references and deletes parents and no UPDATE sets a key, when
\* the reference names the key by the table's own name: the declared form
\* that CheckForeignKeyReferences looks for (catalog_tables.go:209).
THEOREM ReferencesKept == Spec => []NoOrphans
<1>1. Init => ReferencesInv
  BY InitType, ValuesAssumption DEF Init, ReferencesInv, NoOrphans, ChecksHold
<1>2. ReferencesInv => NoOrphans
  BY DEF ReferencesInv
<1>3. QED
  BY <1>1, <1>2, NextReferences, PTL DEF Spec
=============================================================================
