------------------------- MODULE SelectPipelineProofs -------------------------
(***************************************************************************)
(* For any tables, conditions, groupings, windows and orders: a lookup     *)
(* finds the rows a scan finds; a join has the rows it should have as      *)
(* often as it should; GROUP BY puts every row into one group; sorting     *)
(* loses nothing, orders the rows where the columns are uniform, keeps     *)
(* equal rows in their order, and its pages make up the whole; and a       *)
(* window function, one pass over a sorted partition, gives every row what *)
(* counting, or aggregating, the rows before it gives.                     *)
(***************************************************************************)
EXTENDS SelectPipeline,
  FiniteSetTheorems, FunctionTheorems, SequenceTheorems, WellFoundedInduction, TLAPS

----------------------------------------------------------------------------
(* Induction over the natural numbers, as a fact about sets                *)

Below == OpToRel(<, Nat)

LEMMA Least ==
  ASSUME NEW S, S \subseteq Nat, S # {}
  PROVE  \E n \in S : \A m \in S : n <= m
<1>1. IsWellFoundedOn(Below, Nat)
  BY NatLessThanWellFounded, Zenon DEF Below
<1>2. \E n \in S : \A m \in S : <<m, n>> \notin Below
  BY <1>1, WFMin, Zenon
<1>3. \A m, n \in Nat : <<m, n>> \in Below <=> m < n
  BY DEF Below, OpToRel
<1>4. PICK n \in S : \A m \in S : <<m, n>> \notin Below
  BY <1>2
<1>5. ASSUME NEW m \in S PROVE n <= m
  <2>1. m \in Nat /\ n \in Nat /\ ~(m < n)
    BY <1>3, <1>4
  <2>2. QED
    BY <2>1
<1>6. QED
  BY <1>5

LEMMA Induction ==
  ASSUME NEW S, 0 \in S, \A n \in Nat : n \in S => n + 1 \in S
  PROVE  Nat \subseteq S
<1> SUFFICES ASSUME Nat \ S # {} PROVE FALSE
  OBVIOUS
<1>1. PICK n \in Nat \ S : \A m \in Nat \ S : n <= m
  <2>1. Nat \ S \subseteq Nat
    OBVIOUS
  <2>2. QED
    BY <2>1, Least
<1>2. n - 1 \in Nat /\ n - 1 \notin Nat \ S
  BY <1>1
<1>3. n \in S
  BY <1>2
<1>4. QED
  BY <1>1, <1>3

----------------------------------------------------------------------------
(* Sequences joined together                                               *)

LEMMA FlattenStep ==
  ASSUME NEW ss, NEW k \in Nat \ {0}
  PROVE  \E f : f = [i \in 1..k |-> IF i = 1 THEN ss[i] ELSE f[i - 1] \o ss[i]]
<1> DEFINE Is(f, n) == f = [i \in 1..n |-> IF i = 1 THEN ss[i] ELSE f[i - 1] \o ss[i]]
           T == {n \in Nat : \E f : Is(f, n)}
<1>1. 0 \in T
  <2>1. Is([i \in 1..0 |-> ss], 0)
    OBVIOUS
  <2>2. QED
    BY <2>1
<1>2. ASSUME NEW n \in Nat, n \in T PROVE n + 1 \in T
  <2>1. PICK f : Is(f, n)
    BY <1>2
  <2>0. PICK g : g = [i \in 1..n + 1 |->
                       IF i \in 1..n THEN f[i] ELSE IF i = 1 THEN ss[i] ELSE f[i - 1] \o ss[i]]
    OBVIOUS
  <2>2. ASSUME NEW i \in 1..n + 1
        PROVE  g[i] = IF i = 1 THEN ss[i] ELSE g[i - 1] \o ss[i]
    <3>1. CASE i \in 1..n
      <4>1. f[i] = IF i = 1 THEN ss[i] ELSE f[i - 1] \o ss[i]
        BY <2>1, <3>1
      <4>2. i # 1 => i - 1 \in 1..n /\ i - 1 \in 1..n + 1
        BY <3>1
      <4>3. QED
        BY <2>0, <3>1, <4>1, <4>2
    <3>2. CASE i = n + 1
      <4>1. i # 1 => i - 1 \in 1..n /\ i - 1 \in 1..n + 1
        BY <3>2
      <4>2. i \notin 1..n
        BY <3>2
      <4>3. QED
        BY <2>0, <4>1, <4>2
    <3>3. QED
      BY <3>1, <3>2
  <2>3. Is(g, n + 1)
    <3>1. g = [i \in 1..n + 1 |-> g[i]]
      BY <2>0
    <3>2. QED
      BY <2>2, <3>1, Zenon
  <2> HIDE DEF Is
  <2>4. \E h : Is(h, n + 1)
    BY <2>3
  <2>5. QED
    BY <2>4
<1> HIDE DEF T
<1>3. k \in T
  BY <1>1, <1>2, Induction
<1>4. QED
  BY <1>3 DEF T

LEMMA Flattened ==
  ASSUME NEW ss, Len(ss) \in Nat \ {0}
  PROVE  \E f : /\ f = [i \in 1..Len(ss) |-> IF i = 1 THEN ss[i] ELSE f[i - 1] \o ss[i]]
                /\ FlattenSeq(ss) = f[Len(ss)]
  BY FlattenStep DEF FlattenSeq

----------------------------------------------------------------------------
(* Counting the elements of a sequence that are in a set                   *)

CountIn(s, P) == Cardinality({p \in DOMAIN s : s[p] \in P})

LEMMA CountType ==
  ASSUME NEW U, NEW s \in Seq(U), NEW P
  PROVE  /\ IsFiniteSet({p \in DOMAIN s : s[p] \in P})
         /\ CountIn(s, P) \in Nat
<1>1. IsFiniteSet(1..Len(s))
  BY FS_Interval
<1>2. {p \in DOMAIN s : s[p] \in P} \subseteq 1..Len(s)
  OBVIOUS
<1>3. QED
  BY <1>1, <1>2, FS_Subset, FS_CardinalityType DEF CountIn

LEMMA CountNone == ASSUME NEW P PROVE CountIn(<<>>, P) = 0
<1>1. {p \in DOMAIN <<>> : <<>>[p] \in P} = {}
  OBVIOUS
<1>2. QED
  BY <1>1, FS_EmptySet DEF CountIn

LEMMA CountAppend ==
  ASSUME NEW U, NEW s \in Seq(U), NEW x \in U, NEW P
  PROVE  CountIn(Append(s, x), P) = CountIn(s, P) + (IF x \in P THEN 1 ELSE 0)
<1> DEFINE S == {p \in DOMAIN s : s[p] \in P}
           T == {p \in DOMAIN Append(s, x) : Append(s, x)[p] \in P}
<1>1. IsFiniteSet(S) /\ Cardinality(S) \in Nat
  BY CountType DEF CountIn
<1>2. Len(s) \in Nat /\ Len(s) + 1 \notin S
  OBVIOUS
<1>3. CASE x \in P
  <2>1. T = S \cup {Len(s) + 1}
    BY <1>3
  <2> HIDE DEF S, T
  <2>2. Cardinality(T) = Cardinality(S) + 1
    BY <1>1, <1>2, <2>1, FS_AddElement
  <2>3. QED
    BY <1>3, <2>2 DEF CountIn, S, T
<1>4. CASE x \notin P
  <2>1. T = S
    BY <1>4
  <2> HIDE DEF S, T
  <2>2. Cardinality(T) = Cardinality(S) + 0
    BY <1>1, <2>1
  <2>3. QED
    BY <1>4, <2>2 DEF CountIn, S, T
<1>5. QED
  BY <1>3, <1>4

LEMMA CountConcat ==
  ASSUME NEW U, NEW s \in Seq(U), NEW t \in Seq(U), NEW P
  PROVE  CountIn(s \o t, P) = CountIn(s, P) + CountIn(t, P)
<1> DEFINE S == {p \in DOMAIN s : s[p] \in P}
           T == {p \in DOMAIN t : t[p] \in P}
           V == {p \in (Len(s) + 1)..(Len(s) + Len(t)) : p - Len(s) \in T}
           F == [p \in T |-> Len(s) + p]
<1>0. Len(s) \in Nat /\ Len(t) \in Nat /\ S \subseteq 1..Len(s) /\ T \subseteq 1..Len(t)
  OBVIOUS
<1>1. {p \in DOMAIN (s \o t) : (s \o t)[p] \in P} = S \cup V
  OBVIOUS
<1>2. F \in Bijection(T, V)
  <2>1. F \in [T -> V]
    BY <1>0
  <2>2. \A i, j \in T : F[i] = F[j] => i = j
    BY <1>0
  <2>3. \A u \in V : \E i \in T : F[i] = u
    <3>1. ASSUME NEW u \in V PROVE F[u - Len(s)] = u /\ u - Len(s) \in T
      BY <1>0
    <3>2. QED
      BY <3>1
  <2> HIDE DEF F, V
  <2>4. QED
    BY <2>1, <2>2, <2>3, Fun_IsBij
<1>3. IsFiniteSet(V) /\ Cardinality(V) = Cardinality(T)
  <2>1. IsFiniteSet(T)
    BY CountType
  <2>2. ExistsBijection(T, V)
    BY <1>2 DEF ExistsBijection
  <2> HIDE DEF T, V
  <2>3. QED
    BY <2>1, <2>2, FS_Bijection
<1>4. S \cap V = {}
  BY <1>0
<1>5. IsFiniteSet(S) /\ Cardinality(S) \in Nat /\ Cardinality(T) \in Nat
  BY CountType DEF CountIn
<1>6. Cardinality(S \cup V) = Cardinality(S) + Cardinality(V) - Cardinality(S \cap V)
  BY <1>3, <1>5, FS_Union
<1> HIDE DEF S, T, V
<1>7. Cardinality(S \cap V) = 0
  BY <1>4, FS_EmptySet
<1>8. /\ CountIn(s \o t, P) = Cardinality(S \cup V)
      /\ CountIn(s, P) = Cardinality(S) /\ CountIn(t, P) = Cardinality(T)
  BY <1>1 DEF S, T, CountIn
<1>9. QED
  BY <1>3, <1>5, <1>6, <1>7, <1>8

----------------------------------------------------------------------------
(* The elements of a sequence that are in a set                            *)

Keeping(f, s, S, k) ==
  f = [n \in 0..k |-> IF n = 0 THEN <<>>
                      ELSE IF s[n] \in S THEN Append(f[n - 1], s[n]) ELSE f[n - 1]]

LEMMA OnlySteps == ASSUME NEW s, NEW S, NEW k \in Nat PROVE \E f : Keeping(f, s, S, k)
<1> USE DEF Keeping
<1> DEFINE Is(f, m) == Keeping(f, s, S, m)
           T == {n \in Nat : \E f : Is(f, n)}
<1>1. 0 \in T
  <2>1. Is([n \in 0..0 |-> <<>>], 0)
    OBVIOUS
  <2>2. QED
    BY <2>1
<1>2. ASSUME NEW m \in Nat, m \in T PROVE m + 1 \in T
  <2>1. PICK f : Is(f, m)
    BY <1>2
  <2>0. PICK g : g = [n \in 0..m + 1 |->
                       IF n \in 0..m THEN f[n]
                       ELSE IF s[n] \in S THEN Append(f[n - 1], s[n]) ELSE f[n - 1]]
    OBVIOUS
  <2>2. ASSUME NEW n \in 0..m + 1
        PROVE  g[n] = IF n = 0 THEN <<>>
                      ELSE IF s[n] \in S THEN Append(g[n - 1], s[n]) ELSE g[n - 1]
    <3>0. n # 0 => n - 1 \in 0..m /\ n - 1 \in 0..m + 1
      OBVIOUS
    <3>1. CASE n \in 0..m
      <4>1. f[n] = IF n = 0 THEN <<>>
                   ELSE IF s[n] \in S THEN Append(f[n - 1], s[n]) ELSE f[n - 1]
        BY <2>1, <3>1
      <4>2. QED
        BY <2>0, <3>0, <3>1, <4>1
    <3>2. CASE n = m + 1
      <4>1. n \notin 0..m /\ n # 0
        BY <3>2
      <4>2. QED
        BY <2>0, <3>0, <4>1
    <3>3. QED
      BY <3>1, <3>2
  <2>3. Is(g, m + 1)
    <3>1. g = [n \in 0..m + 1 |-> g[n]]
      BY <2>0
    <3>2. QED
      BY <2>2, <3>1, Zenon
  <2> HIDE DEF Is
  <2>4. \E h : Is(h, m + 1)
    BY <2>3
  <2>5. QED
    BY <2>4
<1> HIDE DEF T
<1>3. k \in T
  BY <1>1, <1>2, Induction
<1>4. QED
  BY <1>3 DEF T, Is

LEMMA OnlyIs ==
  ASSUME NEW s, NEW S, Len(s) \in Nat
  PROVE  \E f : /\ f[0] = <<>>
                /\ \A n \in 1..Len(s) :
                     f[n] = IF s[n] \in S THEN Append(f[n - 1], s[n]) ELSE f[n - 1]
                /\ Only(s, S) = f[Len(s)]
<1> DEFINE Is(f) == Keeping(f, s, S, Len(s))
           F == CHOOSE f : Is(f)
<1>1. \E f : Is(f)
  BY OnlySteps
<1>2. Only(s, S) = F[Len(s)]
  BY DEF Only, Keeping
<1> HIDE DEF Is
<1>3. Is(F)
  BY <1>1
<1> HIDE DEF F
<1>4. PICK f : f = F /\ Is(f)
  BY <1>3
<1>5. f[0] = <<>>
  BY <1>4 DEF Is, Keeping
<1>6. ASSUME NEW n \in 1..Len(s)
      PROVE  f[n] = IF s[n] \in S THEN Append(f[n - 1], s[n]) ELSE f[n - 1]
  <2>1. n \in 0..Len(s) /\ n # 0
    OBVIOUS
  <2>2. QED
    BY <1>4, <2>1 DEF Is, Keeping
<1>7. QED
  BY <1>2, <1>4, <1>5, <1>6

\* The first elements of a sequence.
LEMMA Prefix ==
  ASSUME NEW U, NEW s \in Seq(U), NEW n \in 1..Len(s)
  PROVE  /\ SubSeq(s, 1, n) = Append(SubSeq(s, 1, n - 1), s[n])
         /\ SubSeq(s, 1, n - 1) \in Seq(U) /\ s[n] \in U
<1>1. SubSeq(s, 1, n - 1) \in Seq(U) /\ s[n] \in U /\ Len(SubSeq(s, 1, n - 1)) = n - 1
  OBVIOUS
<1>2. SubSeq(s, 1, n) \in Seq(U) /\ Len(SubSeq(s, 1, n)) = n
  OBVIOUS
<1>3. Append(SubSeq(s, 1, n - 1), s[n]) \in Seq(U)
      /\ Len(Append(SubSeq(s, 1, n - 1), s[n])) = n
  BY <1>1
<1>4. ASSUME NEW i \in 1..n PROVE SubSeq(s, 1, n)[i] = Append(SubSeq(s, 1, n - 1), s[n])[i]
  BY <1>1, <1>2
<1>5. QED
  BY <1>1, <1>2, <1>3, <1>4, SeqEqual

OneMoreOf(s, i, U) ==
  \E z \in Seq(U), x \in U :
    z = SubSeq(s, 1, i) /\ x = s[i + 1] /\ SubSeq(s, 1, i + 1) = Append(z, x)

LEMMA OneMore ==
  ASSUME NEW U, NEW s \in Seq(U), NEW n, n = Len(s), NEW i \in Nat, i + 1 \in 1..n
  PROVE  OneMoreOf(s, i, U)
<1>1. PICK j \in 1..Len(s) : j = i + 1 /\ j - 1 = i
  OBVIOUS
<1>2. /\ SubSeq(s, 1, j) = Append(SubSeq(s, 1, j - 1), s[j])
      /\ SubSeq(s, 1, j - 1) \in Seq(U) /\ s[j] \in U
  BY Prefix
<1>3. /\ SubSeq(s, 1, i + 1) = Append(SubSeq(s, 1, i), s[i + 1])
      /\ SubSeq(s, 1, i) \in Seq(U) /\ s[i + 1] \in U
  BY <1>1, <1>2, Zenon
<1>4. QED
  BY <1>3, Zenon DEF OneMoreOf

LEMMA OnlyCounts ==
  ASSUME NEW U, NEW s \in Seq(U), NEW S
  PROVE  /\ Only(s, S) \in Seq(U)
         /\ \A P : CountIn(Only(s, S), P) = CountIn(s, S \cap P)
<1>1. PICK f : /\ f[0] = <<>>
               /\ \A n \in 1..Len(s) :
                    f[n] = IF s[n] \in S THEN Append(f[n - 1], s[n]) ELSE f[n - 1]
               /\ Only(s, S) = f[Len(s)]
  BY OnlyIs
<1> DEFINE Good(n) == /\ f[n] \in Seq(U)
                      /\ \A P : CountIn(f[n], P) = CountIn(SubSeq(s, 1, n), S \cap P)
           T == {n \in Nat : n <= Len(s) => Good(n)}
<1>2. 0 \in T
  <2>1. SubSeq(s, 1, 0) = <<>>
    OBVIOUS
  <2>2. ASSUME NEW P PROVE CountIn(f[0], P) = CountIn(SubSeq(s, 1, 0), S \cap P)
    BY <1>1, <2>1, CountNone, Zenon
  <2>3. Good(0)
    BY <1>1, <2>2
  <2>4. QED
    BY <2>3
<1>3. ASSUME NEW n \in Nat, n \in T PROVE n + 1 \in T
  <2> SUFFICES ASSUME n + 1 <= Len(s) PROVE Good(n + 1)
    OBVIOUS
  <2>1. Good(n) /\ n + 1 \in 1..Len(s)
    BY <1>3
  <2>2. /\ SubSeq(s, 1, n + 1) = Append(SubSeq(s, 1, n), s[n + 1])
        /\ SubSeq(s, 1, n) \in Seq(U) /\ s[n + 1] \in U
    <3>1. (n + 1) - 1 = n
      OBVIOUS
    <3>2. QED
      BY <2>1, <3>1, Prefix
  <2>3. f[n + 1] = IF s[n + 1] \in S THEN Append(f[n], s[n + 1]) ELSE f[n]
    BY <1>1, <2>1
  <2>4. ASSUME NEW P
        PROVE  CountIn(f[n + 1], P) = CountIn(SubSeq(s, 1, n + 1), S \cap P)
    <3>0. PICK Q : Q = S \cap P
      OBVIOUS
    <3>1. CountIn(SubSeq(s, 1, n + 1), Q)
            = CountIn(SubSeq(s, 1, n), Q) + (IF s[n + 1] \in Q THEN 1 ELSE 0)
      <4>1. PICK a \in Seq(U) : a = SubSeq(s, 1, n)
        BY <2>2
      <4>2. PICK x \in U : x = s[n + 1]
        BY <2>2
      <4>3. CountIn(Append(a, x), Q) = CountIn(a, Q) + (IF x \in Q THEN 1 ELSE 0)
        BY CountAppend
      <4>4. QED
        BY <2>2, <4>1, <4>2, <4>3
    <3>2. CountIn(Append(f[n], s[n + 1]), P) = CountIn(f[n], P) + (IF s[n + 1] \in P THEN 1 ELSE 0)
      BY <2>1, <2>2, CountAppend
    <3>3. CountIn(f[n], P) = CountIn(SubSeq(s, 1, n), S \cap P) /\ CountIn(f[n], P) \in Nat
      BY <2>1, CountType
    <3>4. QED
      BY <2>3, <3>0, <3>1, <3>2, <3>3
  <2>5. QED
    BY <2>1, <2>2, <2>3, <2>4
<1> HIDE DEF T
<1>4. Len(s) \in T
  BY <1>2, <1>3, Induction
<1>5. SubSeq(s, 1, Len(s)) = s
  OBVIOUS
<1>6. Good(Len(s))
  BY <1>4 DEF T
<1>7. QED
  BY <1>1, <1>5, <1>6

----------------------------------------------------------------------------
(* Sequences joined together                                               *)

\* What is joined has an element for every member of a finite set, if each
\* sequence has one for every member assigned to it.
Assigned(ss, P, W, h) ==
  \A i \in 1..Len(ss) : CountIn(ss[i], P) = Cardinality({w \in W : h[w] = i})

LEMMA FlattenCounts ==
  ASSUME NEW U, NEW ss \in Seq(Seq(U)), NEW P, NEW W, IsFiniteSet(W),
         NEW h \in [W -> 1..Len(ss)], Assigned(ss, P, W, h)
  PROVE  FlattenSeq(ss) \in Seq(U) /\ CountIn(FlattenSeq(ss), P) = Cardinality(W)
<1>0. Len(ss) \in Nat /\ \A i \in 1..Len(ss) : ss[i] \in Seq(U)
  OBVIOUS
<1>1. CASE Len(ss) = 0
  <2>1. ss = <<>> /\ FlattenSeq(ss) = ss
    BY <1>1 DEF FlattenSeq
  <2>2. W = {}
    BY <1>1
  <2>3. CountIn(<<>>, P) = 0 /\ Cardinality({}) = 0
    BY CountNone, FS_EmptySet
  <2>4. FlattenSeq(ss) = <<>> /\ <<>> \in Seq(U)
    BY <2>1
  <2>5. QED
    BY <2>2, <2>3, <2>4, Zenon
<1>2. CASE Len(ss) # 0
  <2>0. Len(ss) \in Nat \ {0}
    BY <1>0, <1>2
  <2>1. PICK f : /\ f = [i \in 1..Len(ss) |-> IF i = 1 THEN ss[i] ELSE f[i - 1] \o ss[i]]
                 /\ FlattenSeq(ss) = f[Len(ss)]
    BY <2>0, Flattened
  <2> DEFINE Upto(n) == {w \in W : h[w] <= n}
             Good(n) == f[n] \in Seq(U) /\ CountIn(f[n], P) = Cardinality(Upto(n))
             T == {n \in Nat : n + 1 <= Len(ss) => Good(n + 1)}
  <2>2. 0 \in T
    <3>1. f[1] = ss[1] /\ 1 \in 1..Len(ss)
      BY <2>0, <2>1
    <3>2. Upto(1) = {w \in W : h[w] = 1}
      BY <1>0
    <3>3. CountIn(ss[1], P) = Cardinality({w \in W : h[w] = 1})
      BY <3>1 DEF Assigned
    <3>4. Good(1)
      BY <1>0, <3>1, <3>2, <3>3
    <3>5. QED
      BY <3>4
  <2>3. ASSUME NEW n \in Nat, n \in T PROVE n + 1 \in T
    <3> SUFFICES ASSUME (n + 1) + 1 <= Len(ss) PROVE Good((n + 1) + 1)
      OBVIOUS
    <3> DEFINE m == n + 1
               Here == {w \in W : h[w] = m + 1}
    <3>1. Good(m) /\ m \in Nat /\ m \in 1..Len(ss) /\ m + 1 \in 1..Len(ss) /\ m + 1 # 1
      BY <1>0, <2>3
    <3>2. f[m + 1] = f[m] \o ss[m + 1]
      <4>1. (m + 1) - 1 = m
        OBVIOUS
      <4>2. QED
        BY <2>1, <3>1, <4>1
    <3>3. CountIn(f[m + 1], P) = CountIn(f[m], P) + CountIn(ss[m + 1], P)
      BY <1>0, <3>1, <3>2, CountConcat
    <3>4. CountIn(ss[m + 1], P) = Cardinality(Here)
      BY <3>1 DEF Assigned
    <3>5. Upto(m + 1) = Upto(m) \cup Here /\ Upto(m) \cap Here = {}
      BY <1>0, <3>1
    <3>6. /\ IsFiniteSet(Upto(m)) /\ IsFiniteSet(Here)
          /\ Cardinality(Upto(m)) \in Nat /\ Cardinality(Here) \in Nat
      <4>1. Upto(m) \subseteq W /\ Here \subseteq W
        OBVIOUS
      <4>2. QED
        BY <4>1, FS_Subset, FS_CardinalityType
    <3>8. f[m + 1] \in Seq(U)
      BY <1>0, <3>1, <3>2
    <3> HIDE DEF Upto, Here
    <3>7. Cardinality(Upto(m + 1)) = Cardinality(Upto(m)) + Cardinality(Here)
      <4>1. PICK A, B : A = Upto(m) /\ B = Here
        OBVIOUS
      <4>2. Cardinality(A \cup B) = Cardinality(A) + Cardinality(B) - Cardinality(A \cap B)
        BY <3>6, <4>1, FS_Union
      <4>3. A \cap B = {} /\ Cardinality({}) = 0
        BY <3>5, <4>1, FS_EmptySet
      <4>4. Cardinality(A \cup B) = Cardinality(A) + Cardinality(B)
        <5>1. Cardinality(A \cap B) = 0
          BY <4>3, Zenon
        <5>2. QED
          BY <3>6, <4>1, <4>2, <5>1
      <4>5. QED
        BY <3>5, <4>1, <4>4, Zenon
    <3>9. QED
      BY <3>1, <3>3, <3>4, <3>7, <3>8
  <2> HIDE DEF T
  <2>4. Len(ss) - 1 \in T
    <3>1. Len(ss) - 1 \in Nat
      BY <2>0
    <3>2. Nat \subseteq T
      BY <2>2, <2>3, Induction
    <3>3. QED
      BY <3>1, <3>2
  <2>5. Good(Len(ss))
    BY <2>0, <2>4 DEF T
  <2>6. Upto(Len(ss)) = W
    BY <1>0
  <2>7. QED
    BY <2>1, <2>5, <2>6
<1>3. QED
  BY <1>1, <1>2

----------------------------------------------------------------------------
(* Lookups                                                                 *)

\* Until a WHERE is evaluated the rows are those of the tables.
Fresh ==
  stage \in {"join", "scan"} => rows \in Seq(LeftRows) /\ right \in Seq(RightRows)

LEMMA InitFresh == SelectInit => Fresh
<1> SUFFICES ASSUME SelectInit PROVE rows \in Seq(LeftRows) /\ right \in Seq(RightRows)
  BY DEF Fresh
<1>1. PICK n, m \in 0..MaxInput : rows \in [1..n -> LeftRows] /\ right \in [1..m -> RightRows]
  BY DEF SelectInit
<1>2. n \in Nat /\ m \in Nat
  BY BoundsAssumption
<1>3. QED
  BY <1>1, <1>2

LEMMA NextFresh == Fresh /\ [SelectNext]_selectVars => Fresh'
<1> SUFFICES ASSUME Fresh, [SelectNext]_selectVars, stage' \in {"join", "scan"}
             PROVE  rows' \in Seq(LeftRows) /\ right' \in Seq(RightRows)
  BY DEF Fresh
<1>1. CASE Single
  BY <1>1 DEF Single, Goto, Fresh
<1>2. CASE UNCHANGED selectVars
  BY <1>2 DEF selectVars, Fresh
<1>3. stage' \notin {"join", "scan"} \/ Single \/ UNCHANGED selectVars
  <2>1. stage \in DOMAIN After => After[stage] \notin {"join", "scan"}
    BY DEF After
  <2>2. ASSUME NEW w \in Conditions, Lookup(w) \/ Filter(w) PROVE FALSE
    BY <2>1, <2>2 DEF Lookup, Filter, Goto
  <2>3. ASSUME NEW g \in Groupings, GroupBy(g) PROVE FALSE
    BY <2>3 DEF GroupBy, Goto
  <2>4. ASSUME NEW w \in Windows, Window(w) PROVE FALSE
    BY <2>4 DEF Window, Goto
  <2>5. ASSUME NEW keys \in Orders, OrderBy(keys) PROVE FALSE
    BY <2>5 DEF OrderBy, Goto
  <2>6. ASSUME NEW list \in SelectLists, Project(list) PROVE FALSE
    BY <2>6 DEF Project, Goto
  <2>7. ASSUME NEW wanted \in BOOLEAN, Distinct(wanted) PROVE FALSE
    BY <2>7 DEF Distinct, Goto
  <2>8. ASSUME NEW limit \in 0..MaxPage, NEW offset \in 0..MaxPage, Limit(limit, offset)
        PROVE  FALSE
    BY <2>8 DEF Limit, Goto
  <2>9. ASSUME NEW j \in Joins, Join(j) PROVE FALSE
    BY <2>9 DEF Join, Goto
  <2>10. ~NoFilter /\ ~NoGroupBy /\ ~NoWindow
    BY <2>1 DEF NoFilter, NoGroupBy, NoWindow, Goto
  <2>11. QED
    BY <2>2, <2>3, <2>4, <2>5, <2>6, <2>7, <2>8, <2>9, <2>10, Zenon DEF SelectNext
<1>4. QED
  BY <1>1, <1>2, <1>3

LEMMA SameTextIsEqual ==
  ASSUME NEW a \in Values, NEW b \in Values, Text(a) = Text(b)
  PROVE  CompareCells(a, b) = 0
<1>1. Num(a) = Num(b) \/ Num(a) = NoNumber \/ Num(b) = NoNumber
  BY CellsAssumption, PrintedAssumption DEF Values, Text, Num
<1>2. Num(a) # NoNumber => Num(a) \in Int
  BY CellsAssumption DEF Values, Num
<1>3. Text(a) \in Int
  BY CellsAssumption DEF Values, Text
<1>4. QED
  BY <1>1, <1>2, <1>3 DEF CompareCells, Sign

\* An index on two columns finds every row there is to find once, in
\* whatever order it goes through its buckets.
Buckets(hits, on, ts) ==
  FlattenSeq([i \in DOMAIN ts |-> Only(hits, {r \in ToSet(hits) : Text(r[on]) = ts[i]})])

LEMMA BucketsMakeUp ==
  ASSUME NEW U, NEW hits \in Seq(U), NEW on,
         NEW ts \in SetToSeqs({Text(hits[p][on]) : p \in DOMAIN hits}), NEW P
  PROVE  /\ Buckets(hits, on, ts) \in Seq(U)
         /\ CountIn(Buckets(hits, on, ts), P) = CountIn(hits, P)
<1> DEFINE D == DOMAIN hits
           F == [p \in D |-> Text(hits[p][on])]
           texts == {Text(hits[p][on]) : p \in DOMAIN hits}
           N == Cardinality(texts)
           bucket(i) == Only(hits, {r \in ToSet(hits) : Text(r[on]) = ts[i]})
           ss == [i \in DOMAIN ts |-> bucket(i)]
           W == {p \in DOMAIN hits : hits[p] \in P}
<1>1. IsFiniteSet(texts) /\ N \in Nat
  <2>1. F \in Surjection(D, texts)
    BY DEF Surjection
  <2>2. IsFiniteSet(D)
    BY FS_Interval
  <2> HIDE DEF F, D, texts
  <2>3. QED
    BY <2>1, <2>2, FS_Surjection, FS_CardinalityType
<1>2. /\ ts \in [1..N -> texts] /\ DOMAIN ts = 1..N
      /\ \A i, j \in 1..N : i # j => ts[i] # ts[j]
  BY DEF SetToSeqs
<1>3. \A t \in texts : \E i \in 1..N : ts[i] = t
  <2>1. ts \in Injection(1..N, texts)
    BY <1>2 DEF Injection, IsInjective
  <2>2. Cardinality(1..N) = N
    BY <1>1, FS_Interval
  <2> HIDE DEF texts
  <2>3. ts \in Surjection(1..N, texts)
    BY <1>1, <2>1, <2>2, FS_Injection
  <2>4. QED
    BY <2>3 DEF Surjection
<1>4. PICK h : h = [p \in W |-> CHOOSE i \in 1..N : ts[i] = F[p]]
  OBVIOUS
<1>5. ASSUME NEW p \in W PROVE h[p] \in 1..N /\ ts[h[p]] = F[p]
  <2>1. F[p] \in texts
    OBVIOUS
  <2> HIDE DEF texts, F
  <2>2. \E i \in 1..N : ts[i] = F[p]
    BY <1>3, <2>1
  <2>3. QED
    BY <1>4, <2>2
<1>6. ss \in Seq(Seq(U)) /\ Len(ss) = N
  <2>1. ASSUME NEW i \in 1..N PROVE bucket(i) \in Seq(U)
    BY OnlyCounts
  <2> HIDE DEF bucket
  <2>2. QED
    BY <1>1, <1>2, <2>1
<1>7. h \in [W -> 1..Len(ss)]
  BY <1>4, <1>5, <1>6
<1>8. Assigned(ss, P, W, h)
  <2> SUFFICES ASSUME NEW i \in 1..N
               PROVE  CountIn(bucket(i), P) = Cardinality({p \in W : h[p] = i})
    BY <1>2, <1>6 DEF Assigned
  <2>1. PICK S : S = {r \in ToSet(hits) : Text(r[on]) = ts[i]}
    OBVIOUS
  <2>2. CountIn(bucket(i), P) = CountIn(hits, S \cap P)
    BY <2>1, OnlyCounts
  <2>3. {p \in DOMAIN hits : hits[p] \in S \cap P} = {p \in W : h[p] = i}
    <3>1. ASSUME NEW p \in W PROVE h[p] = i <=> F[p] = ts[i]
      BY <1>2, <1>5
    <3>2. ASSUME NEW p \in W PROVE hits[p] \in S <=> F[p] = ts[i]
      BY <2>1 DEF ToSet
    <3>3. QED
      BY <3>1, <3>2
  <2>4. QED
    BY <2>2, <2>3 DEF CountIn
<1>9. IsFiniteSet(W) /\ Cardinality(W) = CountIn(hits, P)
  BY CountType DEF CountIn
<1> HIDE DEF ss, W
<1>10. FlattenSeq(ss) \in Seq(U) /\ CountIn(FlattenSeq(ss), P) = Cardinality(W)
  BY <1>6, <1>7, <1>8, <1>9, FlattenCounts
<1>11. QED
  BY <1>9, <1>10 DEF ss, Buckets

LEMMA LookupsMean == Fresh => LookupsMatchScans
<1> SUFFICES ASSUME rows \in Seq(LeftRows), stage = "scan",
                    NEW w \in {v \in Conditions : v.op = "=" /\ Resolve({v.at})},
                    \A p \in DOMAIN rows : CompareCells(rows[p][w.at], w.val) = 0
                                             => Text(rows[p][w.at]) = Text(w.val),
                    NEW found \in LookedUp(w), NEW r \in ToSet(rows)
             PROVE  Occurrences(r, found)
                      = Occurrences(r, Only(rows, {s \in ToSet(rows) : EvalWhere(s, w)}))
  BY Zenon DEF LookupsMatchScans, Fresh
<1> DEFINE H == {s \in ToSet(rows) : w.at \in DOMAIN s /\ Text(s[w.at]) = Text(w.val)}
           E == {s \in ToSet(rows) : EvalWhere(s, w)}
<1>1. ASSUME NEW s PROVE Occurrences(r, s) = CountIn(s, {r})
  BY DEF Occurrences, CountIn
<1>2. r \in H <=> r \in E
  <2>1. PICK p \in DOMAIN rows : r = rows[p]
    BY DEF ToSet
  <2>2. CASE w.at \in DOMAIN r
    <3>1. r \in LeftRows /\ r[w.at] \in Values /\ w.val \in Values
      BY <2>1, <2>2, TablesAssumption, ClausesAssumption
    <3>2. CompareCells(r[w.at], w.val) = 0 <=> Text(r[w.at]) = Text(w.val)
      BY <2>1, <3>1, SameTextIsEqual
    <3>3. EvalWhere(r, w) <=> CompareCells(r[w.at], w.val) = 0
      BY <2>2 DEF EvalWhere, Satisfies
    <3>4. QED
      BY <2>2, <3>2, <3>3
  <2>3. CASE w.at \notin DOMAIN r
    BY <2>3 DEF EvalWhere
  <2>4. QED
    BY <2>2, <2>3
<1>3. Hits(w) = Only(rows, H) /\ Hits(w) \in Seq(LeftRows)
  BY OnlyCounts DEF Hits
<1>4. CountIn(found, {r}) = CountIn(Hits(w), {r})
  <2>1. PICK hits \in Seq(LeftRows) : hits = Hits(w)
    BY <1>3
  <2>2. ASSUME NEW on \in DOMAIN cols \ {w.at},
               NEW ts \in SetToSeqs({Text(hits[p][on]) : p \in DOMAIN hits}),
               found = Buckets(hits, on, ts)
        PROVE  CountIn(found, {r}) = CountIn(hits, {r})
    BY <2>2, BucketsMakeUp
  <2>3. \/ found = hits
        \/ \E on \in DOMAIN cols \ {w.at} :
             \E ts \in SetToSeqs({Text(hits[p][on]) : p \in DOMAIN hits}) :
               found = Buckets(hits, on, ts)
    <3>1. \/ found = Hits(w)
          \/ \E on \in DOMAIN cols \ {w.at} :
               \E ts \in SetToSeqs({Text(Hits(w)[p][on]) : p \in DOMAIN Hits(w)}) :
                 found = Buckets(Hits(w), on, ts)
      BY DEF LookedUp, Buckets
    <3>2. QED
      BY <2>1, <3>1
  <2>4. QED
    BY <2>1, <2>2, <2>3
<1>5. PICK A, B, C : A = H /\ B = E /\ C = {r}
  OBVIOUS
<1>6. CountIn(Only(rows, A), C) = CountIn(Only(rows, B), C)
  <2>1. A \cap C = B \cap C
    BY <1>2, <1>5
  <2>2. CountIn(Only(rows, A), C) = CountIn(rows, A \cap C)
    BY OnlyCounts
  <2>3. CountIn(Only(rows, B), C) = CountIn(rows, B \cap C)
    BY OnlyCounts
  <2>4. QED
    BY <2>1, <2>2, <2>3, Zenon
<1>7. QED
  BY <1>1, <1>3, <1>4, <1>5, <1>6

\* SelectWhere finds in an index each row as often as fetchRows' scan does,
\* whatever order its buckets come in.
THEOREM LookupsFindWhatScansFind == SelectSpec => []LookupsMatchScans
  BY InitFresh, NextFresh, LookupsMean, PTL DEF SelectSpec

----------------------------------------------------------------------------
(* Joins                                                                   *)

LEMMA CountAll == ASSUME NEW U, NEW s \in Seq(U) PROVE CountIn(s, U) = Len(s)
<1>1. {p \in DOMAIN s : s[p] \in U} = 1..Len(s) /\ Len(s) \in Nat
  OBVIOUS
<1>2. Cardinality(1..Len(s)) = Len(s)
  <2>1. PICK n \in Nat : n = Len(s)
    BY <1>1
  <2>2. Cardinality(1..n) = IF 1 > n THEN 0 ELSE n - 1 + 1
    BY FS_Interval
  <2>3. QED
    BY <2>1, <2>2
<1>3. QED
  BY <1>1, <1>2 DEF CountIn

LEMMA CountOne ==
  ASSUME NEW U, NEW x \in U, NEW P
  PROVE  CountIn(<<x>>, P) = IF x \in P THEN 1 ELSE 0
<1>1. <<>> \in Seq(U) /\ <<x>> = Append(<<>>, x)
  OBVIOUS
<1>2. CountIn(Append(<<>>, x), P) = CountIn(<<>>, P) + (IF x \in P THEN 1 ELSE 0)
  BY <1>1, CountAppend
<1>3. CountIn(<<>>, P) = 0
  BY CountNone
<1>4. QED
  BY <1>1, <1>2, <1>3

\* The members of a set paired with one thing.
Before(x, K) == {<<x, k>> : k \in K}
Behind(K, x) == {<<k, x>> : k \in K}

LEMMA PairedWith ==
  ASSUME NEW K, IsFiniteSet(K), NEW x
  PROVE  /\ IsFiniteSet(Before(x, K)) /\ Cardinality(Before(x, K)) = Cardinality(K)
         /\ IsFiniteSet(Behind(K, x)) /\ Cardinality(Behind(K, x)) = Cardinality(K)
<1> DEFINE A == {<<x, k>> : k \in K}
           B == {<<k, x>> : k \in K}
           F == [k \in K |-> <<x, k>>]
           G == [k \in K |-> <<k, x>>]
<1>1. F \in Bijection(K, A)
  <2>1. F \in [K -> A] /\ \A i, j \in K : F[i] = F[j] => i = j
    OBVIOUS
  <2>2. \A u \in A : \E i \in K : F[i] = u
    OBVIOUS
  <2> HIDE DEF F, A
  <2>3. QED
    BY <2>1, <2>2, Fun_IsBij
<1>2. G \in Bijection(K, B)
  <2>1. G \in [K -> B] /\ \A i, j \in K : G[i] = G[j] => i = j
    OBVIOUS
  <2>2. \A u \in B : \E i \in K : G[i] = u
    OBVIOUS
  <2> HIDE DEF G, B
  <2>3. QED
    BY <2>1, <2>2, Fun_IsBij
<1>3. ExistsBijection(K, A) /\ ExistsBijection(K, B)
  BY <1>1, <1>2 DEF ExistsBijection
<1> HIDE DEF A, B
<1>4. QED
  BY <1>3, FS_Bijection DEF A, B, Before, Behind

\* What the rows of one side make: e[i][k] is row i with row k of the other
\* side, a[i] is row i alone.
Side(e, a, j, kept) == [i \in DOMAIN e |-> OrAlone(Matched(e[i], j), a[i], kept)]
Lonely(e, j, i) == \A k \in DOMAIN e[i] : ~Agree(e[i][k], j)

LEMMA MatchedIs ==
  ASSUME NEW U, NEW us \in Seq(U), NEW j
  PROVE  /\ Matched(us, j) \in Seq(U)
         /\ Matched(us, j) = <<>> <=> \A k \in DOMAIN us : ~Agree(us[k], j)
         /\ \A P : CountIn(Matched(us, j), P)
                     = Cardinality({k \in DOMAIN us : Agree(us[k], j) /\ us[k] \in P})
<1>1. PICK S : S = {u \in ToSet(us) : Agree(u, j)}
  OBVIOUS
<1>2. Matched(us, j) = Only(us, S)
  BY <1>1 DEF Matched
<1>3. Matched(us, j) \in Seq(U)
  BY <1>2, OnlyCounts
<1>4. ASSUME NEW P
      PROVE  CountIn(Matched(us, j), P)
               = Cardinality({k \in DOMAIN us : Agree(us[k], j) /\ us[k] \in P})
  <2>1. CountIn(Matched(us, j), P) = CountIn(us, S \cap P)
    BY <1>2, OnlyCounts
  <2>2. {k \in DOMAIN us : us[k] \in S \cap P}
          = {k \in DOMAIN us : Agree(us[k], j) /\ us[k] \in P}
    BY <1>1 DEF ToSet
  <2>3. QED
    BY <2>1, <2>2, Zenon DEF CountIn
<1>5. Len(Matched(us, j)) = Cardinality({k \in DOMAIN us : Agree(us[k], j) /\ us[k] \in U})
  BY <1>3, <1>4, CountAll
<1>6. IsFiniteSet({k \in DOMAIN us : Agree(us[k], j) /\ us[k] \in U})
  <2>1. IsFiniteSet(1..Len(us))
    BY FS_Interval
  <2>2. {k \in DOMAIN us : Agree(us[k], j) /\ us[k] \in U} \subseteq 1..Len(us)
    OBVIOUS
  <2>3. QED
    BY <2>1, <2>2, FS_Subset
<1>7. Len(Matched(us, j)) = 0 <=> {k \in DOMAIN us : Agree(us[k], j) /\ us[k] \in U} = {}
  BY <1>5, <1>6, FS_EmptySet
<1>8. {k \in DOMAIN us : Agree(us[k], j) /\ us[k] \in U} = {}
        <=> \A k \in DOMAIN us : ~Agree(us[k], j)
  OBVIOUS
<1>9. Matched(us, j) = <<>> <=> Len(Matched(us, j)) = 0
  BY <1>3
<1>10. QED
  BY <1>3, <1>4, <1>7, <1>8, <1>9

SideCounted(U, n, m, e, a, j, kept, P) ==
  /\ FlattenSeq(Side(e, a, j, kept)) \in Seq(U)
  /\ CountIn(FlattenSeq(Side(e, a, j, kept)), P)
       = Cardinality({ik \in (1..n) \X (1..m) :
                        Agree(e[ik[1]][ik[2]], j) /\ e[ik[1]][ik[2]] \in P})
         + Cardinality({i \in 1..n : kept /\ Lonely(e, j, i) /\ a[i] \in P})

LEMMA SideCounts ==
  ASSUME NEW U, NEW n \in Nat, NEW m \in Nat, NEW e \in [1..n -> [1..m -> U]],
         NEW a \in [1..n -> U], NEW j, NEW kept \in BOOLEAN, NEW P
  PROVE  SideCounted(U, n, m, e, a, j, kept, P)
<1> DEFINE ss == Side(e, a, j, kept)
           M == {ik \in (1..n) \X (1..m) :
                   Agree(e[ik[1]][ik[2]], j) /\ e[ik[1]][ik[2]] \in P}
           O == {i \in 1..n : kept /\ Lonely(e, j, i) /\ a[i] \in P}
           A == Behind(O, 0)
           W == M \cup A
<1> USE DEF Behind
<1>0. /\ IsFiniteSet(M) /\ IsFiniteSet(O) /\ Cardinality(M) \in Nat /\ Cardinality(O) \in Nat
      /\ IsFiniteSet(1..m)
  <2>1. IsFiniteSet(1..n) /\ IsFiniteSet(1..m)
    BY FS_Interval
  <2>2. IsFiniteSet((1..n) \X (1..m))
    BY <2>1, FS_Product
  <2>3. M \subseteq (1..n) \X (1..m) /\ O \subseteq 1..n
    OBVIOUS
  <2>4. IsFiniteSet(M) /\ IsFiniteSet(O)
    BY <2>1, <2>2, <2>3, FS_Subset
  <2>5. QED
    BY <2>1, <2>4, FS_CardinalityType
<1>1. IsFiniteSet(A) /\ Cardinality(A) = Cardinality(O)
  <2> HIDE DEF O, Behind
  <2>1. QED
    BY <1>0, PairedWith
<1>2. IsFiniteSet(W) /\ Cardinality(W) = Cardinality(M) + Cardinality(O)
  <2>1. M \cap A = {}
    OBVIOUS
  <2>2. PICK X, Y : X = M /\ Y = A
    OBVIOUS
  <2>3. Cardinality(X \cap Y) = 0
    BY <2>1, <2>2, FS_EmptySet, Zenon
  <2>4. /\ IsFiniteSet(X \cup Y)
        /\ Cardinality(X \cup Y) = Cardinality(X) + Cardinality(Y) - Cardinality(X \cap Y)
    BY <1>0, <1>1, <2>2, FS_Union
  <2> HIDE DEF M, A, O
  <2>5. QED
    BY <1>0, <1>1, <2>2, <2>3, <2>4
<1>3. \A i \in 1..n : e[i] \in Seq(U) /\ DOMAIN e[i] = 1..m
  OBVIOUS
<1>4. ASSUME NEW i \in 1..n
      PROVE  ss[i] \in Seq(U) /\ CountIn(ss[i], P) = Cardinality({w \in W : w[1] = i})
  <2>1. ss[i] = OrAlone(Matched(e[i], j), a[i], kept)
    BY DEF Side
  <2>2. CASE Lonely(e, j, i) /\ kept
    <3>1. ss[i] = <<a[i]>>
      <4>1. Matched(e[i], j) = <<>>
        BY <1>3, <2>2, MatchedIs DEF Lonely
      <4>2. QED
        BY <2>1, <2>2, <4>1 DEF OrAlone
    <3>2. {w \in M : w[1] = i} = {}
      BY <1>3, <2>2 DEF Lonely
    <3>3. {w \in A : w[1] = i} = IF a[i] \in P THEN {<<i, 0>>} ELSE {}
      BY <2>2
    <3>4. {w \in W : w[1] = i} = IF a[i] \in P THEN {<<i, 0>>} ELSE {}
      BY <3>2, <3>3
    <3>5. Cardinality({<<i, 0>>}) = 1 /\ Cardinality({}) = 0
      BY FS_Singleton, FS_EmptySet
    <3>6. a[i] \in U
      OBVIOUS
    <3>7. CountIn(<<a[i]>>, P) = IF a[i] \in P THEN 1 ELSE 0
      BY <3>6, CountOne
    <3> HIDE DEF ss, W
    <3>8. <<a[i]>> \in Seq(U)
      BY <3>6
    <3>9. CountIn(ss[i], P) = Cardinality({w \in W : w[1] = i})
      <4>1. CASE a[i] \in P
        BY <3>1, <3>4, <3>5, <3>7, <4>1
      <4>2. CASE a[i] \notin P
        BY <3>1, <3>4, <3>5, <3>7, <4>2
      <4>3. QED
        BY <4>1, <4>2
    <3>10. QED
      BY <3>1, <3>8, <3>9
  <2>3. CASE Lonely(e, j, i) /\ ~kept
    <3>1. ss[i] = <<>>
      <4>1. Matched(e[i], j) = <<>>
        BY <1>3, <2>3, MatchedIs DEF Lonely
      <4>2. QED
        BY <2>1, <2>3, <4>1 DEF OrAlone
    <3>2. {w \in W : w[1] = i} = {}
      BY <1>3, <2>3 DEF Lonely
    <3>3. <<>> \in Seq(U)
      OBVIOUS
    <3>4. CountIn(<<>>, P) = 0 /\ Cardinality({}) = 0
      BY CountNone, FS_EmptySet
    <3> HIDE DEF ss, W
    <3>5. QED
      BY <3>1, <3>2, <3>3, <3>4
  <2>4. CASE ~Lonely(e, j, i)
    <3>1. ss[i] = Matched(e[i], j)
      <4>1. Matched(e[i], j) # <<>>
        BY <1>3, <2>4, MatchedIs DEF Lonely
      <4>2. QED
        BY <2>1, <4>1 DEF OrAlone
    <3> DEFINE K == {k \in 1..m : Agree(e[i][k], j) /\ e[i][k] \in P}
    <3>2. ss[i] \in Seq(U)
      BY <1>3, <3>1, MatchedIs
    <3>3. CountIn(ss[i], P) = Cardinality(K)
      <4>1. PICK us \in Seq(U) : us = e[i] /\ DOMAIN us = 1..m
        BY <1>3
      <4>2. CountIn(Matched(us, j), P)
              = Cardinality({k \in DOMAIN us : Agree(us[k], j) /\ us[k] \in P})
        BY MatchedIs
      <4>3. QED
        BY <3>1, <4>1, <4>2
    <3>4. {w \in W : w[1] = i} = Before(i, K)
      <4> USE DEF Before
      <4>1. {w \in A : w[1] = i} = {}
        BY <2>4
      <4>2. {w \in M : w[1] = i} = Before(i, K)
        OBVIOUS
      <4>3. QED
        BY <4>1, <4>2
    <3>5. IsFiniteSet(K)
      <4>1. K \subseteq 1..m
        OBVIOUS
      <4>2. QED
        BY <1>0, <4>1, FS_Subset
    <3>6. Cardinality(Before(i, K)) = Cardinality(K)
      <4> HIDE DEF K
      <4>1. QED
        BY <3>5, PairedWith
    <3> HIDE DEF ss, W, K
    <3>7. QED
      BY <3>2, <3>3, <3>4, <3>6
  <2>5. QED
    BY <2>2, <2>3, <2>4
<1>5. ss \in Seq(Seq(U)) /\ Len(ss) = n
  <2>1. DOMAIN ss = 1..n /\ ss = [i \in 1..n |-> ss[i]]
    BY DEF Side
  <2> HIDE DEF ss
  <2>2. PICK V : V = Seq(U)
    OBVIOUS
  <2>3. ss \in [1..n -> V]
    BY <1>4, <2>1, <2>2
  <2>4. ss \in Seq(V) /\ Len(ss) = n
    BY <2>3
  <2>5. QED
    BY <2>2, <2>4
<1>6. PICK h : h = [w \in W |-> w[1]]
  OBVIOUS
<1>7. h \in [W -> 1..Len(ss)]
  BY <1>5, <1>6
<1>8. Assigned(ss, P, W, h)
  <2>1. ASSUME NEW i \in 1..n PROVE {w \in W : h[w] = i} = {w \in W : w[1] = i}
    BY <1>6
  <2> HIDE DEF W, ss
  <2>2. QED
    BY <1>4, <1>5, <2>1 DEF Assigned
<1> HIDE DEF W, ss, M, O
<1>9. FlattenSeq(ss) \in Seq(U) /\ CountIn(FlattenSeq(ss), P) = Cardinality(W)
  BY <1>2, <1>5, <1>7, <1>8, FlattenCounts
<1>10. QED
  BY <1>2, <1>9 DEF ss, M, O, SideCounted

\* The pairs of rows that agree and the rows that come alone.
Pairs(j) ==
  {ik \in (1..Len(rows)) \X (1..Len(right)) : Agree(rows[ik[1]] \o right[ik[2]], j)}
AloneLeft(j) ==
  {i \in 1..Len(rows) : /\ j.kind \in {"left", "full"}
                        /\ \A k \in 1..Len(right) : ~Agree(rows[i] \o right[k], j)}
AloneRight(j) ==
  {k \in 1..Len(right) : /\ j.kind \in {"right", "full"}
                         /\ \A i \in 1..Len(rows) : ~Agree(rows[i] \o right[k], j)}

\* How many of them are in P.
Made(j, P) ==
  Cardinality({ik \in Pairs(j) : rows[ik[1]] \o right[ik[2]] \in P})
    + Cardinality({i \in AloneLeft(j) : rows[i] \o Nulls(Len(RightCols)) \in P})
    + Cardinality({k \in AloneRight(j) : Nulls(Len(cols)) \o right[k] \in P})

Universe ==
  {rows[ik[1]] \o right[ik[2]] : ik \in (1..Len(rows)) \X (1..Len(right))}
  \cup {rows[i] \o Nulls(Len(RightCols)) : i \in 1..Len(rows)}
  \cup {Nulls(Len(cols)) \o right[k] : k \in 1..Len(right)}

\* The rows of FoldJoin before columns are dropped.
Lefts(j) ==
  Side([i \in 1..Len(rows) |-> [k \in 1..Len(right) |-> rows[i] \o right[k]]],
       [i \in 1..Len(rows) |-> rows[i] \o Nulls(Len(RightCols))],
       j, j.kind \in {"left", "full"})
Rights(j) ==
  Side([k \in 1..Len(right) |-> [i \in 1..Len(rows) |-> rows[i] \o right[k]]],
       [k \in 1..Len(right) |-> Nulls(Len(cols)) \o right[k]],
       j, TRUE)
Extra(j) ==
  LET S == {r \in ToSet(right) : \A i \in DOMAIN rows : ~Agree(rows[i] \o r, j)}
      alone == Only(right, S)
  IN [k \in DOMAIN alone |-> Nulls(Len(cols)) \o alone[k]]
Joined(j) ==
  CASE j.kind = "right" -> FlattenSeq(Rights(j))
    [] j.kind = "full" -> FlattenSeq(Lefts(j)) \o Extra(j)
    [] OTHER -> FlattenSeq(Lefts(j))

TablesGiven == rows \in Seq(LeftRows) /\ right \in Seq(RightRows)

LEMMA FoldJoinIs ==
  ASSUME TablesGiven, NEW j
  PROVE  FoldJoin(j, rows, right) = [i \in DOMAIN Joined(j) |-> Shown(Joined(j)[i], j)]
<1>1. DOMAIN rows = 1..Len(rows) /\ DOMAIN right = 1..Len(right)
  BY DEF TablesGiven
<1>2. Lefts(j) = [i \in DOMAIN rows |->
        OrAlone(Matched([k \in DOMAIN right |-> rows[i] \o right[k]], j),
                rows[i] \o Nulls(Len(RightCols)), j.kind \in {"left", "full"})]
  BY <1>1 DEF Lefts, Side
<1>3. Rights(j) = [k \in DOMAIN right |->
        OrAlone(Matched([i \in DOMAIN rows |-> rows[i] \o right[k]], j),
                Nulls(Len(cols)) \o right[k], TRUE)]
  BY <1>1 DEF Rights, Side
<1>4. QED
  BY <1>2, <1>3, Zenon DEF FoldJoin, Joined, Extra

LEMMA JoinSets ==
  ASSUME TablesGiven, NEW j
  PROVE  /\ IsFiniteSet(Pairs(j)) /\ IsFiniteSet(AloneLeft(j)) /\ IsFiniteSet(AloneRight(j))
         /\ Len(rows) \in Nat /\ Len(right) \in Nat
<1>0. Len(rows) \in Nat /\ Len(right) \in Nat
  BY DEF TablesGiven
<1>1. IsFiniteSet(1..Len(rows)) /\ IsFiniteSet(1..Len(right))
  BY <1>0, FS_Interval
<1>2. IsFiniteSet((1..Len(rows)) \X (1..Len(right)))
  BY <1>1, FS_Product
<1>3. /\ Pairs(j) \subseteq (1..Len(rows)) \X (1..Len(right))
      /\ AloneLeft(j) \subseteq 1..Len(rows) /\ AloneRight(j) \subseteq 1..Len(right)
  BY DEF Pairs, AloneLeft, AloneRight
<1>4. QED
  BY <1>0, <1>1, <1>2, <1>3, FS_Subset

LEMMA LeftsCount ==
  ASSUME TablesGiven, NEW j, NEW P
  PROVE  /\ FlattenSeq(Lefts(j)) \in Seq(Universe)
         /\ CountIn(FlattenSeq(Lefts(j)), P)
              = Cardinality({ik \in Pairs(j) : rows[ik[1]] \o right[ik[2]] \in P})
                + Cardinality({i \in AloneLeft(j) : rows[i] \o Nulls(Len(RightCols)) \in P})
<1>1. PICK n \in Nat, m \in Nat : n = Len(rows) /\ m = Len(right)
  BY DEF TablesGiven
<1>2. PICK e : e = [i \in 1..n |-> [k \in 1..m |-> rows[i] \o right[k]]]
  OBVIOUS
<1>3. PICK a : a = [i \in 1..n |-> rows[i] \o Nulls(Len(RightCols))]
  OBVIOUS
<1>4. PICK kept \in BOOLEAN : kept <=> j.kind \in {"left", "full"}
  OBVIOUS
<1>5. e \in [1..n -> [1..m -> Universe]]
  <2>1. ASSUME NEW i \in 1..n, NEW k \in 1..m PROVE rows[i] \o right[k] \in Universe
    <3>1. <<i, k>> \in (1..Len(rows)) \X (1..Len(right))
      BY <1>1
    <3>2. rows[<<i, k>>[1]] \o right[<<i, k>>[2]] = rows[i] \o right[k]
      OBVIOUS
    <3>3. QED
      BY <3>1, <3>2 DEF Universe
  <2>2. QED
    BY <1>2, <2>1
<1>6. a \in [1..n -> Universe]
  BY <1>1, <1>3 DEF Universe
<1>7. Lefts(j) = Side(e, a, j, kept)
  BY <1>1, <1>2, <1>3, <1>4 DEF Lefts
<1>8. {ik \in (1..n) \X (1..m) : Agree(e[ik[1]][ik[2]], j) /\ e[ik[1]][ik[2]] \in P}
        = {ik \in Pairs(j) : rows[ik[1]] \o right[ik[2]] \in P}
  BY <1>1, <1>2 DEF Pairs
<1>9. {i \in 1..n : kept /\ Lonely(e, j, i) /\ a[i] \in P}
        = {i \in AloneLeft(j) : rows[i] \o Nulls(Len(RightCols)) \in P}
  BY <1>1, <1>2, <1>3, <1>4 DEF AloneLeft, Lonely
<1>10. SideCounted(Universe, n, m, e, a, j, kept, P)
  BY <1>5, <1>6, SideCounts, Zenon
<1>11. QED
  BY <1>7, <1>8, <1>9, <1>10, Zenon DEF SideCounted

LEMMA RightsCount ==
  ASSUME TablesGiven, NEW j, j.kind = "right", NEW P
  PROVE  /\ FlattenSeq(Rights(j)) \in Seq(Universe)
         /\ CountIn(FlattenSeq(Rights(j)), P)
              = Cardinality({ik \in Pairs(j) : rows[ik[1]] \o right[ik[2]] \in P})
                + Cardinality({k \in AloneRight(j) : Nulls(Len(cols)) \o right[k] \in P})
<1>1. PICK n \in Nat, m \in Nat : n = Len(rows) /\ m = Len(right)
  BY DEF TablesGiven
<1>2. PICK e : e = [k \in 1..m |-> [i \in 1..n |-> rows[i] \o right[k]]]
  OBVIOUS
<1>3. PICK a : a = [k \in 1..m |-> Nulls(Len(cols)) \o right[k]]
  OBVIOUS
<1>5. e \in [1..m -> [1..n -> Universe]]
  <2>1. ASSUME NEW i \in 1..n, NEW k \in 1..m PROVE rows[i] \o right[k] \in Universe
    <3>1. <<i, k>> \in (1..Len(rows)) \X (1..Len(right))
      BY <1>1
    <3>2. rows[<<i, k>>[1]] \o right[<<i, k>>[2]] = rows[i] \o right[k]
      OBVIOUS
    <3>3. QED
      BY <3>1, <3>2 DEF Universe
  <2>2. QED
    BY <1>2, <2>1
<1>6. a \in [1..m -> Universe]
  BY <1>1, <1>3 DEF Universe
<1>7. Rights(j) = Side(e, a, j, TRUE)
  BY <1>1, <1>2, <1>3 DEF Rights
<1> DEFINE K == {ki \in (1..m) \X (1..n) : Agree(e[ki[1]][ki[2]], j) /\ e[ki[1]][ki[2]] \in P}
           I == {ik \in Pairs(j) : rows[ik[1]] \o right[ik[2]] \in P}
           F == [ik \in I |-> <<ik[2], ik[1]>>]
<1>8. Cardinality(K) = Cardinality(I)
  <2>1. F \in [I -> K] /\ \A x, y \in I : F[x] = F[y] => x = y
    <3>1. ASSUME NEW x \in I PROVE <<x[2], x[1]>> \in K
      <4>1. /\ x[1] \in 1..n /\ x[2] \in 1..m /\ Agree(rows[x[1]] \o right[x[2]], j)
            /\ rows[x[1]] \o right[x[2]] \in P
        BY <1>1 DEF Pairs
      <4>2. e[x[2]][x[1]] = rows[x[1]] \o right[x[2]]
        BY <1>2, <4>1
      <4>3. <<x[2], x[1]>>[1] = x[2] /\ <<x[2], x[1]>>[2] = x[1]
            /\ <<x[2], x[1]>> \in (1..m) \X (1..n)
        BY <4>1
      <4>4. QED
        BY <4>1, <4>2, <4>3
    <3>2. ASSUME NEW x \in I, NEW y \in I, F[x] = F[y] PROVE x = y
      <4>1. x \in (1..n) \X (1..m) /\ y \in (1..n) \X (1..m)
        BY <1>1 DEF Pairs
      <4>2. F[x] = <<x[2], x[1]>> /\ F[y] = <<y[2], y[1]>>
        OBVIOUS
      <4>3. x[1] = y[1] /\ x[2] = y[2]
        BY <3>2, <4>2
      <4>4. QED
        BY <4>1, <4>3
    <3> HIDE DEF I, K
    <3>3. QED
      BY <3>1, <3>2
  <2>2. \A y \in K : \E x \in I : F[x] = y
    <3>1. ASSUME NEW y \in K PROVE <<y[2], y[1]>> \in I /\ F[<<y[2], y[1]>>] = y
      BY <1>1, <1>2 DEF Pairs
    <3>2. QED
      BY <3>1
  <2>3. IsFiniteSet(I)
    <3>1. I \subseteq Pairs(j)
      OBVIOUS
    <3>2. QED
      BY <3>1, JoinSets, FS_Subset
  <2> HIDE DEF F, I, K
  <2>4. ExistsBijection(I, K)
    <3>1. F \in Bijection(I, K)
      BY <2>1, <2>2, Fun_IsBij
    <3>2. QED
      BY <3>1 DEF ExistsBijection
  <2>5. QED
    BY <2>3, <2>4, FS_Bijection
<1>9. {k \in 1..m : TRUE /\ Lonely(e, j, k) /\ a[k] \in P}
        = {k \in AloneRight(j) : Nulls(Len(cols)) \o right[k] \in P}
  BY <1>1, <1>2, <1>3 DEF AloneRight, Lonely
<1>10. /\ FlattenSeq(Side(e, a, j, TRUE)) \in Seq(Universe)
       /\ CountIn(FlattenSeq(Side(e, a, j, TRUE)), P)
            = Cardinality(K)
              + Cardinality({k \in 1..m : TRUE /\ Lonely(e, j, k) /\ a[k] \in P})
  <2>1. SideCounted(Universe, m, n, e, a, j, TRUE, P)
    BY <1>5, <1>6, SideCounts, Zenon
  <2>2. QED
    BY <2>1, Zenon DEF SideCounted
<1>11. QED
  BY <1>7, <1>8, <1>9, <1>10

LEMMA ExtraCount ==
  ASSUME TablesGiven, NEW j, j.kind = "full", NEW P
  PROVE  /\ Extra(j) \in Seq(Universe)
         /\ CountIn(Extra(j), P)
              = Cardinality({k \in AloneRight(j) : Nulls(Len(cols)) \o right[k] \in P})
<1>0. DOMAIN rows = 1..Len(rows) /\ DOMAIN right = 1..Len(right)
  BY DEF TablesGiven
<1>1. PICK V : V = ToSet(right) /\ right \in Seq(V)
  <2>1. PICK V : V = ToSet(right)
    OBVIOUS
  <2>2. right \in Seq(V)
    BY <2>1 DEF TablesGiven, ToSet
  <2>3. QED
    BY <2>1, <2>2
<1>2. PICK S : S = {r \in ToSet(right) : \A i \in DOMAIN rows : ~Agree(rows[i] \o r, j)}
  OBVIOUS
<1>3. PICK alone \in Seq(V) : alone = Only(right, S)
  BY <1>1, OnlyCounts
<1>4. Extra(j) = [k \in DOMAIN alone |-> Nulls(Len(cols)) \o alone[k]]
  BY <1>2, <1>3 DEF Extra
<1>5. ASSUME NEW r \in V PROVE Nulls(Len(cols)) \o r \in Universe
  BY <1>0, <1>1 DEF ToSet, Universe
<1>6. Extra(j) \in Seq(Universe)
  <2>1. DOMAIN alone = 1..Len(alone) /\ \A k \in 1..Len(alone) : alone[k] \in V
    OBVIOUS
  <2>2. \A k \in 1..Len(alone) : Nulls(Len(cols)) \o alone[k] \in Universe
    BY <1>5, <2>1
  <2>3. PICK U : U = Universe
    OBVIOUS
  <2>4. Extra(j) \in [1..Len(alone) -> U] /\ Len(alone) \in Nat
    BY <1>4, <2>1, <2>2, <2>3
  <2>5. QED
    BY <2>3, <2>4
<1>7. PICK Q : Q = {r \in V : Nulls(Len(cols)) \o r \in P}
  OBVIOUS
<1>8. CountIn(Extra(j), P) = CountIn(alone, Q)
  <2>1. {p \in DOMAIN Extra(j) : Extra(j)[p] \in P} = {p \in DOMAIN alone : alone[p] \in Q}
    BY <1>4, <1>7
  <2>2. QED
    BY <2>1 DEF CountIn
<1>9. CountIn(alone, Q) = CountIn(right, S \cap Q)
  BY <1>1, <1>3, OnlyCounts
<1>10. {p \in DOMAIN right : right[p] \in S \cap Q}
         = {k \in AloneRight(j) : Nulls(Len(cols)) \o right[k] \in P}
  BY <1>0, <1>1, <1>2, <1>7 DEF AloneRight, ToSet
<1>11. QED
  BY <1>6, <1>8, <1>9, <1>10 DEF CountIn

LEMMA JoinedCounts ==
  ASSUME TablesGiven, NEW j, j.kind \in JoinKinds, NEW P
  PROVE  Joined(j) \in Seq(Universe) /\ CountIn(Joined(j), P) = Made(j, P)
<1> DEFINE A == Cardinality({ik \in Pairs(j) : rows[ik[1]] \o right[ik[2]] \in P})
           B == Cardinality({i \in AloneLeft(j) : rows[i] \o Nulls(Len(RightCols)) \in P})
           C == Cardinality({k \in AloneRight(j) : Nulls(Len(cols)) \o right[k] \in P})
<1>1. A \in Nat /\ B \in Nat /\ C \in Nat
  <2>1. /\ {ik \in Pairs(j) : rows[ik[1]] \o right[ik[2]] \in P} \subseteq Pairs(j)
        /\ {i \in AloneLeft(j) : rows[i] \o Nulls(Len(RightCols)) \in P} \subseteq AloneLeft(j)
        /\ {k \in AloneRight(j) : Nulls(Len(cols)) \o right[k] \in P} \subseteq AloneRight(j)
    OBVIOUS
  <2>2. QED
    BY <2>1, JoinSets, FS_Subset, FS_CardinalityType
<1>2. Made(j, P) = A + B + C
  BY DEF Made
<1>3. FlattenSeq(Lefts(j)) \in Seq(Universe) /\ CountIn(FlattenSeq(Lefts(j)), P) = A + B
  BY LeftsCount
<1>4. j.kind \notin {"right", "full"} => C = 0
  <2>1. j.kind \notin {"right", "full"} =>
          {k \in AloneRight(j) : Nulls(Len(cols)) \o right[k] \in P} = {}
    BY DEF AloneRight
  <2>2. Cardinality({}) = 0
    BY FS_EmptySet
  <2>3. QED
    BY <2>1, <2>2, Zenon
<1>5. j.kind = "right" => B = 0
  <2>1. j.kind = "right" =>
          {i \in AloneLeft(j) : rows[i] \o Nulls(Len(RightCols)) \in P} = {}
    BY DEF AloneLeft
  <2>2. Cardinality({}) = 0
    BY FS_EmptySet
  <2>3. QED
    BY <2>1, <2>2, Zenon
<1>6. j.kind = "right" =>
        FlattenSeq(Rights(j)) \in Seq(Universe) /\ CountIn(FlattenSeq(Rights(j)), P) = A + C
  BY RightsCount
<1>7. j.kind = "full" => Extra(j) \in Seq(Universe) /\ CountIn(Extra(j), P) = C
  BY ExtraCount
<1> HIDE DEF A, B, C
<1>8. CASE j.kind = "right"
  BY <1>1, <1>2, <1>5, <1>6, <1>8 DEF Joined
<1>9. CASE j.kind = "full"
  <2>1. Joined(j) = FlattenSeq(Lefts(j)) \o Extra(j)
    BY <1>9 DEF Joined
  <2>2. CountIn(Joined(j), P) = CountIn(FlattenSeq(Lefts(j)), P) + CountIn(Extra(j), P)
    BY <1>3, <1>7, <1>9, <2>1, CountConcat
  <2>3. Joined(j) \in Seq(Universe)
    BY <1>3, <1>7, <1>9, <2>1
  <2>4. QED
    BY <1>1, <1>2, <1>3, <1>7, <1>9, <2>2, <2>3
<1>10. CASE j.kind \in {"inner", "left"}
  <2>1. Joined(j) = FlattenSeq(Lefts(j))
    BY <1>10 DEF Joined
  <2>2. QED
    BY <1>1, <1>2, <1>3, <1>4, <1>10, <2>1
<1>11. QED
  BY <1>8, <1>9, <1>10 DEF JoinKinds

\* What JoinsCount counts: the rows of the result that are u.
MadeAs(j, u) ==
  Cardinality({ik \in Pairs(j) : Shown(rows[ik[1]] \o right[ik[2]], j) = u})
    + Cardinality({i \in AloneLeft(j) : Shown(rows[i] \o Nulls(Len(RightCols)), j) = u})
    + Cardinality({k \in AloneRight(j) : Shown(Nulls(Len(cols)) \o right[k], j) = u})

LEMMA InUniverse ==
  ASSUME TablesGiven, NEW j
  PROVE  /\ \A ik \in Pairs(j) : rows[ik[1]] \o right[ik[2]] \in Universe
         /\ \A i \in AloneLeft(j) : rows[i] \o Nulls(Len(RightCols)) \in Universe
         /\ \A k \in AloneRight(j) : Nulls(Len(cols)) \o right[k] \in Universe
  BY DEF Pairs, AloneLeft, AloneRight, Universe

LEMMA JoinLength ==
  ASSUME TablesGiven, NEW j, j.kind \in JoinKinds
  PROVE  Len(FoldJoin(j, rows, right))
           = Cardinality(Pairs(j)) + Cardinality(AloneLeft(j)) + Cardinality(AloneRight(j))
<1>1. PICK us \in Seq(Universe) : us = Joined(j)
  BY JoinedCounts
<1>2. CountIn(us, Universe) = Made(j, Universe)
  BY <1>1, JoinedCounts
<1>3. Len(FoldJoin(j, rows, right)) = Len(us)
  <2>1. FoldJoin(j, rows, right) = [i \in DOMAIN us |-> Shown(us[i], j)]
    BY <1>1, FoldJoinIs
  <2>2. DOMAIN us = 1..Len(us) /\ Len(us) \in Nat
    OBVIOUS
  <2>3. QED
    BY <2>1, <2>2
<1>4. CountIn(us, Universe) = Len(us)
  BY CountAll
<1>5. /\ {ik \in Pairs(j) : rows[ik[1]] \o right[ik[2]] \in Universe} = Pairs(j)
      /\ {i \in AloneLeft(j) : rows[i] \o Nulls(Len(RightCols)) \in Universe} = AloneLeft(j)
      /\ {k \in AloneRight(j) : Nulls(Len(cols)) \o right[k] \in Universe} = AloneRight(j)
  BY InUniverse
<1>6. QED
  BY <1>2, <1>3, <1>4, <1>5 DEF Made

LEMMA JoinOccurrences ==
  ASSUME TablesGiven, NEW j, j.kind \in JoinKinds, NEW u
  PROVE  Occurrences(u, FoldJoin(j, rows, right)) = MadeAs(j, u)
<1>1. PICK us \in Seq(Universe) : us = Joined(j)
  BY JoinedCounts
<1>2. PICK P : P = {v \in Universe : Shown(v, j) = u}
  OBVIOUS
<1>3. CountIn(us, P) = Made(j, P)
  BY <1>1, JoinedCounts
<1>4. Occurrences(u, FoldJoin(j, rows, right)) = CountIn(us, P)
  <2>1. FoldJoin(j, rows, right) = [i \in DOMAIN us |-> Shown(us[i], j)]
    BY <1>1, FoldJoinIs
  <2>2. PICK out : out = FoldJoin(j, rows, right)
    OBVIOUS
  <2>3. {p \in DOMAIN out : out[p] = u} = {p \in DOMAIN us : us[p] \in P}
    BY <1>2, <2>1, <2>2
  <2>4. QED
    BY <2>2, <2>3, Zenon DEF CountIn, Occurrences
<1>5. /\ {ik \in Pairs(j) : rows[ik[1]] \o right[ik[2]] \in P}
           = {ik \in Pairs(j) : Shown(rows[ik[1]] \o right[ik[2]], j) = u}
      /\ {i \in AloneLeft(j) : rows[i] \o Nulls(Len(RightCols)) \in P}
           = {i \in AloneLeft(j) : Shown(rows[i] \o Nulls(Len(RightCols)), j) = u}
      /\ {k \in AloneRight(j) : Nulls(Len(cols)) \o right[k] \in P}
           = {k \in AloneRight(j) : Shown(Nulls(Len(cols)) \o right[k], j) = u}
  BY <1>2, InUniverse
<1>6. QED
  BY <1>3, <1>4, <1>5 DEF Made, MadeAs

LEMMA JoinsMean == Fresh => JoinsCount
<1> SUFFICES ASSUME TablesGiven, stage = "join", NEW j \in Joins
             PROVE
    LET out == FoldJoin(j, rows, right)
        L == DOMAIN rows
        R == DOMAIN right
        agree(i, k) == Agree(rows[i] \o right[k], j)
        pairs == {ik \in L \X R : agree(ik[1], ik[2])}
        lone == {i \in L : j.kind \in {"left", "full"} /\ \A k \in R : ~agree(i, k)}
        alone == {k \in R : j.kind \in {"right", "full"} /\ \A i \in L : ~agree(i, k)}
        pair(ik) == Shown(rows[ik[1]] \o right[ik[2]], j)
        left(i) == Shown(rows[i] \o Nulls(Len(RightCols)), j)
        rite(k) == Shown(Nulls(Len(cols)) \o right[k], j)
    IN /\ Len(out) = Cardinality(pairs) + Cardinality(lone) + Cardinality(alone)
       /\ \A u \in ToSet(out) :
            Occurrences(u, out) = Cardinality({ik \in pairs : pair(ik) = u})
              + Cardinality({i \in lone : left(i) = u})
              + Cardinality({k \in alone : rite(k) = u})
  BY Zenon DEF JoinsCount, Fresh, TablesGiven
<1>1. j.kind \in JoinKinds
  BY DEF Joins, JoinKinds, Cross, Natural, On
<1>2. DOMAIN rows = 1..Len(rows) /\ DOMAIN right = 1..Len(right)
  BY DEF TablesGiven
<1>3. Len(FoldJoin(j, rows, right))
        = Cardinality(Pairs(j)) + Cardinality(AloneLeft(j)) + Cardinality(AloneRight(j))
  BY <1>1, JoinLength
<1>4. ASSUME NEW u PROVE Occurrences(u, FoldJoin(j, rows, right)) = MadeAs(j, u)
  BY <1>1, JoinOccurrences
<1> DEFINE A == {ik \in (DOMAIN rows) \X (DOMAIN right) : Agree(rows[ik[1]] \o right[ik[2]], j)}
           B == {i \in DOMAIN rows : /\ j.kind \in {"left", "full"}
                                     /\ \A k \in DOMAIN right : ~Agree(rows[i] \o right[k], j)}
           C == {k \in DOMAIN right : /\ j.kind \in {"right", "full"}
                                      /\ \A i \in DOMAIN rows : ~Agree(rows[i] \o right[k], j)}
<1>5. Pairs(j) = A /\ AloneLeft(j) = B /\ AloneRight(j) = C
  <2>1. Pairs(j) = A
    <3>1. PICK X : X = (1..Len(rows)) \X (1..Len(right))
      OBVIOUS
    <3>2. X = (DOMAIN rows) \X (DOMAIN right)
      BY <1>2, <3>1
    <3>3. A = {ik \in X : Agree(rows[ik[1]] \o right[ik[2]], j)}
      BY <3>2, Zenon
    <3>4. Pairs(j) = {ik \in X : Agree(rows[ik[1]] \o right[ik[2]], j)}
      BY <3>1, Zenon DEF Pairs
    <3>5. QED
      BY <3>3, <3>4, Zenon
  <2>2. AloneLeft(j) = B
    BY <1>2 DEF AloneLeft
  <2>3. AloneRight(j) = C
    BY <1>2 DEF AloneRight
  <2>4. QED
    BY <2>1, <2>2, <2>3
<1>6. Len(FoldJoin(j, rows, right)) = Cardinality(A) + Cardinality(B) + Cardinality(C)
  <2> HIDE DEF A, B, C
  <2>1. QED
    BY <1>3, <1>5
<1>7. ASSUME NEW u
      PROVE  Occurrences(u, FoldJoin(j, rows, right))
               = Cardinality({ik \in A : Shown(rows[ik[1]] \o right[ik[2]], j) = u})
                 + Cardinality({i \in B : Shown(rows[i] \o Nulls(Len(RightCols)), j) = u})
                 + Cardinality({k \in C : Shown(Nulls(Len(cols)) \o right[k], j) = u})
  <2> HIDE DEF A, B, C
  <2>1. QED
    BY <1>4, <1>5 DEF MadeAs
<1>8. QED
  <2>1. ASSUME NEW u \in ToSet(FoldJoin(j, rows, right))
        PROVE  Occurrences(u, FoldJoin(j, rows, right))
                 = Cardinality({ik \in A : Shown(rows[ik[1]] \o right[ik[2]], j) = u})
                   + Cardinality({i \in B : Shown(rows[i] \o Nulls(Len(RightCols)), j) = u})
                   + Cardinality({k \in C : Shown(Nulls(Len(cols)) \o right[k], j) = u})
    BY <1>7, Zenon
  <2>2. QED
    BY <1>6, <2>1, Zenon

\* foldJoin returns each row as often as there are pairs that make it and
\* rows alone on a side the join keeps.
THEOREM JoinsPairRows == SelectSpec => []JoinsCount
  BY InitFresh, NextFresh, JoinsMean, PTL DEF SelectSpec

----------------------------------------------------------------------------
(* Recursion                                                               *)

Recurs(f, k, base, G) == f[0] = base /\ \A i \in 1..k : f[i] = G[<<i, f[i - 1]>>]

LEMMA Recursion ==
  ASSUME NEW k \in Nat, NEW S, NEW base \in S, NEW G \in [(1..k) \X S -> S]
  PROVE  \E f \in [0..k -> S] : Recurs(f, k, base, G)
<1> DEFINE Is(f, n) == /\ f \in [0..n -> S] /\ f[0] = base
                       /\ \A i \in 1..n : f[i] = G[<<i, f[i - 1]>>]
           T == {n \in Nat : n <= k => \E f : Is(f, n)}
<1>1. 0 \in T
  <2>1. Is([i \in 0..0 |-> base], 0)
    OBVIOUS
  <2>2. QED
    BY <2>1
<1>2. ASSUME NEW n \in Nat, n \in T PROVE n + 1 \in T
  <2> SUFFICES ASSUME n + 1 <= k PROVE \E f : Is(f, n + 1)
    OBVIOUS
  <2>1. PICK f : Is(f, n)
    BY <1>2
  <2>2. f[n] \in S /\ n + 1 \in 1..k /\ <<n + 1, f[n]>> \in (1..k) \X S
    BY <2>1
  <2>3. PICK x \in S : x = G[<<n + 1, f[n]>>]
    BY <2>2
  <2>4. PICK g : g = [i \in 0..n + 1 |-> IF i = n + 1 THEN x ELSE f[i]]
    OBVIOUS
  <2>5. g \in [0..n + 1 -> S] /\ g[0] = base
    BY <2>1, <2>3, <2>4
  <2>6. ASSUME NEW i \in 1..n + 1 PROVE g[i] = G[<<i, g[i - 1]>>]
    <3>1. CASE i = n + 1
      <4>1. i - 1 = n /\ n \in 0..n + 1 /\ n # n + 1 /\ n + 1 \in 0..n + 1
        BY <3>1
      <4>2. g[i] = x /\ g[i - 1] = f[n]
        BY <2>4, <3>1, <4>1
      <4>3. QED
        BY <2>3, <3>1, <4>2
    <3>2. CASE i \in 1..n
      <4>1. /\ i - 1 \in 0..n + 1 /\ i - 1 # n + 1 /\ i # n + 1 /\ i \in 0..n + 1
        BY <3>2
      <4>2. g[i] = f[i] /\ g[i - 1] = f[i - 1]
        BY <2>4, <4>1
      <4>3. QED
        BY <2>1, <3>2, <4>2
    <3>3. QED
      BY <3>1, <3>2
  <2>7. Is(g, n + 1)
    BY <2>5, <2>6
  <2> HIDE DEF Is
  <2>8. QED
    BY <2>7
<1> HIDE DEF T
<1>3. k \in T
  BY <1>1, <1>2, Induction
<1>4. QED
  BY <1>3 DEF T, Recurs

----------------------------------------------------------------------------
(* Sums                                                                    *)

Summing(t, f, n) == /\ t = [i \in 0..n |-> t[i]] /\ t[0] = 0
                    /\ \A i \in 1..n : t[i] = t[i - 1] + f[i]

LEMMA TotalIs ==
  ASSUME NEW n \in Nat, NEW f \in [1..n -> Int]
  PROVE  \E t : Summing(t, f, n) /\ Total(f) = t[n]
<1> DEFINE G == [x \in (1..n) \X Int |-> x[2] + f[x[1]]]
           Is(t) == t = [i \in 0..Len(f) |-> IF i = 0 THEN 0 ELSE t[i - 1] + f[i]]
           F == CHOOSE t : Is(t)
<1>1. Len(f) = n /\ G \in [(1..n) \X Int -> Int]
  OBVIOUS
<1>2. PICK t \in [0..n -> Int] : t[0] = 0 /\ \A i \in 1..n : t[i] = G[<<i, t[i - 1]>>]
  <2> HIDE DEF G
  <2>0. 0 \in Int
    OBVIOUS
  <2>1. \E t \in [0..n -> Int] : Recurs(t, n, 0, G)
    BY <1>1, <2>0, Recursion, Zenon
  <2>2. QED
    BY <2>1, Zenon DEF Recurs
<1>3. ASSUME NEW i \in 1..n PROVE t[i] = t[i - 1] + f[i]
  <2>1. i - 1 \in 0..n
    OBVIOUS
  <2>2. <<i, t[i - 1]>> \in (1..n) \X Int
    BY <2>1
  <2>3. QED
    BY <1>2, <2>2
<1>4. Is(t)
  <2>1. ASSUME NEW i \in 0..n PROVE t[i] = IF i = 0 THEN 0 ELSE t[i - 1] + f[i]
    BY <1>2, <1>3
  <2>2. t = [i \in 0..n |-> t[i]]
    OBVIOUS
  <2>3. t = [i \in 0..n |-> IF i = 0 THEN 0 ELSE t[i - 1] + f[i]]
    BY <2>1, <2>2, Zenon
  <2>4. QED
    BY <1>1, <2>3
<1>5. Total(f) = F[Len(f)]
  BY DEF Total
<1> HIDE DEF Is
<1>6. Is(F)
  BY <1>4
<1> HIDE DEF F
<1>7. PICK u : u = F /\ Is(u)
  BY <1>6
<1>8. u[0] = 0 /\ \A i \in 1..n : u[i] = u[i - 1] + f[i]
  <2>1. u[0] = 0
    BY <1>1, <1>7 DEF Is
  <2>2. ASSUME NEW i \in 1..n PROVE u[i] = u[i - 1] + f[i]
    <3>1. i \in 0..n /\ i # 0
      OBVIOUS
    <3>2. QED
      BY <1>1, <1>7, <3>1 DEF Is
  <2>3. QED
    BY <2>1, <2>2
<1>9. u = [i \in 0..n |-> u[i]]
  BY <1>1, <1>7 DEF Is
<1>10. Summing(u, f, n)
  BY <1>8, <1>9 DEF Summing
<1>11. QED
  BY <1>1, <1>5, <1>7, <1>10

LEMMA TotalUnique ==
  ASSUME NEW n \in Nat, NEW f \in [1..n -> Int], NEW t, t[0] = 0,
         \A i \in 1..n : t[i] = t[i - 1] + f[i]
  PROVE  Total(f) = t[n] /\ Total(f) \in Int
<1>1. PICK u : Summing(u, f, n) /\ Total(f) = u[n]
  BY TotalIs
<1> DEFINE T == {i \in Nat : i <= n => t[i] = u[i] /\ u[i] \in Int}
<1>2. 0 \in T
  BY <1>1 DEF Summing
<1>3. ASSUME NEW i \in Nat, i \in T PROVE i + 1 \in T
  <2> SUFFICES ASSUME i + 1 <= n PROVE t[i + 1] = u[i + 1] /\ u[i + 1] \in Int
    OBVIOUS
  <2>1. i + 1 \in 1..n /\ (i + 1) - 1 = i /\ t[i] = u[i] /\ u[i] \in Int
    BY <1>3
  <2>2. t[i + 1] = t[i] + f[i + 1]
    BY <2>1
  <2>3. u[i + 1] = u[i] + f[i + 1]
    BY <1>1, <2>1 DEF Summing
  <2>4. f[i + 1] \in Int
    BY <2>1
  <2>5. QED
    BY <2>1, <2>2, <2>3, <2>4
<1> HIDE DEF T
<1>4. n \in T
  BY <1>2, <1>3, Induction
<1>5. QED
  BY <1>1, <1>4 DEF T

LEMMA TotalInt == ASSUME NEW n \in Nat, NEW f \in [1..n -> Int] PROVE Total(f) \in Int
<1>1. PICK t : Summing(t, f, n) /\ Total(f) = t[n]
  BY TotalIs
<1>2. QED
  BY <1>1, TotalUnique DEF Summing

LEMMA TotalZero ==
  ASSUME NEW n \in Nat, NEW f \in [1..n -> Int], \A i \in 1..n : f[i] = 0
  PROVE  Total(f) = 0
<1>1. PICK t : t = [i \in 0..n |-> 0]
  OBVIOUS
<1>2. t[0] = 0 /\ \A i \in 1..n : t[i] = t[i - 1] + f[i]
  BY <1>1
<1>3. Total(f) = t[n]
  BY <1>2, TotalUnique
<1>4. QED
  BY <1>1, <1>3

Elsewhere(f, n, k) == \A i \in 1..n : i # k => f[i] = 0

LEMMA TotalOne ==
  ASSUME NEW n \in Nat, NEW f \in [1..n -> Int], NEW k \in 1..n, Elsewhere(f, n, k)
  PROVE  Total(f) = f[k]
<1>1. PICK t : t = [i \in 0..n |-> IF i < k THEN 0 ELSE f[k]]
  OBVIOUS
<1>2. ASSUME NEW i \in 1..n PROVE t[i] = t[i - 1] + f[i]
  <2>1. i - 1 \in 0..n /\ i \in 0..n /\ f[k] \in Int
    OBVIOUS
  <2>2. t[i] = (IF i < k THEN 0 ELSE f[k]) /\ t[i - 1] = (IF i - 1 < k THEN 0 ELSE f[k])
    BY <1>1, <2>1
  <2>3. QED
    BY <2>1, <2>2 DEF Elsewhere
<1>3. t[0] = 0
  BY <1>1
<1>4. Total(f) = t[n]
  BY <1>2, <1>3, TotalUnique
<1>5. QED
  BY <1>1, <1>4

LEMMA TotalAdd ==
  ASSUME NEW n \in Nat, NEW f \in [1..n -> Int], NEW g \in [1..n -> Int],
         NEW h \in [1..n -> Int], \A i \in 1..n : h[i] = f[i] + g[i]
  PROVE  Total(h) = Total(f) + Total(g)
<1>1. PICK t : Summing(t, f, n) /\ Total(f) = t[n]
  BY TotalIs
<1>2. PICK u : Summing(u, g, n) /\ Total(g) = u[n]
  BY TotalIs
<1>3. PICK v : v = [i \in 0..n |-> t[i] + u[i]]
  OBVIOUS
<1> DEFINE T == {i \in Nat : i <= n => t[i] \in Int /\ u[i] \in Int}
<1>4. 0 \in T
  BY <1>1, <1>2 DEF Summing
<1>5. ASSUME NEW i \in Nat, i \in T PROVE i + 1 \in T
  <2> SUFFICES ASSUME i + 1 <= n PROVE t[i + 1] \in Int /\ u[i + 1] \in Int
    OBVIOUS
  <2>1. i + 1 \in 1..n /\ (i + 1) - 1 = i /\ t[i] \in Int /\ u[i] \in Int
    BY <1>5
  <2>2. t[i + 1] = t[i] + f[i + 1] /\ u[i + 1] = u[i] + g[i + 1]
    BY <1>1, <1>2, <2>1 DEF Summing
  <2>3. QED
    BY <2>1, <2>2
<1>6. \A i \in 0..n : t[i] \in Int /\ u[i] \in Int
  <2> HIDE DEF T
  <2>1. Nat \subseteq T
    BY <1>4, <1>5, Induction
  <2>2. QED
    BY <2>1 DEF T
<1>7. ASSUME NEW i \in 1..n PROVE v[i] = v[i - 1] + h[i]
  <2>1. i - 1 \in 0..n /\ i \in 0..n
    OBVIOUS
  <2>2. t[i] = t[i - 1] + f[i] /\ u[i] = u[i - 1] + g[i]
    BY <1>1, <1>2 DEF Summing
  <2>3. v[i] = t[i] + u[i] /\ v[i - 1] = t[i - 1] + u[i - 1]
    BY <1>3, <2>1
  <2>4. /\ t[i - 1] \in Int /\ u[i - 1] \in Int
        /\ f[i] \in Int /\ g[i] \in Int /\ h[i] = f[i] + g[i]
    BY <1>6, <2>1
  <2>5. QED
    BY <2>2, <2>3, <2>4
<1>8. v[0] = 0
  BY <1>1, <1>2, <1>3 DEF Summing
<1>9. Total(h) = v[n]
  BY <1>7, <1>8, TotalUnique
<1>10. QED
  BY <1>1, <1>2, <1>3, <1>9

\* Rows and columns of numbers sum up to the same.
LEMMA TotalTwice ==
  ASSUME NEW n \in Nat, NEW m \in Nat, NEW a \in [1..n -> [1..m -> Int]]
  PROVE  Total([i \in 1..n |-> Total(a[i])])
           = Total([k \in 1..m |-> Total([i \in 1..n |-> a[i][k]])])
<1> DEFINE Column(k) == [i \in 1..n |-> a[i][k]]
           Sums(c) == \A k \in 1..m : Summing(c[k], Column(k), n) /\ Total(Column(k)) = c[k][n]
<1>1. \A k \in 1..m : Column(k) \in [1..n -> Int]
  OBVIOUS
<1>2. PICK c : c = [k \in 1..m |-> CHOOSE t : Summing(t, Column(k), n) /\ Total(Column(k)) = t[n]]
  OBVIOUS
<1>3. Sums(c)
  <2> SUFFICES ASSUME NEW k \in 1..m
               PROVE  Summing(c[k], Column(k), n) /\ Total(Column(k)) = c[k][n]
    OBVIOUS
  <2>1. \E t : Summing(t, Column(k), n) /\ Total(Column(k)) = t[n]
    BY <1>1, TotalIs
  <2>2. QED
    BY <1>2, <2>1
<1>4. \A k \in 1..m : c[k][0] = 0 /\ \A i \in 1..n : c[k][i] = c[k][i - 1] + a[i][k]
  BY <1>3 DEF Summing
<1> DEFINE T == {i \in Nat : i <= n => \A k \in 1..m : c[k][i] \in Int}
<1>5. \A i \in 0..n : \A k \in 1..m : c[k][i] \in Int
  <2>1. 0 \in T
    BY <1>4
  <2>2. ASSUME NEW i \in Nat, i \in T PROVE i + 1 \in T
    <3> SUFFICES ASSUME i + 1 <= n, NEW k \in 1..m PROVE c[k][i + 1] \in Int
      OBVIOUS
    <3>1. i + 1 \in 1..n /\ (i + 1) - 1 = i /\ c[k][i] \in Int
      BY <2>2
    <3>2. c[k][i + 1] = c[k][i] + a[i + 1][k] /\ a[i + 1][k] \in Int
      BY <1>4, <3>1
    <3>3. PICK x \in Int, y \in Int : x = c[k][i] /\ y = a[i + 1][k]
      BY <3>1, <3>2
    <3>4. c[k][i + 1] = x + y
      BY <3>2, <3>3, Zenon
    <3>5. QED
      BY <3>4
  <2> HIDE DEF T
  <2>3. Nat \subseteq T
    BY <2>1, <2>2, Induction
  <2>4. QED
    BY <2>3 DEF T
<1>6. PICK d : d = [i \in 0..n |-> [k \in 1..m |-> c[k][i]]]
  OBVIOUS
<1>7. \A i \in 0..n : d[i] \in [1..m -> Int]
  BY <1>5, <1>6
<1>8. PICK t : t = [i \in 0..n |-> Total(d[i])]
  OBVIOUS
<1>9. PICK f : f = [i \in 1..n |-> Total(a[i])]
  OBVIOUS
<1>10. f \in [1..n -> Int]
  <2>1. ASSUME NEW i \in 1..n PROVE Total(a[i]) \in Int
    <3>1. a[i] \in [1..m -> Int]
      OBVIOUS
    <3>2. QED
      BY <3>1, TotalInt
  <2>2. QED
    BY <1>9, <2>1
<1>11. ASSUME NEW i \in 1..n PROVE t[i] = t[i - 1] + f[i]
  <2>1. i - 1 \in 0..n /\ i \in 0..n /\ a[i] \in [1..m -> Int]
    OBVIOUS
  <2>2. \A k \in 1..m : d[i][k] = d[i - 1][k] + a[i][k]
    BY <1>4, <1>6, <2>1
  <2>3. d[i] \in [1..m -> Int] /\ d[i - 1] \in [1..m -> Int]
    BY <1>7, <2>1
  <2>4. Total(d[i]) = Total(d[i - 1]) + Total(a[i])
    BY <2>1, <2>2, <2>3, TotalAdd
  <2>5. QED
    BY <1>8, <1>9, <2>1, <2>4
<1>12. t[0] = 0
  <2>1. d[0] \in [1..m -> Int] /\ \A k \in 1..m : d[0][k] = 0
    BY <1>4, <1>6, <1>7
  <2>2. Total(d[0]) = 0
    BY <2>1, TotalZero
  <2>3. QED
    BY <1>8, <2>2
<1>13. Total(f) = t[n]
  BY <1>10, <1>11, <1>12, TotalUnique
<1>14. t[n] = Total([k \in 1..m |-> Total(Column(k))])
  <2>1. d[n] = [k \in 1..m |-> Total(Column(k))]
    BY <1>3, <1>6
  <2>2. QED
    BY <1>8, <2>1
<1>15. QED
  BY <1>9, <1>13, <1>14

----------------------------------------------------------------------------
(* What is in the elements of a sequence that are in a set                 *)

LEMMA OnlyMembers ==
  ASSUME NEW U, NEW s \in Seq(U), NEW S
  PROVE  /\ \A i \in DOMAIN Only(s, S) : Only(s, S)[i] \in S
         /\ Only(s, S) = <<>> <=> \A p \in DOMAIN s : s[p] \notin S
<1>1. PICK t \in Seq(U) : t = Only(s, S)
  BY OnlyCounts
<1>2. PICK R : R = U \ S
  OBVIOUS
<1>3. CountIn(t, R) = CountIn(s, S \cap R) /\ CountIn(t, U) = CountIn(s, S \cap U)
  BY <1>1, OnlyCounts
<1>4. {p \in DOMAIN s : s[p] \in S \cap R} = {} /\ Cardinality({}) = 0
  BY <1>2, FS_EmptySet
<1>5. CountIn(t, R) = 0
  BY <1>3, <1>4 DEF CountIn
<1>6. {p \in DOMAIN t : t[p] \in R} = {}
  <2>1. IsFiniteSet({p \in DOMAIN t : t[p] \in R})
    BY CountType
  <2>2. QED
    BY <1>5, <2>1, FS_EmptySet DEF CountIn
<1>7. \A i \in DOMAIN t : t[i] \in S
  BY <1>2, <1>6
<1>8. {p \in DOMAIN s : s[p] \in S \cap U} = {} <=> CountIn(s, S \cap U) = 0
  <2>1. IsFiniteSet({p \in DOMAIN s : s[p] \in S \cap U})
    <3>1. PICK P : P = S \cap U
      OBVIOUS
    <3>2. IsFiniteSet({p \in DOMAIN s : s[p] \in P})
      BY CountType
    <3>3. QED
      BY <3>1, <3>2
  <2>2. QED
    BY <2>1, FS_EmptySet DEF CountIn
<1>9. CountIn(t, U) = Len(t) /\ t = <<>> <=> Len(t) = 0
  BY CountAll
<1>10. {p \in DOMAIN s : s[p] \in S \cap U} = {} <=> \A p \in DOMAIN s : s[p] \notin S
  <2>1. \A p \in DOMAIN s : s[p] \in U
    OBVIOUS
  <2>2. QED
    BY <2>1
<1>11. t = <<>> <=> Len(t) = 0
  OBVIOUS
<1>12. CountIn(t, U) = Len(t)
  BY CountAll
<1>13. QED
  BY <1>1, <1>3, <1>7, <1>8, <1>10, <1>11, <1>12

----------------------------------------------------------------------------
(* Sums over the rows of a sequence                                        *)

Weights(s, wt) == [p \in DOMAIN s |-> wt[s[p]]]
Weight(s, wt) == Total(Weights(s, wt))

LEMMA WeightsType ==
  ASSUME NEW V, NEW s \in Seq(V), NEW wt \in [V -> Int]
  PROVE  Weights(s, wt) \in [1..Len(s) -> Int] /\ Len(s) \in Nat
  BY DEF Weights

LEMMA WeightAppend ==
  ASSUME NEW V, NEW s \in Seq(V), NEW x \in V, NEW wt \in [V -> Int]
  PROVE  Weight(Append(s, x), wt) = Weight(s, wt) + wt[x]
<1>1. PICK n \in Nat : n = Len(s)
  OBVIOUS
<1>2. PICK f \in [1..n -> Int] : f = Weights(s, wt)
  BY <1>1, WeightsType
<1>3. PICK t : Summing(t, f, n) /\ Total(f) = t[n]
  BY TotalIs
<1>4. PICK g : g = Weights(Append(s, x), wt)
  OBVIOUS
<1>5. g \in [1..n + 1 -> Int] /\ n + 1 \in Nat
  <2>1. Append(s, x) \in Seq(V) /\ Len(Append(s, x)) = n + 1
    BY <1>1
  <2>2. QED
    BY <1>4, <2>1, WeightsType
<1>6. g[n + 1] = wt[x] /\ \A i \in 1..n : g[i] = f[i]
  BY <1>1, <1>2, <1>4 DEF Weights
<1>7. PICK u : u = [i \in 0..n + 1 |-> IF i <= n THEN t[i] ELSE t[n] + wt[x]]
  OBVIOUS
<1>8. ASSUME NEW i \in 1..n + 1 PROVE u[i] = u[i - 1] + g[i]
  <2>1. CASE i = n + 1
    <3>1. i - 1 = n /\ n <= n /\ n \in 0..n + 1 /\ ~(n + 1 <= n) /\ n + 1 \in 0..n + 1
      BY <2>1
    <3>2. u[i] = t[n] + wt[x] /\ u[i - 1] = t[n]
      BY <1>7, <2>1, <3>1
    <3>3. QED
      BY <1>6, <2>1, <3>2
  <2>2. CASE i \in 1..n
    <3>1. i - 1 \in 0..n + 1 /\ i \in 0..n + 1 /\ i <= n /\ i - 1 <= n
      BY <2>2
    <3>2. u[i] = t[i] /\ u[i - 1] = t[i - 1]
      BY <1>7, <3>1
    <3>3. QED
      BY <1>3, <1>6, <2>2, <3>2 DEF Summing
  <2>3. QED
    BY <2>1, <2>2
<1>9. u[0] = 0
  BY <1>3, <1>7 DEF Summing
<1>10. Total(g) = u[n + 1]
  BY <1>5, <1>8, <1>9, TotalUnique
<1>11. u[n + 1] = t[n] + wt[x]
  BY <1>7
<1>12. QED
  BY <1>2, <1>3, <1>4, <1>10, <1>11 DEF Weight

LEMMA WeightNone == ASSUME NEW wt PROVE Weight(<<>>, wt) = 0
<1>1. PICK f : f = Weights(<<>>, wt)
  OBVIOUS
<1>2. f \in [1..0 -> Int] /\ 0 \in Nat
  BY <1>1 DEF Weights
<1>3. PICK n \in Nat : n = 0
  OBVIOUS
<1>4. f \in [1..n -> Int] /\ \A i \in 1..n : f[i] = 0
  BY <1>2, <1>3
<1>5. Total(f) = 0
  BY <1>4, TotalZero
<1>6. QED
  BY <1>1, <1>5 DEF Weight

\* The weight of the elements in a set.
Within(s, S, wt) == [p \in DOMAIN s |-> IF s[p] \in S THEN wt[s[p]] ELSE 0]

LEMMA OnlyWeights ==
  ASSUME NEW V, NEW s \in Seq(V), NEW S, NEW wt \in [V -> Int]
  PROVE  /\ Weight(Only(s, S), wt) = Total(Within(s, S, wt))
         /\ Within(s, S, wt) \in [1..Len(s) -> Int]
<1>1. PICK f : /\ f[0] = <<>>
               /\ \A n \in 1..Len(s) :
                    f[n] = IF s[n] \in S THEN Append(f[n - 1], s[n]) ELSE f[n - 1]
               /\ Only(s, S) = f[Len(s)]
  BY OnlyIs
<1>2. PICK m \in Nat : m = Len(s) /\ \A p \in 1..m : s[p] \in V
  OBVIOUS
<1>3. PICK g : g = Within(s, S, wt)
  OBVIOUS
<1>4. /\ g \in [1..m -> Int]
      /\ \A p \in 1..m : g[p] = IF s[p] \in S THEN wt[s[p]] ELSE 0
  BY <1>2, <1>3 DEF Within
<1>5. PICK t : t = [n \in 0..m |-> Weight(f[n], wt)]
  OBVIOUS
<1> DEFINE T == {n \in Nat : n <= m => f[n] \in Seq(V)}
<1>6. 0 \in T
  <2>1. <<>> \in Seq(V)
    OBVIOUS
  <2>2. QED
    BY <1>1, <2>1
<1>7. ASSUME NEW n \in Nat, n \in T PROVE n + 1 \in T
  <2> SUFFICES ASSUME n + 1 <= m PROVE f[n + 1] \in Seq(V)
    OBVIOUS
  <2>1. n + 1 \in 1..Len(s) /\ (n + 1) - 1 = n /\ f[n] \in Seq(V) /\ s[n + 1] \in V
    BY <1>2, <1>7
  <2>2. f[n + 1] = IF s[n + 1] \in S THEN Append(f[n], s[n + 1]) ELSE f[n]
    BY <1>1, <2>1
  <2>3. QED
    BY <2>1, <2>2
<1>8. \A n \in 0..m : f[n] \in Seq(V)
  <2> HIDE DEF T
  <2>1. Nat \subseteq T
    BY <1>6, <1>7, Induction
  <2>2. QED
    BY <2>1 DEF T
<1>9. ASSUME NEW n \in 1..m PROVE t[n] = t[n - 1] + g[n]
  <2>1. n \in 0..m /\ n - 1 \in 0..m /\ f[n - 1] \in Seq(V) /\ s[n] \in V
    BY <1>2, <1>8
  <2>2. t[n] = Weight(f[n], wt) /\ t[n - 1] = Weight(f[n - 1], wt)
    BY <1>5, <2>1
  <2>3. f[n] = IF s[n] \in S THEN Append(f[n - 1], s[n]) ELSE f[n - 1]
    BY <1>1, <1>2
  <2>4. Weight(f[n - 1], wt) \in Int
    <3>1. PICK z \in Seq(V) : z = f[n - 1]
      BY <2>1
    <3>2. Weights(z, wt) \in [1..Len(z) -> Int] /\ Len(z) \in Nat
      BY WeightsType
    <3>3. Total(Weights(z, wt)) \in Int
      BY <3>2, TotalInt
    <3>4. QED
      BY <3>1, <3>3 DEF Weight
  <2>5. CASE s[n] \in S
    <3>1. Weight(Append(f[n - 1], s[n]), wt) = Weight(f[n - 1], wt) + wt[s[n]]
      BY <2>1, WeightAppend
    <3>2. QED
      BY <1>4, <2>2, <2>3, <2>5, <3>1
  <2>6. CASE s[n] \notin S
    BY <1>4, <2>2, <2>3, <2>4, <2>6
  <2>7. QED
    BY <2>5, <2>6
<1>10. t[0] = 0
  BY <1>1, <1>5, WeightNone
<1>11. Total(g) = t[m]
  BY <1>4, <1>9, <1>10, TotalUnique
<1>12. QED
  BY <1>1, <1>2, <1>3, <1>4, <1>5, <1>11

\* A sequence is as heavy as its parts, if every element is in one of them.
LEMMA SplitWeights ==
  ASSUME NEW V, NEW s \in Seq(V), NEW wt \in [V -> Int], NEW n \in Nat, NEW S,
         NEW part, \A p \in DOMAIN s : /\ part[p] \in 1..n
                                       /\ \A i \in 1..n : s[p] \in S[i] <=> i = part[p]
  PROVE  Total([i \in 1..n |-> Weight(Only(s, S[i]), wt)]) = Weight(s, wt)
<1>1. PICK m \in Nat : m = Len(s) /\ DOMAIN s = 1..m /\ \A p \in 1..m : s[p] \in V
  OBVIOUS
<1>2. PICK a : a = [i \in 1..n |-> Within(s, S[i], wt)]
  OBVIOUS
<1>3. a \in [1..n -> [1..m -> Int]]
  <2>1. ASSUME NEW i \in 1..n PROVE Within(s, S[i], wt) \in [1..m -> Int]
    BY <1>1, OnlyWeights
  <2>2. QED
    BY <1>2, <2>1
<1>4. \A i \in 1..n : Weight(Only(s, S[i]), wt) = Total(a[i])
  BY <1>2, OnlyWeights
<1>5. [i \in 1..n |-> Weight(Only(s, S[i]), wt)] = [i \in 1..n |-> Total(a[i])]
  BY <1>4
<1>6. Total([i \in 1..n |-> Total(a[i])])
        = Total([k \in 1..m |-> Total([i \in 1..n |-> a[i][k]])])
  BY <1>3, TotalTwice
<1>7. ASSUME NEW k \in 1..m PROVE Total([i \in 1..n |-> a[i][k]]) = wt[s[k]]
  <2>1. PICK c : c = [i \in 1..n |-> a[i][k]]
    OBVIOUS
  <2>2. c \in [1..n -> Int]
    BY <1>3, <2>1
  <2>3. PICK j \in 1..n : \A i \in 1..n : s[k] \in S[i] <=> i = j
    <3>1. k \in DOMAIN s
      BY <1>1
    <3>2. part[k] \in 1..n /\ \A i \in 1..n : s[k] \in S[i] <=> i = part[k]
      BY <3>1
    <3>3. QED
      BY <3>2, Zenon
  <2>4. \A i \in 1..n : c[i] = IF s[k] \in S[i] THEN wt[s[k]] ELSE 0
    BY <1>1, <1>2, <2>1 DEF Within
  <2>5. c[j] = wt[s[k]] /\ \A i \in 1..n : i # j => c[i] = 0
    BY <2>3, <2>4
  <2>6. Total(c) = c[j]
    <3>1. Elsewhere(c, n, j)
      BY <2>5 DEF Elsewhere
    <3>2. QED
      BY <2>2, <3>1, TotalOne
  <2>7. QED
    BY <2>1, <2>5, <2>6
<1>8. [k \in 1..m |-> Total([i \in 1..n |-> a[i][k]])] = Weights(s, wt)
  BY <1>1, <1>7 DEF Weights
<1>9. QED
  BY <1>5, <1>6, <1>8 DEF Weight

Marks(wt, A, V) == \A r \in V : wt[r] = IF r \in A THEN 1 ELSE 0

LEMMA CountWeight ==
  ASSUME NEW V, NEW s \in Seq(V), NEW A, NEW wt \in [V -> Int], Marks(wt, A, V)
  PROVE  CountIn(s, A) = Weight(s, wt)
<1> USE DEF Marks
<1>1. PICK m \in Nat : m = Len(s)
  OBVIOUS
<1>2. PICK f \in [1..m -> Int] : f = Weights(s, wt)
  BY <1>1, WeightsType
<1>3. PICK t : t = [i \in 0..m |-> CountIn(SubSeq(s, 1, i), A)]
  OBVIOUS
<1>4. ASSUME NEW i \in 1..m PROVE t[i] = t[i - 1] + f[i]
  <2>1. i \in 0..m /\ i - 1 \in 0..m
    OBVIOUS
  <2>2. /\ SubSeq(s, 1, i) = Append(SubSeq(s, 1, i - 1), s[i])
        /\ SubSeq(s, 1, i - 1) \in Seq(V) /\ s[i] \in V
    BY <1>1, Prefix
  <2>3. PICK z \in Seq(V), x \in V : z = SubSeq(s, 1, i - 1) /\ x = s[i]
    BY <2>2
  <2>4. CountIn(Append(z, x), A) = CountIn(z, A) + (IF x \in A THEN 1 ELSE 0)
    BY CountAppend
  <2>5. f[i] = wt[x]
    BY <1>1, <1>2, <2>3 DEF Weights
  <2>6. t[i] = CountIn(Append(z, x), A) /\ t[i - 1] = CountIn(z, A)
    BY <1>3, <2>1, <2>2, <2>3
  <2>7. QED
    BY <2>4, <2>5, <2>6
<1>5. t[0] = 0
  <2>1. SubSeq(s, 1, 0) = <<>>
    OBVIOUS
  <2>0. 0 \in 0..m
    OBVIOUS
  <2>2. t[0] = CountIn(<<>>, A)
    BY <1>3, <2>0, <2>1, Zenon
  <2>3. QED
    BY <2>2, CountNone
<1>6. Total(f) = t[m]
  BY <1>4, <1>5, TotalUnique
<1>7. t[m] = CountIn(s, A)
  <2>1. SubSeq(s, 1, m) = s /\ m \in 0..m
    BY <1>1
  <2>2. QED
    BY <1>3, <2>1, Zenon
<1>8. QED
  BY <1>2, <1>6, <1>7 DEF Weight

----------------------------------------------------------------------------
(* Groups                                                                  *)

New(s) == {p \in DOMAIN s : \A q \in 1..(p - 1) : s[q] # s[p]}

\* Firsts lists the new positions, each of them once.
LEMMA FirstsAre ==
  ASSUME NEW U, NEW s \in Seq(U)
  PROVE  /\ Firsts(s) \in Seq(1..Len(s)) /\ \A i \in DOMAIN Firsts(s) : Firsts(s)[i] \in New(s)
         /\ \A i, j \in DOMAIN Firsts(s) : Firsts(s)[i] = Firsts(s)[j] => i = j
         /\ \A p \in New(s) : \E i \in DOMAIN Firsts(s) : Firsts(s)[i] = p
<1>1. PICK n \in Nat : n = Len(s) /\ DOMAIN s = 1..n
  OBVIOUS
<1>2. PICK id \in Seq(1..n) : id = [p \in 1..n |-> p] /\ DOMAIN id = 1..n
  <2>1. PICK id : id = [p \in 1..n |-> p]
    OBVIOUS
  <2>2. id \in [1..n -> 1..n]
    BY <2>1
  <2>3. id \in Seq(1..n) /\ DOMAIN id = 1..n
    BY <2>2
  <2>4. QED
    BY <2>1, <2>3
<1>3. PICK S : S = New(s)
  OBVIOUS
<1>4. PICK t \in Seq(1..n) : t = Only(id, S) /\ t = Firsts(s)
  <2>1. Firsts(s) = Only(id, S)
    BY <1>1, <1>2, <1>3 DEF Firsts, New
  <2>2. Only(id, S) \in Seq(1..n)
    BY OnlyCounts
  <2>3. QED
    BY <2>1, <2>2
<1>5. \A i \in DOMAIN t : t[i] \in S
  BY <1>4, OnlyMembers
<1>6. ASSUME NEW p \in S
      PROVE  \E x : {i \in DOMAIN t : t[i] \in {p}} = {x}
  <2>1. p \in 1..n /\ S \cap {p} = {p}
    BY <1>1, <1>3 DEF New
  <2>2. PICK P : P = {p}
    OBVIOUS
  <2>3. CountIn(t, P) = CountIn(id, S \cap P)
    <3>1. PICK N : N = 1..n
      OBVIOUS
    <3>2. PICK e \in Seq(N) : e = id
      BY <3>1
    <3>3. CountIn(Only(e, S), P) = CountIn(e, S \cap P)
      BY OnlyCounts
    <3>4. QED
      BY <1>4, <3>2, <3>3
  <2>4. {i \in DOMAIN id : id[i] \in S \cap P} = {p}
    BY <1>2, <2>1, <2>2
  <2>5. CountIn(id, S \cap P) = 1
    BY <2>4, FS_Singleton DEF CountIn
  <2>6. IsFiniteSet({i \in DOMAIN t : t[i] \in P})
    BY CountType
  <2>7. PICK A : A = {i \in DOMAIN t : t[i] \in P}
    OBVIOUS
  <2>8. Cardinality(A) = 1 /\ IsFiniteSet(A)
    BY <2>3, <2>5, <2>6, <2>7 DEF CountIn
  <2>9. \E x : A = {x}
    BY <2>8, FS_Singleton
  <2>10. QED
    BY <2>2, <2>7, <2>9
<1>7. ASSUME NEW i \in DOMAIN t, NEW j \in DOMAIN t, t[i] = t[j] PROVE i = j
  <2>1. PICK p \in S : p = t[i]
    BY <1>5
  <2>2. PICK x : {k \in DOMAIN t : t[k] \in {p}} = {x}
    BY <1>6
  <2>3. i \in {k \in DOMAIN t : t[k] \in {p}} /\ j \in {k \in DOMAIN t : t[k] \in {p}}
    BY <1>7, <2>1
  <2>4. QED
    BY <2>2, <2>3
<1>8. ASSUME NEW p \in S PROVE \E i \in DOMAIN t : t[i] = p
  <2>1. PICK x : {k \in DOMAIN t : t[k] \in {p}} = {x}
    BY <1>6
  <2>2. x \in {k \in DOMAIN t : t[k] \in {p}}
    BY <2>1
  <2>3. QED
    BY <2>2
<1>9. QED
  BY <1>1, <1>3, <1>4, <1>5, <1>7, <1>8

\* Every element of a sequence has a first place.
LEMMA FirstPlace ==
  ASSUME NEW U, NEW s \in Seq(U), NEW p \in DOMAIN s
  PROVE  \E q \in New(s) : s[q] = s[p]
<1> DEFINE T == {q \in DOMAIN s : s[q] = s[p]}
<1>1. T \subseteq Nat /\ T # {}
  OBVIOUS
<1>2. PICK q \in T : \A r \in T : q <= r
  <2> HIDE DEF T
  <2>1. QED
    BY <1>1, Least
<1>3. ASSUME NEW r \in 1..(q - 1) PROVE s[r] # s[q]
  <2>1. r \in DOMAIN s /\ ~(q <= r)
    OBVIOUS
  <2>2. QED
    BY <1>2, <2>1
<1>4. q \in New(s) /\ s[q] = s[p]
  BY <1>3 DEF New
<1>5. QED
  BY <1>4

\* KeysOf lists the keys of the rows, each of them once.
KeyList(ks, rs, on) ==
  /\ Len(ks) \in Nat /\ DOMAIN ks = 1..Len(ks)
  /\ \A i, j \in 1..Len(ks) : ks[i] = ks[j] => i = j
  /\ \A p \in DOMAIN rs : \E i \in 1..Len(ks) : ks[i] = KeyOf(rs[p], on)
  /\ \A i \in 1..Len(ks) : \E p \in DOMAIN rs : ks[i] = KeyOf(rs[p], on)

LEMMA KeysAre == ASSUME NEW V, NEW rs \in Seq(V), NEW on PROVE KeyList(KeysOf(rs, on), rs, on)
<1>1. PICK n \in Nat : n = Len(rs) /\ DOMAIN rs = 1..n
  OBVIOUS
<1>2. PICK U : U = {KeyOf(rs[p], on) : p \in DOMAIN rs}
  OBVIOUS
<1>3. PICK s \in Seq(U) : s = [p \in DOMAIN rs |-> KeyOf(rs[p], on)] /\ DOMAIN s = 1..n
  <2>1. PICK s : s = [p \in DOMAIN rs |-> KeyOf(rs[p], on)]
    OBVIOUS
  <2>2. s \in [1..n -> U]
    BY <1>1, <1>2, <2>1
  <2>3. s \in Seq(U) /\ DOMAIN s = 1..n
    BY <2>2
  <2>4. QED
    BY <2>1, <2>3
<1>4. PICK t \in Seq(1..n) : t = Firsts(s) /\ \A i \in DOMAIN t : t[i] \in New(s)
  <2>1. Len(s) = n
    BY <1>3
  <2>2. QED
    BY <2>1, FirstsAre
<1>5. PICK ks : ks = KeysOf(rs, on)
  OBVIOUS
<1>6. ks = [i \in DOMAIN t |-> s[t[i]]]
  BY <1>3, <1>4, <1>5 DEF KeysOf
<1>7. Len(ks) = Len(t) /\ Len(ks) \in Nat /\ DOMAIN ks = 1..Len(ks) /\ DOMAIN t = 1..Len(ks)
  BY <1>4, <1>6
<1>8. ASSUME NEW i \in 1..Len(ks), NEW j \in 1..Len(ks), ks[i] = ks[j] PROVE i = j
  <2>1. t[i] \in New(s) /\ t[j] \in New(s) /\ s[t[i]] = s[t[j]]
    BY <1>4, <1>6, <1>7, <1>8
  <2>2. t[i] \in 1..n /\ t[j] \in 1..n
    BY <1>7
  <2>3. ~(t[i] \in 1..(t[j] - 1)) /\ ~(t[j] \in 1..(t[i] - 1))
    BY <2>1 DEF New
  <2>4. t[i] = t[j]
    BY <2>2, <2>3
  <2>5. QED
    BY <1>4, <1>7, <2>4, FirstsAre
<1>9. ASSUME NEW p \in DOMAIN rs PROVE \E i \in 1..Len(ks) : ks[i] = KeyOf(rs[p], on)
  <2>1. p \in DOMAIN s
    BY <1>1, <1>3
  <2>2. PICK q \in New(s) : s[q] = s[p]
    BY <2>1, FirstPlace
  <2>3. PICK i \in DOMAIN t : t[i] = q
    BY <1>4, FirstsAre
  <2>4. ks[i] = s[p] /\ i \in 1..Len(ks)
    BY <1>6, <1>7, <2>2, <2>3
  <2>5. QED
    BY <1>3, <2>4
<1>10. ASSUME NEW i \in 1..Len(ks) PROVE \E p \in DOMAIN rs : ks[i] = KeyOf(rs[p], on)
  <2>1. t[i] \in 1..n /\ ks[i] = s[t[i]]
    BY <1>6, <1>7
  <2>2. QED
    BY <1>1, <1>3, <2>1
<1>11. QED
  BY <1>5, <1>7, <1>8, <1>9, <1>10 DEF KeyList

\* What a row adds to a COUNT or to a SUM.
Adds(fn, arg, V) ==
  [r \in V |-> IF fn = "COUNT" THEN IF arg = 0 \/ r[arg] # Null THEN 1 ELSE 0
               ELSE IF arg = 0 \/ Num(r[arg]) = NoNumber THEN 0 ELSE Num(r[arg])]

\* Stored cells and computed ones.
Cell == [num : Int \cup {NoNumber}, text : Int] \cup {Null}

LEMMA CellType == ASSUME NEW v \in Cell PROVE Num(v) \in Int \cup {NoNumber} /\ Text(v) \in Int
<1>1. CASE v = Null
  BY <1>1, CellsAssumption DEF Num, Text
<1>2. CASE v # Null
  BY <1>2 DEF Cell, Num, Text
<1>3. QED
  BY <1>1, <1>2

LEMMA ValuesAreCells == Values \subseteq Cell
  BY CellsAssumption DEF Values, Cell

\* The cells of the column arg, 0 being none.
Readable(V, arg) == arg # 0 => \A r \in V : r[arg] \in Cell

LEMMA CellsReadable ==
  ASSUME NEW D, NEW arg \in D \cup {0}
  PROVE  Readable([D -> Cell], arg)
  BY DEF Readable

LEMMA AddsType ==
  ASSUME NEW V, NEW fn, NEW arg, Readable(V, arg)
  PROVE  Adds(fn, arg, V) \in [V -> Int]
<1>1. ASSUME NEW r \in V, arg # 0 PROVE Num(r[arg]) \in Int \cup {NoNumber}
  <2>1. r[arg] \in Cell
    BY <1>1 DEF Readable
  <2>2. QED
    BY <2>1, CellType
<1>2. QED
  BY <1>1 DEF Adds

LEMMA AggregateIs ==
  ASSUME NEW V, NEW fn \in {"COUNT", "SUM"}, NEW arg, Readable(V, arg), NEW rs \in Seq(V)
  PROVE  /\ Aggregate(fn, rs, arg) = Number(Weight(rs, Adds(fn, arg, V)))
         /\ Aggregate(fn, rs, arg).num = Weight(rs, Adds(fn, arg, V))
<1> SUFFICES Aggregate(fn, rs, arg) = Number(Weight(rs, Adds(fn, arg, V)))
  BY DEF Number
<1>2. PICK wt \in [V -> Int] : wt = Adds(fn, arg, V)
  BY AddsType
<1>3. PICK A : A = {r \in V : arg = 0 \/ r[arg] # Null}
  OBVIOUS
<1>4. PICK S : S = {r \in ToSet(rs) : arg = 0 \/ r[arg] # Null}
  OBVIOUS
<1>5. PICK some \in Seq(V) : some = Only(rs, S)
  BY OnlyCounts
<1>6. PICK vs : vs = IF arg = 0 THEN <<>> ELSE [i \in DOMAIN some |-> some[i][arg]]
  OBVIOUS
<1>7. \A p \in DOMAIN rs : rs[p] \in V /\ (rs[p] \in S <=> rs[p] \in A)
  BY <1>3, <1>4 DEF ToSet
<1>8. CASE fn = "COUNT"
  <2>1. Aggregate(fn, rs, arg) = Number(Len(some))
    BY <1>4, <1>5, <1>8, Zenon DEF Aggregate
  <2>2. Len(some) = CountIn(some, V)
    BY CountAll
  <2>3. CountIn(some, V) = CountIn(rs, S \cap V)
    BY <1>5, OnlyCounts
  <2>4. CountIn(rs, S \cap V) = CountIn(rs, A)
    <3>1. {p \in DOMAIN rs : rs[p] \in S \cap V} = {p \in DOMAIN rs : rs[p] \in A}
      BY <1>7
    <3>2. QED
      BY <3>1, Zenon DEF CountIn
  <2>5. Marks(wt, A, V)
    BY <1>2, <1>3, <1>8 DEF Adds, Marks
  <2>6. CountIn(rs, A) = Weight(rs, wt)
    BY <2>5, CountWeight
  <2>7. QED
    BY <1>2, <2>1, <2>2, <2>3, <2>4, <2>6, Zenon
<1>9. CASE fn = "SUM"
  <2>1. Aggregate(fn, rs, arg) = Number(SumOf(vs))
    BY <1>4, <1>5, <1>6, <1>9, Zenon DEF Aggregate
  <2>2. Weight(some, wt) = Weight(rs, wt)
    <3>1. Weight(some, wt) = Total(Within(rs, S, wt))
      BY <1>5, OnlyWeights
    <3>2. \A r \in V : r \notin A => wt[r] = 0
      BY <1>2, <1>3, <1>9 DEF Adds, Num
    <3>3. Within(rs, S, wt) = Weights(rs, wt)
      BY <1>7, <3>2 DEF Within, Weights
    <3>4. QED
      BY <3>1, <3>3 DEF Weight
  <2>3. CASE arg # 0
    <3>1. vs = [i \in DOMAIN some |-> some[i][arg]]
      BY <1>6, <2>3
    <3>2. [i \in DOMAIN vs |-> IF Num(vs[i]) = NoNumber THEN 0 ELSE Num(vs[i])]
            = Weights(some, wt)
      <4>1. \A i \in DOMAIN some : some[i] \in V
        OBVIOUS
      <4>2. \A r \in V : wt[r] = IF Num(r[arg]) = NoNumber THEN 0 ELSE Num(r[arg])
        BY <1>2, <1>9, <2>3 DEF Adds
      <4>3. QED
        BY <3>1, <4>1, <4>2 DEF Weights
    <3>3. SumOf(vs) = Weight(some, wt)
      BY <3>2, Zenon DEF SumOf, Weight
    <3>4. QED
      BY <1>2, <2>1, <2>2, <3>3
  <2>4. CASE arg = 0
    <3>1. vs = <<>>
      BY <1>6, <2>4
    <3>2. PICK f : f = [i \in DOMAIN vs |-> IF Num(vs[i]) = NoNumber THEN 0 ELSE Num(vs[i])]
      OBVIOUS
    <3>3. PICK n \in Nat : n = 0
      OBVIOUS
    <3>4. f \in [1..n -> Int] /\ \A i \in 1..n : f[i] = 0
      BY <3>1, <3>2, <3>3
    <3>5. SumOf(vs) = 0
      BY <3>2, <3>4, TotalZero DEF SumOf
    <3>6. \A r \in V : wt[r] = 0
      BY <1>2, <1>9, <2>4 DEF Adds
    <3>7. PICK m \in Nat : m = Len(rs)
      OBVIOUS
    <3>8. PICK g \in [1..m -> Int] : g = Weights(rs, wt)
      BY <3>7, WeightsType
    <3>9. \A i \in 1..m : g[i] = 0
      BY <1>7, <3>6, <3>7, <3>8 DEF Weights
    <3>10. Total(g) = 0
      BY <3>9, TotalZero
    <3>11. QED
      BY <1>2, <2>1, <3>5, <3>8, <3>10 DEF Weight
  <2>5. QED
    BY <2>3, <2>4
<1>10. QED
  BY <1>8, <1>9

\* The groups of GROUP BY: one for every key, or one without GROUP BY.
KeysFor(rs, on) == IF on = <<>> THEN << <<>> >> ELSE KeysOf(rs, on)
Group(rs, on, k) == Only(rs, {r \in ToSet(rs) : KeyOf(r, on) = k})

LEMMA KeysForAre ==
  ASSUME NEW V, NEW rs \in Seq(V), NEW on \in Seq(Nat)
  PROVE  /\ Len(KeysFor(rs, on)) \in Nat /\ DOMAIN KeysFor(rs, on) = 1..Len(KeysFor(rs, on))
         /\ \A i, j \in 1..Len(KeysFor(rs, on)) : KeysFor(rs, on)[i] = KeysFor(rs, on)[j] => i = j
         /\ \A p \in DOMAIN rs :
              \E i \in 1..Len(KeysFor(rs, on)) : KeysFor(rs, on)[i] = KeyOf(rs[p], on)
<1>1. CASE on = <<>>
  <2>1. ASSUME NEW r PROVE KeyOf(r, on) = <<>>
    BY <1>1 DEF KeyOf
  <2>2. KeysFor(rs, on) = << <<>> >>
    BY <1>1 DEF KeysFor
  <2>3. QED
    BY <2>1, <2>2
<1>2. CASE on # <<>>
  <2>1. KeysFor(rs, on) = KeysOf(rs, on)
    BY <1>2 DEF KeysFor
  <2>2. KeyList(KeysOf(rs, on), rs, on)
    BY KeysAre
  <2>3. QED
    BY <2>1, <2>2 DEF KeyList
<1>3. QED
  BY <1>1, <1>2

LEMMA Behaved ==
  ASSUME NEW n \in Nat, NEW f, NEW x
  PROVE  /\ \A k \in 1..n : ([i \in 1..n |-> f[i]] \o <<x>>)[k] = f[k]
         /\ Last([i \in 1..n |-> f[i]] \o <<x>>) = x
<1>1. PICK U : U = {f[i] : i \in 1..n} \cup {x}
  OBVIOUS
<1>2. PICK s \in Seq(U) : s = [i \in 1..n |-> f[i]] /\ Len(s) = n
  <2>1. PICK s : s = [i \in 1..n |-> f[i]]
    OBVIOUS
  <2>2. s \in [1..n -> U]
    BY <1>1, <2>1
  <2>3. QED
    BY <2>1, <2>2
<1>3. <<x>> \in Seq(U)
  BY <1>1
<1>4. PICK t \in Seq(U) : t = s \o <<x>> /\ Len(t) = n + 1
  <2>1. s \o <<x>> \in Seq(U) /\ Len(s \o <<x>>) = Len(s) + 1
    BY <1>3
  <2>2. QED
    BY <1>2, <2>1
<1>5. \A k \in 1..n : t[k] = s[k]
  BY <1>2, <1>3, <1>4
<1>6. t[n + 1] = x
  BY <1>2, <1>3, <1>4
<1>7. QED
  BY <1>2, <1>4, <1>5, <1>6 DEF Last

\* A group has a row, which has its key.
LEMMA GroupHas ==
  ASSUME NEW V, NEW rs \in Seq(V), NEW on, on # <<>>, NEW i \in 1..Len(KeysFor(rs, on))
  PROVE  /\ Group(rs, on, KeysFor(rs, on)[i])[1] \in V
         /\ KeyOf(Group(rs, on, KeysFor(rs, on)[i])[1], on) = KeysFor(rs, on)[i]
<1>1. PICK ks : ks = KeysFor(rs, on) /\ i \in 1..Len(ks)
  OBVIOUS
<1>2. PICK p \in DOMAIN rs : ks[i] = KeyOf(rs[p], on)
  <2>1. KeyList(KeysOf(rs, on), rs, on)
    BY KeysAre
  <2>2. ks = KeysOf(rs, on)
    BY <1>1 DEF KeysFor
  <2>3. QED
    BY <1>1, <2>1, <2>2 DEF KeyList
<1>3. PICK S : S = {r \in ToSet(rs) : KeyOf(r, on) = ks[i]}
  OBVIOUS
<1>4. PICK t \in Seq(V) : t = Group(rs, on, ks[i]) /\ t = Only(rs, S)
  BY <1>3, OnlyCounts DEF Group
<1>5. rs[p] \in S
  BY <1>2, <1>3 DEF ToSet
<1>6. t # <<>> /\ \A m \in DOMAIN t : t[m] \in S
  BY <1>4, <1>5, OnlyMembers
<1>7. t[1] \in S /\ t[1] \in V
  BY <1>6
<1>8. QED
  BY <1>1, <1>3, <1>4, <1>7

LEMMA GroupRowsAre ==
  ASSUME NEW V, NEW rs \in Seq(V), NEW g, g.on \in Seq(Nat)
  PROVE  /\ DOMAIN GroupRows(rs, g) = 1..Len(KeysFor(rs, g.on))
         /\ \A i \in 1..Len(KeysFor(rs, g.on)) :
              LET k == KeysFor(rs, g.on)[i] IN
              /\ Last(GroupRows(rs, g)[i]) = Aggregate(g.fn, Group(rs, g.on, k), g.arg)
              /\ g.on # <<>> => KeyOf(GroupRows(rs, g)[i], [p \in DOMAIN g.on |-> p]) = k
<1>1. PICK ks : ks = KeysFor(rs, g.on) /\ Len(ks) \in Nat /\ DOMAIN ks = 1..Len(ks)
  BY KeysForAre
<1>2. PICK n \in Nat : n = Len(g.on) /\ DOMAIN g.on = 1..n
  OBVIOUS
<1>3. PICK out : out = GroupRows(rs, g)
  OBVIOUS
<1>4. out = [i \in 1..Len(ks) |->
               [p \in 1..n |-> Group(rs, g.on, ks[i])[1][g.on[p]]]
                 \o <<Aggregate(g.fn, Group(rs, g.on, ks[i]), g.arg)>>]
  BY <1>1, <1>2, <1>3 DEF GroupRows, KeysFor, Group
<1>5. ASSUME NEW i \in 1..Len(ks)
      PROVE  /\ Last(out[i]) = Aggregate(g.fn, Group(rs, g.on, ks[i]), g.arg)
             /\ g.on # <<>> => KeyOf(out[i], [p \in DOMAIN g.on |-> p]) = ks[i]
  <2>1. PICK f : f = [p \in 1..n |-> Group(rs, g.on, ks[i])[1][g.on[p]]]
    OBVIOUS
  <2>2. PICK x : x = Aggregate(g.fn, Group(rs, g.on, ks[i]), g.arg)
    OBVIOUS
  <2>3. f = [p \in 1..n |-> f[p]]
    BY <2>1
  <2>4. out[i] = [p \in 1..n |-> f[p]] \o <<x>>
    BY <1>4, <2>1, <2>2, <2>3
  <2>5. /\ \A k \in 1..n : ([p \in 1..n |-> f[p]] \o <<x>>)[k] = f[k]
        /\ Last([p \in 1..n |-> f[p]] \o <<x>>) = x
    BY Behaved
  <2>6. Last(out[i]) = x /\ \A k \in 1..n : out[i][k] = f[k]
    BY <2>4, <2>5, Zenon
  <2>7. ASSUME g.on # <<>> PROVE KeyOf(out[i], [p \in DOMAIN g.on |-> p]) = ks[i]
    <3>1. PICK r : r = Group(rs, g.on, ks[i])[1] /\ KeyOf(r, g.on) = ks[i]
      BY <1>1, <2>7, GroupHas
    <3>2. PICK on : on = [p \in DOMAIN g.on |-> p]
      OBVIOUS
    <3>3. KeyOf(out[i], on) = [k \in 1..n |-> Text(f[k])]
      BY <1>2, <2>6, <3>2 DEF KeyOf
    <3>4. KeyOf(r, g.on) = [k \in 1..n |-> Text(f[k])]
      BY <1>2, <2>1, <3>1 DEF KeyOf
    <3>5. QED
      BY <3>1, <3>2, <3>3, <3>4
  <2>8. QED
    BY <2>2, <2>6, <2>7
<1>6. DOMAIN out = 1..Len(ks)
  BY <1>4
<1>7. QED
  BY <1>1, <1>3, <1>5, <1>6, Zenon

\* Rows of n cells.
Wide(n) == [1..n -> Cell]

LEMMA OnlyKeeps ==
  ASSUME NEW n, NEW s \in Seq(Wide(n)), NEW S
  PROVE  Only(s, S) \in Seq(Wide(n))
  BY OnlyCounts

LEMMA WideIs ==
  ASSUME NEW n \in Nat, NEW r
  PROVE  r \in Wide(n) <=> r \in Seq(Cell) /\ Len(r) = n
  BY DEF Wide

----------------------------------------------------------------------------
(* Sorting                                                                 *)

LEMMA OnlyAppend ==
  ASSUME NEW U, NEW s \in Seq(U), NEW x \in U, NEW S
  PROVE  Only(Append(s, x), S) = IF x \in S THEN Append(Only(s, S), x) ELSE Only(s, S)
<1>1. PICK n \in Nat : n = Len(s)
  OBVIOUS
<1>2. PICK r \in Seq(U) : r = Append(s, x) /\ Len(r) = n + 1 /\ r[n + 1] = x
                          /\ \A i \in 1..n : r[i] = s[i]
  <2>1. Append(s, x) \in Seq(U) /\ Len(Append(s, x)) = n + 1 /\ Append(s, x)[n + 1] = x
    BY <1>1
  <2>2. \A i \in 1..n : Append(s, x)[i] = s[i]
    BY <1>1
  <2>3. QED
    BY <2>1, <2>2
<1>3. PICK f : /\ f[0] = <<>>
               /\ \A i \in 1..n : f[i] = IF s[i] \in S THEN Append(f[i - 1], s[i]) ELSE f[i - 1]
               /\ Only(s, S) = f[n]
  BY <1>1, OnlyIs
<1>4. PICK g : /\ g[0] = <<>>
               /\ \A i \in 1..(n + 1) :
                    g[i] = IF r[i] \in S THEN Append(g[i - 1], r[i]) ELSE g[i - 1]
               /\ Only(r, S) = g[n + 1]
  <2>1. Len(r) \in Nat /\ Len(r) = n + 1
    BY <1>2
  <2>2. PICK g : /\ g[0] = <<>>
                 /\ \A i \in 1..Len(r) :
                      g[i] = IF r[i] \in S THEN Append(g[i - 1], r[i]) ELSE g[i - 1]
                 /\ Only(r, S) = g[Len(r)]
    BY <2>1, OnlyIs
  <2>3. QED
    BY <2>1, <2>2
<1> DEFINE T == {i \in Nat : i <= n => f[i] = g[i]}
<1>5. 0 \in T
  BY <1>3, <1>4
<1>6. ASSUME NEW i \in Nat, i \in T PROVE i + 1 \in T
  <2> SUFFICES ASSUME i + 1 <= n PROVE f[i + 1] = g[i + 1]
    OBVIOUS
  <2>1. i + 1 \in 1..n /\ i + 1 \in 1..(n + 1) /\ (i + 1) - 1 = i /\ f[i] = g[i]
    BY <1>6
  <2>2. f[i + 1] = IF s[i + 1] \in S THEN Append(f[i], s[i + 1]) ELSE f[i]
    BY <1>3, <2>1
  <2>3. g[i + 1] = IF r[i + 1] \in S THEN Append(g[i], r[i + 1]) ELSE g[i]
    BY <1>4, <2>1
  <2>4. QED
    BY <1>2, <2>1, <2>2, <2>3
<1> HIDE DEF T
<1>7. n \in T
  BY <1>5, <1>6, Induction
<1>8. f[n] = g[n]
  BY <1>7 DEF T
<1>9. g[n + 1] = IF r[n + 1] \in S THEN Append(g[n], r[n + 1]) ELSE g[n]
  <2>1. n + 1 \in 1..(n + 1) /\ (n + 1) - 1 = n
    OBVIOUS
  <2>2. QED
    BY <1>4, <2>1
<1>10. QED
  BY <1>2, <1>3, <1>4, <1>8, <1>9, Zenon

LEMMA OnlyEmpty == ASSUME NEW S PROVE Only(<<>>, S) = <<>>
<1>1. PICK U : U = {}
  OBVIOUS
<1>2. PICK s \in Seq(U) : s = <<>>
  <2>1. <<>> \in Seq(U)
    OBVIOUS
  <2>2. QED
    BY <2>1
<1>3. \A p \in DOMAIN s : s[p] \notin S
  BY <1>2
<1>4. Only(s, S) = <<>>
  BY <1>3, OnlyMembers
<1>5. QED
  BY <1>2, <1>4

Splits(s, t, S) == Only(s \o t, S) = Only(s, S) \o Only(t, S)

LEMMA OnlyConcat ==
  ASSUME NEW U, NEW s \in Seq(U), NEW t \in Seq(U), NEW S
  PROVE  Splits(s, t, S)
<1> USE DEF Splits
<1>1. PICK n \in Nat : n = Len(t)
  OBVIOUS
<1> DEFINE AsOne(i) == Only(s \o SubSeq(t, 1, i), S) = Only(s, S) \o Only(SubSeq(t, 1, i), S)
           T == {i \in Nat : i <= n => AsOne(i)}
<1>2. 0 \in T
  <2>1. SubSeq(t, 1, 0) = <<>>
    OBVIOUS
  <2>2. Only(s, S) \in Seq(U)
    BY OnlyCounts
  <2>3. s \o <<>> = s /\ Only(s, S) \o <<>> = Only(s, S)
    BY <2>2
  <2>4. AsOne(0)
    BY <2>1, <2>3, OnlyEmpty
  <2>5. QED
    BY <2>4
<1>3. ASSUME NEW i \in Nat, i \in T PROVE i + 1 \in T
  <2> SUFFICES ASSUME i + 1 <= n PROVE AsOne(i + 1)
    OBVIOUS
  <2>1. i + 1 \in 1..Len(t) /\ (i + 1) - 1 = i /\ AsOne(i)
    BY <1>1, <1>3
  <2>2. PICK z \in Seq(U), x \in U : z = SubSeq(t, 1, i) /\ x = t[i + 1]
                                     /\ SubSeq(t, 1, i + 1) = Append(z, x)
    <3>1. OneMoreOf(t, i, U)
      BY <2>1, OneMore
    <3>2. QED
      BY <3>1, Zenon DEF OneMoreOf
  <2>3. PICK y \in Seq(U) : y = s \o z
    <3>1. s \o z \in Seq(U)
      OBVIOUS
    <3>2. QED
      BY <3>1
  <2>4. s \o Append(z, x) = Append(y, x)
    BY <2>3
  <2>5. Only(Append(y, x), S) = IF x \in S THEN Append(Only(y, S), x) ELSE Only(y, S)
    BY OnlyAppend
  <2>6. Only(Append(z, x), S) = IF x \in S THEN Append(Only(z, S), x) ELSE Only(z, S)
    BY OnlyAppend
  <2>7. PICK a \in Seq(U), b \in Seq(U) : a = Only(s, S) /\ b = Only(z, S)
    <3>1. Only(s, S) \in Seq(U) /\ Only(z, S) \in Seq(U)
      BY OnlyCounts
    <3>2. QED
      BY <3>1
  <2>8. a \o Append(b, x) = Append(a \o b, x)
    OBVIOUS
  <2>9. Only(y, S) = a \o b
    BY <2>1, <2>2, <2>3, <2>7
  <2>10. CASE x \in S
    BY <2>2, <2>4, <2>5, <2>6, <2>7, <2>8, <2>9, <2>10
  <2>11. CASE x \notin S
    BY <2>2, <2>4, <2>5, <2>6, <2>7, <2>9, <2>11
  <2>12. QED
    BY <2>10, <2>11
<1> HIDE DEF T
<1>4. n \in T
  BY <1>2, <1>3, Induction
<1>5. AsOne(n)
  BY <1>4 DEF T
<1>6. SubSeq(t, 1, n) = t
  BY <1>1
<1>7. QED
  BY <1>5, <1>6

\* Only depends on which elements are in the set.
LEMMA OnlySame ==
  ASSUME NEW U, NEW s \in Seq(U), NEW S, NEW T, \A x \in U : x \in S <=> x \in T
  PROVE  Only(s, S) = Only(s, T)
<1>1. PICK n \in Nat : n = Len(s) /\ \A i \in 1..n : s[i] \in U
  OBVIOUS
<1>3. PICK f : /\ f[0] = <<>>
               /\ \A i \in 1..n : f[i] = IF s[i] \in S THEN Append(f[i - 1], s[i]) ELSE f[i - 1]
               /\ Only(s, S) = f[n]
  BY <1>1, OnlyIs
<1>4. PICK g : /\ g[0] = <<>>
               /\ \A i \in 1..n : g[i] = IF s[i] \in T THEN Append(g[i - 1], s[i]) ELSE g[i - 1]
               /\ Only(s, T) = g[n]
  BY <1>1, OnlyIs
<1> DEFINE I == {i \in Nat : i <= n => f[i] = g[i]}
<1>5. 0 \in I
  BY <1>3, <1>4
<1>6. ASSUME NEW i \in Nat, i \in I PROVE i + 1 \in I
  <2> SUFFICES ASSUME i + 1 <= n PROVE f[i + 1] = g[i + 1]
    OBVIOUS
  <2>1. i + 1 \in 1..n /\ (i + 1) - 1 = i /\ f[i] = g[i]
    BY <1>6
  <2>2. f[i + 1] = IF s[i + 1] \in S THEN Append(f[i], s[i + 1]) ELSE f[i]
    BY <1>3, <2>1
  <2>3. g[i + 1] = IF s[i + 1] \in T THEN Append(g[i], s[i + 1]) ELSE g[i]
    BY <1>4, <2>1
  <2>4. s[i + 1] \in S <=> s[i + 1] \in T
    BY <1>1, <2>1
  <2>5. QED
    BY <2>1, <2>2, <2>3, <2>4
<1> HIDE DEF I
<1>7. n \in I
  BY <1>5, <1>6, Induction
<1>8. QED
  BY <1>3, <1>4, <1>7 DEF I

\* Rows are before, like or after one another.
LEMMA CompareIs == ASSUME NEW r, NEW s, NEW keys PROVE Compare(r, s, keys) \in {-1, 0, 1}
<1>1. ASSUME NEW a, NEW b PROVE CompareCells(a, b) \in {-1, 0, 1}
  BY DEF CompareCells, Sign
<1>2. ASSUME NEW a, NEW b, NEW desc PROVE CompareTerm(a, b, desc) \in {-1, 0, 1}
  <2>1. CompareCells(a, b) \in {-1, 0, 1}
    BY <1>1
  <2>2. PICK c : c = CASE a = Null /\ b = Null -> 0
                       [] a = Null /\ b # Null -> -1
                       [] a # Null /\ b = Null -> 1
                       [] OTHER -> CompareCells(a, b)
    OBVIOUS
  <2>3. c \in {-1, 0, 1}
    <3>1. CASE a = Null
      BY <2>2, <3>1
    <3>2. CASE a # Null
      BY <2>1, <2>2, <3>2
    <3>3. QED
      BY <3>1, <3>2
  <2>4. CompareTerm(a, b, desc) = IF desc THEN -c ELSE c
    BY <2>2, Zenon DEF CompareTerm
  <2>5. QED
    BY <2>3, <2>4
<1>3. QED
  BY <1>2, Zenon DEF Compare

\* Where a row is inserted.
Place(s, r, keys, p) ==
  /\ p \in 0..Len(s)
  /\ p = 0 \/ Compare(r, s[p], keys) >= 0
  /\ \A q \in (p + 1)..Len(s) : Compare(r, s[q], keys) < 0

LEMMA InsertedIs ==
  ASSUME NEW V, NEW s \in Seq(V), NEW r \in V, NEW keys
  PROVE  \E p : /\ Place(s, r, keys, p)
                /\ Inserted(s, r, keys) = SubSeq(s, 1, p) \o <<r>> \o SubSeq(s, p + 1, Len(s))
<1>1. PICK n \in Nat : n = Len(s)
  OBVIOUS
<1> DEFINE T == {q \in 1..n : Compare(r, s[q], keys) >= 0}
           U == {n - q : q \in T}
<1>2. \E p : Place(s, r, keys, p)
  <2>1. CASE T = {}
    <3>1. ASSUME NEW q \in 1..n PROVE Compare(r, s[q], keys) < 0
      <4>1. ~(Compare(r, s[q], keys) >= 0) /\ Compare(r, s[q], keys) \in {-1, 0, 1}
        BY <2>1, CompareIs
      <4>2. QED
        BY <4>1
    <3>2. Place(s, r, keys, 0)
      BY <1>1, <3>1 DEF Place
    <3>3. QED
      BY <3>2
  <2>2. CASE T # {}
    <3>1. U \subseteq Nat /\ U # {}
      BY <2>2
    <3>2. PICK u \in U : \A v \in U : u <= v
      <4> HIDE DEF U
      <4>1. QED
        BY <3>1, Least
    <3>3. PICK p \in T : u = n - p
      OBVIOUS
    <3>4. ASSUME NEW q \in (p + 1)..n PROVE Compare(r, s[q], keys) < 0
      <4>1. q \in 1..n /\ ~(u <= n - q)
        BY <3>3
      <4>2. q \notin T
        BY <3>2, <4>1
      <4>3. ~(Compare(r, s[q], keys) >= 0) /\ Compare(r, s[q], keys) \in {-1, 0, 1}
        BY <4>1, <4>2, CompareIs
      <4>4. QED
        BY <4>3
    <3>5. Place(s, r, keys, p)
      BY <1>1, <3>4 DEF Place
    <3>6. QED
      BY <3>5
  <2>3. QED
    BY <2>1, <2>2
<1>3. PICK p : p = CHOOSE k \in 0..Len(s) : /\ k = 0 \/ Compare(r, s[k], keys) >= 0
                            /\ \A q \in (k + 1)..Len(s) : Compare(r, s[q], keys) < 0
  OBVIOUS
<1>4. Place(s, r, keys, p)
  BY <1>2, <1>3 DEF Place
<1>5. Inserted(s, r, keys) = SubSeq(s, 1, p) \o <<r>> \o SubSeq(s, p + 1, Len(s))
  BY <1>3 DEF Inserted
<1>6. QED
  BY <1>4, <1>5

\* A sequence cut in two.
LEMMA Cut ==
  ASSUME NEW V, NEW s \in Seq(V), NEW p \in 0..Len(s)
  PROVE  /\ SubSeq(s, 1, p) \in Seq(V) /\ SubSeq(s, p + 1, Len(s)) \in Seq(V)
         /\ Len(SubSeq(s, 1, p)) = p /\ Len(SubSeq(s, p + 1, Len(s))) = Len(s) - p
         /\ \A i \in 1..p : SubSeq(s, 1, p)[i] = s[i]
         /\ \A i \in 1..(Len(s) - p) : SubSeq(s, p + 1, Len(s))[i] = s[p + i]
         /\ s = SubSeq(s, 1, p) \o SubSeq(s, p + 1, Len(s))
<1>1. PICK n \in Nat : n = Len(s)
  OBVIOUS
<1>2. PICK a \in Seq(V) : a = SubSeq(s, 1, p) /\ Len(a) = p /\ \A i \in 1..p : a[i] = s[i]
  <2>1. SubSeq(s, 1, p) \in Seq(V) /\ Len(SubSeq(s, 1, p)) = p
    BY <1>1
  <2>2. \A i \in 1..p : SubSeq(s, 1, p)[i] = s[i]
    BY <1>1
  <2>3. QED
    BY <2>1, <2>2
<1>3. PICK b \in Seq(V) : /\ b = SubSeq(s, p + 1, Len(s)) /\ Len(b) = n - p
                          /\ \A i \in 1..(n - p) : b[i] = s[p + i]
  <2>1. SubSeq(s, p + 1, Len(s)) \in Seq(V) /\ Len(SubSeq(s, p + 1, Len(s))) = n - p
    BY <1>1
  <2>2. ASSUME NEW i \in 1..(n - p) PROVE SubSeq(s, p + 1, Len(s))[i] = s[p + i]
    <3>1. (p + 1) + i - 1 = p + i
      OBVIOUS
    <3>2. QED
      BY <1>1, <3>1
  <2>3. QED
    BY <2>1, <2>2
<1>4. PICK c \in Seq(V) : /\ c = a \o b /\ Len(c) = Len(a) + Len(b)
                          /\ \A i \in 1..Len(a) : c[i] = a[i]
                          /\ \A i \in 1..Len(b) : c[Len(a) + i] = b[i]
  <2>1. a \o b \in Seq(V) /\ Len(a \o b) = Len(a) + Len(b)
    OBVIOUS
  <2>2. \A i \in 1..Len(a) : (a \o b)[i] = a[i]
    OBVIOUS
  <2>3. \A i \in 1..Len(b) : (a \o b)[Len(a) + i] = b[i]
    OBVIOUS
  <2>4. QED
    BY <2>1, <2>2, <2>3
<1>5. Len(c) = n
  <2>1. Len(a) = p /\ Len(b) = n - p /\ Len(c) = Len(a) + Len(b)
    BY <1>2, <1>3, <1>4
  <2>2. p \in Int /\ p + (n - p) = n
    OBVIOUS
  <2>3. QED
    BY <2>1, <2>2
<1>6. ASSUME NEW i \in 1..n PROVE c[i] = s[i]
  <2>1. CASE i \in 1..p
    BY <1>2, <1>4, <2>1
  <2>2. CASE i \notin 1..p
    <3>1. i - p \in 1..(n - p) /\ p + (i - p) = i
      BY <1>1, <2>2
    <3>2. c[p + (i - p)] = b[i - p]
      BY <1>2, <1>3, <1>4, <3>1
    <3>3. QED
      BY <1>3, <3>1, <3>2
  <2>3. QED
    BY <2>1, <2>2
<1>7. c = s
  BY <1>1, <1>5, <1>6, SeqEqual
<1>8. QED
  BY <1>1, <1>2, <1>3, <1>4, <1>7

LEMMA ConcatIs ==
  ASSUME NEW V, NEW a \in Seq(V), NEW b \in Seq(V)
  PROVE  /\ a \o b \in Seq(V) /\ Len(a \o b) = Len(a) + Len(b)
         /\ \A i \in 1..Len(a) : (a \o b)[i] = a[i]
         /\ \A i \in 1..Len(b) : (a \o b)[Len(a) + i] = b[i]
<1>1. a \o b \in Seq(V) /\ Len(a \o b) = Len(a) + Len(b)
  OBVIOUS
<1>2. \A i \in 1..Len(a) : (a \o b)[i] = a[i]
  OBVIOUS
<1>3. \A i \in 1..Len(b) : (a \o b)[Len(a) + i] = b[i]
  OBVIOUS
<1>4. QED
  BY <1>1, <1>2, <1>3

\* Inserting moves what is behind by one place.
Widened(t, s, r, p) ==
  /\ Len(t) = Len(s) + 1
  /\ \A i \in 1..p : t[i] = s[i]
  /\ t[p + 1] = r
  /\ \A i \in (p + 1)..Len(s) : t[i + 1] = s[i]

LEMMA InsertedWidens ==
  ASSUME NEW V, NEW s \in Seq(V), NEW r \in V, NEW keys
  PROVE  /\ Inserted(s, r, keys) \in Seq(V)
         /\ \E p : Place(s, r, keys, p) /\ Widened(Inserted(s, r, keys), s, r, p)
<1>1. PICK p : /\ Place(s, r, keys, p)
               /\ Inserted(s, r, keys) = SubSeq(s, 1, p) \o <<r>> \o SubSeq(s, p + 1, Len(s))
  BY InsertedIs
<1>2. PICK n \in Nat : n = Len(s) /\ p \in 0..n /\ p \in Nat
  BY <1>1 DEF Place
<1>3. PICK a \in Seq(V), b \in Seq(V) :
        /\ a = SubSeq(s, 1, p) /\ Len(a) = p /\ \A i \in 1..p : a[i] = s[i]
        /\ b = SubSeq(s, p + 1, Len(s)) /\ Len(b) = n - p
        /\ \A i \in 1..(n - p) : b[i] = s[p + i]
  <2>1. p \in 0..Len(s)
    BY <1>2
  <2>2. /\ SubSeq(s, 1, p) \in Seq(V) /\ SubSeq(s, p + 1, Len(s)) \in Seq(V)
        /\ Len(SubSeq(s, 1, p)) = p /\ Len(SubSeq(s, p + 1, Len(s))) = Len(s) - p
        /\ \A i \in 1..p : SubSeq(s, 1, p)[i] = s[i]
        /\ \A i \in 1..(Len(s) - p) : SubSeq(s, p + 1, Len(s))[i] = s[p + i]
    BY <2>1, Cut
  <2>3. PICK a \in Seq(V), b \in Seq(V) : a = SubSeq(s, 1, p) /\ b = SubSeq(s, p + 1, Len(s))
    BY <2>2
  <2>4. Len(a) = p /\ Len(b) = n - p /\ \A i \in 1..p : a[i] = s[i]
    BY <1>2, <2>2, <2>3
  <2>5. \A i \in 1..(n - p) : b[i] = s[p + i]
    BY <1>2, <2>2, <2>3
  <2>6. QED
    BY <2>3, <2>4, <2>5
<1>4. PICK x \in Seq(V) : x = <<r>> /\ Len(x) = 1 /\ x[1] = r
  <2>1. <<r>> \in Seq(V) /\ Len(<<r>>) = 1 /\ <<r>>[1] = r
    OBVIOUS
  <2>2. QED
    BY <2>1
<1>5. PICK c \in Seq(V) : /\ c = a \o x /\ Len(c) = p + 1
                          /\ \A i \in 1..p : c[i] = a[i]
                          /\ c[p + 1] = r
  <2>1. /\ a \o x \in Seq(V) /\ Len(a \o x) = Len(a) + Len(x)
        /\ \A i \in 1..Len(a) : (a \o x)[i] = a[i]
        /\ \A i \in 1..Len(x) : (a \o x)[Len(a) + i] = x[i]
    BY ConcatIs
  <2>2. PICK c \in Seq(V) : c = a \o x
    BY <2>1
  <2>3. Len(c) = p + 1
    BY <1>3, <1>4, <2>1, <2>2
  <2>4. \A i \in 1..p : c[i] = a[i]
    BY <1>3, <2>1, <2>2
  <2>5. c[Len(a) + 1] = x[1]
    <3>1. 1 \in 1..Len(x)
      BY <1>4
    <3>2. QED
      BY <2>1, <2>2, <3>1
  <2>6. c[p + 1] = r
    BY <1>3, <1>4, <2>5
  <2>7. QED
    BY <2>2, <2>3, <2>4, <2>6
<1>6. PICK t \in Seq(V) : /\ t = c \o b /\ Len(t) = (p + 1) + (n - p)
                          /\ \A i \in 1..(p + 1) : t[i] = c[i]
                          /\ \A i \in 1..(n - p) : t[(p + 1) + i] = b[i]
  <2>1. /\ c \o b \in Seq(V) /\ Len(c \o b) = Len(c) + Len(b)
        /\ \A i \in 1..Len(c) : (c \o b)[i] = c[i]
        /\ \A i \in 1..Len(b) : (c \o b)[Len(c) + i] = b[i]
    BY ConcatIs
  <2>2. PICK t \in Seq(V) : t = c \o b
    BY <2>1
  <2> DEFINE X == c \o b
  <2> HIDE DEF X
  <2>a. Len(c) = p + 1 /\ Len(b) = n - p
    BY <1>3, <1>5
  <2>b. t = X
    BY <2>2 DEF X
  <2>3. Len(t) = (p + 1) + (n - p)
    <3>1. Len(X) = Len(c) + Len(b)
      BY <2>1 DEF X
    <3>2. QED
      BY <2>a, <2>b, <3>1
  <2>4. \A i \in 1..(p + 1) : t[i] = c[i]
    <3>1. \A i \in 1..Len(c) : X[i] = c[i]
      BY <2>1 DEF X
    <3>2. QED
      BY <2>a, <2>b, <3>1
  <2>5. \A i \in 1..(n - p) : t[(p + 1) + i] = b[i]
    <3>1. \A i \in 1..Len(b) : X[Len(c) + i] = b[i]
      BY <2>1 DEF X
    <3>2. QED
      BY <2>a, <2>b, <3>1
  <2>6. QED
    BY <2>2, <2>3, <2>4, <2>5
<1>7. t = Inserted(s, r, keys)
  BY <1>1, <1>3, <1>4, <1>5, <1>6
<1>8. Len(t) = n + 1
  <2>1. (p + 1) + (n - p) = n + 1
    BY <1>2
  <2>2. QED
    BY <1>6, <2>1
<1>9. \A i \in 1..p : t[i] = s[i]
  <2>1. ASSUME NEW i \in 1..p PROVE t[i] = s[i]
    <3>1. i \in 1..(p + 1)
      BY <1>2
    <3>2. t[i] = c[i]
      BY <1>6, <3>1
    <3>3. QED
      BY <1>3, <1>5, <3>2
  <2>2. QED
    BY <2>1
<1>10. t[p + 1] = r
  <2>1. p + 1 \in 1..(p + 1)
    BY <1>2
  <2>2. QED
    BY <1>5, <1>6, <2>1
<1>11. ASSUME NEW i \in (p + 1)..n PROVE t[i + 1] = s[i]
  <2>1. PICK k \in 1..(n - p) : k = i - p
    BY <1>2
  <2>2. (p + 1) + k = i + 1 /\ p + k = i
    BY <1>2, <2>1
  <2>3. t[(p + 1) + k] = b[k] /\ b[k] = s[p + k]
    BY <1>3, <1>6, <2>1
  <2>4. QED
    BY <2>2, <2>3
<1>12. Widened(t, s, r, p)
  BY <1>2, <1>8, <1>9, <1>10, <1>11 DEF Widened
<1>13. QED
  BY <1>1, <1>7, <1>12

LEMMA InsertedCounts ==
  ASSUME NEW V, NEW s \in Seq(V), NEW r \in V, NEW keys, NEW P
  PROVE  CountIn(Inserted(s, r, keys), P) = CountIn(Append(s, r), P)
<1>1. PICK p : /\ Place(s, r, keys, p)
               /\ Inserted(s, r, keys) = SubSeq(s, 1, p) \o <<r>> \o SubSeq(s, p + 1, Len(s))
  BY InsertedIs
<1>2. p \in 0..Len(s)
  BY <1>1 DEF Place
<1>3. PICK a \in Seq(V), b \in Seq(V) :
        a = SubSeq(s, 1, p) /\ b = SubSeq(s, p + 1, Len(s)) /\ s = a \o b
  <2>1. /\ SubSeq(s, 1, p) \in Seq(V) /\ SubSeq(s, p + 1, Len(s)) \in Seq(V)
        /\ s = SubSeq(s, 1, p) \o SubSeq(s, p + 1, Len(s))
    BY <1>2, Cut
  <2>2. PICK a \in Seq(V), b \in Seq(V) : a = SubSeq(s, 1, p) /\ b = SubSeq(s, p + 1, Len(s))
    BY <2>1
  <2>3. QED
    BY <2>1, <2>2
<1>4. PICK x \in Seq(V) : x = <<r>>
  <2>1. <<r>> \in Seq(V)
    OBVIOUS
  <2>2. QED
    BY <2>1
<1>5. PICK c \in Seq(V) : c = a \o x
  <2>1. a \o x \in Seq(V)
    OBVIOUS
  <2>2. QED
    BY <2>1
<1>6. CountIn(c \o b, P) = CountIn(c, P) + CountIn(b, P)
  BY CountConcat
<1>7. CountIn(a \o x, P) = CountIn(a, P) + CountIn(x, P)
  BY CountConcat
<1>8. CountIn(a \o b, P) = CountIn(a, P) + CountIn(b, P)
  BY CountConcat
<1>9. CountIn(x, P) = IF r \in P THEN 1 ELSE 0
  BY <1>4, CountOne
<1>10. CountIn(Append(s, r), P) = CountIn(s, P) + (IF r \in P THEN 1 ELSE 0)
  BY CountAppend
<1>11. CountIn(a, P) \in Nat /\ CountIn(b, P) \in Nat /\ CountIn(x, P) \in Nat
  BY CountType, Zenon
<1>12. Inserted(s, r, keys) = c \o b
  BY <1>1, <1>3, <1>4, <1>5, Zenon
<1>13. /\ CountIn(c \o b, P) = (CountIn(a, P) + CountIn(x, P)) + CountIn(b, P)
       /\ CountIn(Append(s, r), P) = (CountIn(a, P) + CountIn(b, P)) + CountIn(x, P)
  BY <1>3, <1>5, <1>6, <1>7, <1>8, <1>9, <1>10
<1>14. QED
  BY <1>11, <1>12, <1>13

\* One row after another.
Sorting(f, rs, keys, n, V) ==
  /\ f[0] = <<>> /\ \A i \in 0..n : f[i] \in Seq(V)
  /\ \A i \in 1..n : f[i] = Inserted(f[i - 1], rs[i], keys)

LEMMA SortRowsIs ==
  ASSUME NEW V, NEW rs \in Seq(V), NEW keys
  PROVE  \E f : Sorting(f, rs, keys, Len(rs), V) /\ SortRows(rs, keys) = f[Len(rs)]
<1>1. PICK n \in Nat : n = Len(rs) /\ \A i \in 1..n : rs[i] \in V
  OBVIOUS
<1> DEFINE G == [x \in (1..n) \X Seq(V) |-> Inserted(x[2], rs[x[1]], keys)]
           Is(f) == f = [i \in 0..Len(rs) |-> IF i = 0 THEN <<>>
                                              ELSE Inserted(f[i - 1], rs[i], keys)]
           F == CHOOSE f : Is(f)
<1>2. G \in [(1..n) \X Seq(V) -> Seq(V)]
  <2>1. ASSUME NEW x \in (1..n) \X Seq(V) PROVE Inserted(x[2], rs[x[1]], keys) \in Seq(V)
    <3>1. PICK s \in Seq(V), r \in V : s = x[2] /\ r = rs[x[1]]
      BY <1>1
    <3>2. QED
      BY <3>1, InsertedWidens
  <2>2. QED
    BY <2>1
<1>3. PICK t \in [0..n -> Seq(V)] : t[0] = <<>> /\ \A i \in 1..n : t[i] = G[<<i, t[i - 1]>>]
  <2> HIDE DEF G
  <2>0. <<>> \in Seq(V)
    OBVIOUS
  <2>1. \E t \in [0..n -> Seq(V)] : Recurs(t, n, <<>>, G)
    BY <1>2, <2>0, Recursion, Zenon
  <2>2. QED
    BY <2>1, Zenon DEF Recurs
<1>4. ASSUME NEW i \in 1..n PROVE t[i] = Inserted(t[i - 1], rs[i], keys)
  <2>1. i - 1 \in 0..n
    OBVIOUS
  <2>2. <<i, t[i - 1]>> \in (1..n) \X Seq(V)
    BY <2>1
  <2>3. QED
    BY <1>3, <2>2
<1>5. Is(t)
  <2>1. ASSUME NEW i \in 0..n
        PROVE  t[i] = IF i = 0 THEN <<>> ELSE Inserted(t[i - 1], rs[i], keys)
    BY <1>3, <1>4
  <2>2. t = [i \in 0..n |-> t[i]]
    OBVIOUS
  <2>3. t = [i \in 0..n |-> IF i = 0 THEN <<>> ELSE Inserted(t[i - 1], rs[i], keys)]
    BY <2>1, <2>2, Zenon
  <2>4. QED
    BY <1>1, <2>3
<1>6. SortRows(rs, keys) = F[Len(rs)]
  BY DEF SortRows
<1> HIDE DEF Is
<1>7. Is(F)
  BY <1>5
<1> HIDE DEF F
<1>8. PICK u : u = F /\ Is(u)
  BY <1>7
<1>9. u[0] = <<>> /\ \A i \in 1..n : u[i] = Inserted(u[i - 1], rs[i], keys)
  <2>1. u[0] = <<>>
    BY <1>1, <1>8 DEF Is
  <2>2. ASSUME NEW i \in 1..n PROVE u[i] = Inserted(u[i - 1], rs[i], keys)
    <3>1. i \in 0..n /\ i # 0
      OBVIOUS
    <3>2. QED
      BY <1>1, <1>8, <3>1 DEF Is
  <2>3. QED
    BY <2>1, <2>2
<1> DEFINE T == {i \in Nat : i <= n => u[i] \in Seq(V)}
<1>10. \A i \in 0..n : u[i] \in Seq(V)
  <2>1. 0 \in T
    <3>1. <<>> \in Seq(V)
      OBVIOUS
    <3>2. QED
      BY <1>9, <3>1
  <2>2. ASSUME NEW i \in Nat, i \in T PROVE i + 1 \in T
    <3> SUFFICES ASSUME i + 1 <= n PROVE u[i + 1] \in Seq(V)
      OBVIOUS
    <3>1. i + 1 \in 1..n /\ (i + 1) - 1 = i
      OBVIOUS
    <3>2. PICK s \in Seq(V), r \in V : s = u[i] /\ r = rs[i + 1]
      BY <1>1, <2>2, <3>1
    <3>3. u[i + 1] = Inserted(s, r, keys)
      BY <1>9, <3>1, <3>2
    <3>4. QED
      BY <3>3, InsertedWidens
  <2> HIDE DEF T
  <2>3. Nat \subseteq T
    BY <2>1, <2>2, Induction
  <2>4. QED
    BY <2>3 DEF T
<1>11. Sorting(u, rs, keys, n, V)
  BY <1>9, <1>10 DEF Sorting
<1>12. QED
  BY <1>1, <1>6, <1>8, <1>11

\* Sorting neither loses nor adds rows.
LEMMA SortedCounts ==
  ASSUME NEW V, NEW rs \in Seq(V), NEW keys
  PROVE  /\ SortRows(rs, keys) \in Seq(V)
         /\ \A P : CountIn(SortRows(rs, keys), P) = CountIn(rs, P)
<1>1. PICK n \in Nat : n = Len(rs)
  OBVIOUS
<1>2. PICK f : Sorting(f, rs, keys, n, V) /\ SortRows(rs, keys) = f[n]
  BY <1>1, SortRowsIs
<1>3. ASSUME NEW P PROVE CountIn(f[n], P) = CountIn(rs, P)
  <2> DEFINE T == {i \in Nat : i <= n => CountIn(f[i], P) = CountIn(SubSeq(rs, 1, i), P)}
  <2>1. 0 \in T
    <3>1. SubSeq(rs, 1, 0) = <<>> /\ f[0] = <<>>
      BY <1>2 DEF Sorting
    <3>2. QED
      BY <3>1
  <2>2. ASSUME NEW i \in Nat, i \in T PROVE i + 1 \in T
    <3> SUFFICES ASSUME i + 1 <= n
                 PROVE  CountIn(f[i + 1], P) = CountIn(SubSeq(rs, 1, i + 1), P)
      OBVIOUS
    <3>1. i + 1 \in 1..n /\ (i + 1) - 1 = i /\ i \in 0..n
      OBVIOUS
    <3>2. PICK z \in Seq(V), x \in V : /\ z = SubSeq(rs, 1, i) /\ x = rs[i + 1]
                                       /\ SubSeq(rs, 1, i + 1) = Append(z, x)
      <4>1. OneMoreOf(rs, i, V)
        BY <1>1, <3>1, OneMore
      <4>2. QED
        BY <4>1, Zenon DEF OneMoreOf
    <3>3. PICK s \in Seq(V) : s = f[i]
      BY <1>2, <3>1 DEF Sorting
    <3>4. f[i + 1] = Inserted(s, x, keys)
      BY <1>2, <3>1, <3>2, <3>3 DEF Sorting
    <3>5. CountIn(Inserted(s, x, keys), P) = CountIn(Append(s, x), P)
      BY InsertedCounts
    <3>6. CountIn(Append(s, x), P) = CountIn(s, P) + (IF x \in P THEN 1 ELSE 0)
      BY CountAppend
    <3>7. CountIn(Append(z, x), P) = CountIn(z, P) + (IF x \in P THEN 1 ELSE 0)
      BY CountAppend
    <3>8. CountIn(s, P) = CountIn(z, P)
      BY <2>2, <3>1, <3>2, <3>3
    <3>9. QED
      BY <3>2, <3>4, <3>5, <3>6, <3>7, <3>8
  <2> HIDE DEF T
  <2>3. n \in T
    BY <2>1, <2>2, Induction
  <2>4. SubSeq(rs, 1, n) = rs
    BY <1>1
  <2>5. CountIn(f[n], P) = CountIn(SubSeq(rs, 1, n), P)
    BY <2>3 DEF T
  <2>6. QED
    BY <2>4, <2>5
<1>4. f[n] \in Seq(V)
  BY <1>2 DEF Sorting
<1>5. QED
  BY <1>2, <1>3, <1>4

\* The keys tell which of two rows is before the other.
Ranked(V, keys) ==
  /\ \A a, b \in V : Compare(b, a, keys) = -Compare(a, b, keys)
  /\ \A a, b, c \in V :
       Compare(a, b, keys) <= 0 /\ Compare(b, c, keys) <= 0 => Compare(a, c, keys) <= 0

InOrder(s, keys) == \A p, q \in 1..Len(s) : p < q => Compare(s[p], s[q], keys) <= 0

LEMMA InsertedInOrder ==
  ASSUME NEW V, NEW s \in Seq(V), NEW r \in V, NEW keys, Ranked(V, keys), InOrder(s, keys)
  PROVE  InOrder(Inserted(s, r, keys), keys)
<1>1. PICK t \in Seq(V) : t = Inserted(s, r, keys)
  BY InsertedWidens
<1>2. PICK p : Place(s, r, keys, p) /\ Widened(t, s, r, p)
  BY <1>1, InsertedWidens
<1>3. PICK n \in Nat : n = Len(s) /\ p \in 0..n /\ \A i \in 1..n : s[i] \in V
  BY <1>2 DEF Place
<1>4. Len(t) = n + 1
  BY <1>2, <1>3 DEF Widened
<1>5. \A a, b \in V : Compare(a, b, keys) \in Int
  BY CompareIs
<1>6. ASSUME NEW i \in 1..p PROVE Compare(s[i], r, keys) <= 0
  <2>1. i \in 1..n /\ p \in 1..n /\ s[i] \in V /\ s[p] \in V
    BY <1>3
  <2>2. Compare(r, s[p], keys) >= 0
    BY <1>2, <2>1 DEF Place
  <2>3. Compare(s[p], r, keys) = -Compare(r, s[p], keys)
    BY <2>1 DEF Ranked
  <2>4. Compare(s[p], r, keys) <= 0
    BY <1>5, <2>1, <2>2, <2>3
  <2>5. CASE i = p
    BY <2>4, <2>5
  <2>6. CASE i < p
    <3>1. Compare(s[i], s[p], keys) <= 0
      BY <1>3, <2>1, <2>6 DEF InOrder
    <3>2. QED
      BY <2>1, <2>4, <3>1 DEF Ranked
  <2>7. QED
    BY <1>3, <2>5, <2>6
<1>7. ASSUME NEW i \in (p + 1)..n PROVE Compare(r, s[i], keys) <= 0
  <2>1. Compare(r, s[i], keys) < 0 /\ s[i] \in V
    BY <1>2, <1>3 DEF Place
  <2>2. QED
    BY <1>5, <2>1
<1> DEFINE Old(i) == IF i <= p THEN i ELSE i - 1
<1>8. ASSUME NEW i \in 1..(n + 1), i # p + 1 PROVE Old(i) \in 1..n /\ t[i] = s[Old(i)]
  <2>1. CASE i <= p
    <3>1. i \in 1..p /\ i \in 1..n
      BY <1>3, <2>1
    <3>2. t[i] = s[i]
      BY <1>2, <3>1 DEF Widened
    <3>3. QED
      BY <2>1, <3>1, <3>2
  <2>2. CASE ~(i <= p)
    <3>1. i - 1 \in (p + 1)..n /\ (i - 1) + 1 = i /\ i - 1 \in 1..n
      BY <1>3, <1>8, <2>2
    <3>2. t[(i - 1) + 1] = s[i - 1]
      BY <1>2, <1>3, <3>1 DEF Widened
    <3>3. QED
      BY <2>2, <3>1, <3>2
  <2>3. QED
    BY <2>1, <2>2
<1>9. t[p + 1] = r
  BY <1>2 DEF Widened
<1>10. ASSUME NEW i \in 1..(n + 1), NEW j \in 1..(n + 1), i < j
       PROVE  Compare(t[i], t[j], keys) <= 0
  <2>1. CASE i = p + 1
    <3>1. j - 1 \in (p + 1)..n /\ Old(j) = j - 1 /\ j # p + 1
      BY <1>3, <1>10, <2>1
    <3>2. t[j] = s[j - 1]
      BY <1>8, <3>1
    <3>3. QED
      BY <1>7, <1>9, <2>1, <3>1, <3>2
  <2>2. CASE j = p + 1
    <3>1. i \in 1..p /\ Old(i) = i /\ i # p + 1
      BY <1>3, <1>10, <2>2
    <3>2. t[i] = s[i]
      BY <1>8, <3>1
    <3>3. QED
      BY <1>6, <1>9, <2>2, <3>1, <3>2
  <2>3. CASE i # p + 1 /\ j # p + 1
    <3>1. Old(i) \in 1..n /\ Old(j) \in 1..n /\ t[i] = s[Old(i)] /\ t[j] = s[Old(j)]
      BY <1>8, <2>3
    <3>2. Old(i) < Old(j)
      BY <1>3, <1>10, <2>3
    <3> HIDE DEF Old
    <3>3. QED
      BY <1>3, <3>1, <3>2 DEF InOrder
  <2>4. QED
    BY <2>1, <2>2, <2>3
<1>11. InOrder(t, keys)
  BY <1>4, <1>10 DEF InOrder
<1>12. QED
  BY <1>1, <1>11

LEMMA SortedInOrder ==
  ASSUME NEW V, NEW rs \in Seq(V), NEW keys, Ranked(V, keys)
  PROVE  InOrder(SortRows(rs, keys), keys)
<1>1. PICK n \in Nat : n = Len(rs) /\ \A i \in 1..n : rs[i] \in V
  OBVIOUS
<1>2. PICK f : Sorting(f, rs, keys, n, V) /\ SortRows(rs, keys) = f[n]
  BY <1>1, SortRowsIs
<1> DEFINE T == {i \in Nat : i <= n => InOrder(f[i], keys)}
<1>3. 0 \in T
  <2>1. f[0] = <<>>
    BY <1>2 DEF Sorting
  <2>2. InOrder(<<>>, keys)
    BY DEF InOrder
  <2>3. QED
    BY <2>1, <2>2
<1>4. ASSUME NEW i \in Nat, i \in T PROVE i + 1 \in T
  <2> SUFFICES ASSUME i + 1 <= n PROVE InOrder(f[i + 1], keys)
    OBVIOUS
  <2>1. i + 1 \in 1..n /\ (i + 1) - 1 = i /\ i \in 0..n
    OBVIOUS
  <2>2. PICK s \in Seq(V) : s = f[i]
    BY <1>2, <2>1 DEF Sorting
  <2>3. PICK r \in V : r = rs[i + 1]
    BY <1>1, <2>1
  <2>4. f[i + 1] = Inserted(s, r, keys)
    BY <1>2, <2>1, <2>2, <2>3 DEF Sorting
  <2>5. InOrder(s, keys)
    BY <1>4, <2>1, <2>2
  <2>6. QED
    BY <2>4, <2>5, InsertedInOrder
<1> HIDE DEF T
<1>5. n \in T
  BY <1>3, <1>4, Induction
<1>6. QED
  BY <1>2, <1>5 DEF T

Peers(E, r, V, keys) == \A y \in V : y \in E <=> Compare(y, r, keys) = 0

\* A row goes behind its peers.
LEMMA InsertedBehindPeers ==
  ASSUME NEW V, NEW s \in Seq(V), NEW x \in V, NEW keys, Ranked(V, keys),
         NEW r \in V, NEW E, Peers(E, r, V, keys)
  PROVE  Only(Inserted(s, x, keys), E) = Only(Append(s, x), E)
<1>1. PICK p : /\ Place(s, x, keys, p)
               /\ Inserted(s, x, keys) = SubSeq(s, 1, p) \o <<x>> \o SubSeq(s, p + 1, Len(s))
  BY InsertedIs
<1>2. p \in 0..Len(s) /\ Len(s) \in Nat
  BY <1>1 DEF Place
<1>3. PICK a \in Seq(V), b \in Seq(V) :
        /\ a = SubSeq(s, 1, p) /\ b = SubSeq(s, p + 1, Len(s)) /\ s = a \o b
        /\ Len(b) = Len(s) - p /\ \A i \in 1..(Len(s) - p) : b[i] = s[p + i]
  <2>1. /\ SubSeq(s, 1, p) \in Seq(V) /\ SubSeq(s, p + 1, Len(s)) \in Seq(V)
        /\ s = SubSeq(s, 1, p) \o SubSeq(s, p + 1, Len(s))
        /\ Len(SubSeq(s, p + 1, Len(s))) = Len(s) - p
        /\ \A i \in 1..(Len(s) - p) : SubSeq(s, p + 1, Len(s))[i] = s[p + i]
    BY <1>2, Cut
  <2>2. PICK a \in Seq(V), b \in Seq(V) : a = SubSeq(s, 1, p) /\ b = SubSeq(s, p + 1, Len(s))
    BY <2>1
  <2>3. QED
    BY <2>1, <2>2
<1>4. PICK z \in Seq(V) : z = <<x>>
  <2>1. <<x>> \in Seq(V)
    OBVIOUS
  <2>2. QED
    BY <2>1
<1>5. PICK c \in Seq(V) : c = a \o z
  <2>1. a \o z \in Seq(V)
    OBVIOUS
  <2>2. QED
    BY <2>1
<1>6. PICK A \in Seq(V), B \in Seq(V), Z \in Seq(V) :
        A = Only(a, E) /\ B = Only(b, E) /\ Z = Only(z, E)
  <2>1. Only(a, E) \in Seq(V) /\ Only(b, E) \in Seq(V) /\ Only(z, E) \in Seq(V)
    BY OnlyCounts
  <2>2. QED
    BY <2>1
<1>7. Only(c \o b, E) = Only(c, E) \o B
  <2>1. Splits(c, b, E)
    BY OnlyConcat, Zenon
  <2>2. QED
    BY <1>6, <2>1 DEF Splits
<1>8. Only(c, E) = A \o Z
  <2>1. Splits(a, z, E)
    BY OnlyConcat, Zenon
  <2>2. QED
    BY <1>5, <1>6, <2>1 DEF Splits
<1>9. Only(s, E) = A \o B
  <2>1. Splits(a, b, E)
    BY OnlyConcat, Zenon
  <2>2. QED
    BY <1>3, <1>6, <2>1 DEF Splits
<1>10. Inserted(s, x, keys) = c \o b
  BY <1>1, <1>3, <1>4, <1>5, Zenon
<1>11. Z = IF x \in E THEN <<x>> ELSE <<>>
  <2>1. PICK e \in Seq(V) : e = <<>>
    <3>1. <<>> \in Seq(V)
      OBVIOUS
    <3>2. QED
      BY <3>1
  <2>2. z = Append(e, x) /\ Append(<<>>, x) = <<x>>
    BY <1>4, <2>1
  <2>3. Only(Append(e, x), E) = IF x \in E THEN Append(Only(e, E), x) ELSE Only(e, E)
    BY OnlyAppend
  <2>4. Only(e, E) = <<>>
    BY <2>1, OnlyEmpty
  <2>5. QED
    BY <1>6, <2>2, <2>3, <2>4
<1>12. Only(Append(s, x), E) = IF x \in E THEN Append(Only(s, E), x) ELSE Only(s, E)
  BY OnlyAppend
<1>13. CASE x \notin E
  <2>1. A \o <<>> = A
    OBVIOUS
  <2>2. QED
    BY <1>7, <1>8, <1>9, <1>10, <1>11, <1>12, <1>13, <2>1
<1>14. CASE x \in E
  <2>1. ASSUME NEW i \in DOMAIN b PROVE b[i] \notin E
    <3>0. i \in 1..Len(b) /\ b[i] \in V
      OBVIOUS
    <3>1. i \in 1..(Len(s) - p) /\ b[i] \in V
      BY <1>3, <3>0
    <3>2. p + i \in (p + 1)..Len(s) /\ b[i] = s[p + i]
      <4>1. p + i \in (p + 1)..Len(s)
        BY <1>2, <3>1
      <4>2. b[i] = s[p + i]
        BY <1>3, <3>1
      <4>3. QED
        BY <4>1, <4>2
    <3>3. Compare(x, b[i], keys) < 0
      BY <1>1, <3>2 DEF Place
    <3>4. SUFFICES ASSUME Compare(b[i], r, keys) = 0 PROVE FALSE
      BY <3>1 DEF Peers
    <3>5. Compare(x, r, keys) = 0
      BY <1>14 DEF Peers
    <3>6. /\ Compare(r, x, keys) = -Compare(x, r, keys)
          /\ Compare(x, b[i], keys) = -Compare(b[i], x, keys)
      BY <3>1 DEF Ranked
    <3>7. Compare(r, x, keys) <= 0 /\ Compare(b[i], r, keys) <= 0
      BY <3>4, <3>5, <3>6
    <3>8. Compare(b[i], x, keys) <= 0
      BY <3>1, <3>7 DEF Ranked
    <3>9. Compare(b[i], x, keys) \in {-1, 0, 1}
      BY CompareIs
    <3>10. QED
      BY <3>3, <3>6, <3>8, <3>9
  <2>2. B = <<>>
    BY <1>6, <2>1, OnlyMembers
  <2>3. PICK C \in Seq(V) : C = A \o Z
    <3>1. A \o Z \in Seq(V)
      OBVIOUS
    <3>2. QED
      BY <3>1
  <2>4. C \o <<>> = C /\ A \o <<>> = A /\ A \o <<x>> = Append(A, x)
    OBVIOUS
  <2>5. QED
    BY <1>7, <1>8, <1>9, <1>10, <1>11, <1>12, <1>14, <2>2, <2>3, <2>4
<1>15. QED
  BY <1>13, <1>14

LEMMA SortedStably ==
  ASSUME NEW V, NEW rs \in Seq(V), NEW keys, Ranked(V, keys),
         NEW r \in V, NEW E, Peers(E, r, V, keys)
  PROVE  Only(SortRows(rs, keys), E) = Only(rs, E)
<1>1. PICK n \in Nat : n = Len(rs)
  OBVIOUS
<1>2. PICK f : Sorting(f, rs, keys, n, V) /\ SortRows(rs, keys) = f[n]
  BY <1>1, SortRowsIs
<1> DEFINE T == {i \in Nat : i <= n => Only(f[i], E) = Only(SubSeq(rs, 1, i), E)}
<1>3. 0 \in T
  <2>1. SubSeq(rs, 1, 0) = <<>> /\ f[0] = <<>>
    BY <1>2 DEF Sorting
  <2>2. QED
    BY <2>1
<1>4. ASSUME NEW i \in Nat, i \in T PROVE i + 1 \in T
  <2> SUFFICES ASSUME i + 1 <= n
               PROVE  Only(f[i + 1], E) = Only(SubSeq(rs, 1, i + 1), E)
    OBVIOUS
  <2>1. i + 1 \in 1..n /\ (i + 1) - 1 = i /\ i \in 0..n
    OBVIOUS
  <2>2. PICK z \in Seq(V), x \in V : /\ z = SubSeq(rs, 1, i) /\ x = rs[i + 1]
                                     /\ SubSeq(rs, 1, i + 1) = Append(z, x)
    <3>1. OneMoreOf(rs, i, V)
      BY <1>1, <2>1, OneMore
    <3>2. QED
      BY <3>1, Zenon DEF OneMoreOf
  <2>3. PICK s \in Seq(V) : s = f[i]
    BY <1>2, <2>1 DEF Sorting
  <2>4. f[i + 1] = Inserted(s, x, keys)
    BY <1>2, <2>1, <2>2, <2>3 DEF Sorting
  <2>5. Only(Inserted(s, x, keys), E) = Only(Append(s, x), E)
    BY InsertedBehindPeers
  <2>6. Only(Append(s, x), E) = IF x \in E THEN Append(Only(s, E), x) ELSE Only(s, E)
    BY OnlyAppend
  <2>7. Only(Append(z, x), E) = IF x \in E THEN Append(Only(z, E), x) ELSE Only(z, E)
    BY OnlyAppend
  <2>8. Only(s, E) = Only(z, E)
    BY <1>4, <2>1, <2>2, <2>3
  <2>9. QED
    BY <2>2, <2>4, <2>5, <2>6, <2>7, <2>8
<1> HIDE DEF T
<1>5. n \in T
  BY <1>3, <1>4, Induction
<1>6. SubSeq(rs, 1, n) = rs
  BY <1>1
<1>7. Only(f[n], E) = Only(SubSeq(rs, 1, n), E)
  BY <1>5 DEF T
<1>8. QED
  BY <1>2, <1>6, <1>7

----------------------------------------------------------------------------
(* Every stage gives rows of cells                                         *)

Choosing(f, fn, vs, n) ==
  /\ f[0] = Null
  /\ \A i \in 1..n :
       f[i] = IF f[i - 1] = Null \/ Better(fn, vs[i], f[i - 1]) THEN vs[i] ELSE f[i - 1]

LEMMA BestIs ==
  ASSUME NEW fn, NEW vs \in Seq(Cell)
  PROVE  \E f : /\ Choosing(f, fn, vs, Len(vs)) /\ \A i \in 0..Len(vs) : f[i] \in Cell
                /\ Best(fn, vs) = f[Len(vs)]
<1>1. PICK n \in Nat : n = Len(vs) /\ \A i \in 1..n : vs[i] \in Cell
  OBVIOUS
<1> DEFINE Step(b, i) == IF b = Null \/ Better(fn, vs[i], b) THEN vs[i] ELSE b
           G == [x \in (1..n) \X Cell |-> Step(x[2], x[1])]
           Is(f) == f = [i \in 0..Len(vs) |-> IF i = 0 THEN Null ELSE Step(f[i - 1], i)]
           F == CHOOSE f : Is(f)
<1>2. G \in [(1..n) \X Cell -> Cell]
  <2>1. ASSUME NEW x \in (1..n) \X Cell PROVE Step(x[2], x[1]) \in Cell
    BY <1>1
  <2> HIDE DEF Step
  <2>2. QED
    BY <2>1
<1>3. PICK t \in [0..n -> Cell] : t[0] = Null /\ \A i \in 1..n : t[i] = G[<<i, t[i - 1]>>]
  <2> HIDE DEF G
  <2>0. Null \in Cell
    BY DEF Cell
  <2>1. \E t \in [0..n -> Cell] : Recurs(t, n, Null, G)
    BY <1>2, <2>0, Recursion, Zenon
  <2>2. QED
    BY <2>1, Zenon DEF Recurs
<1> HIDE DEF Step
<1>4. ASSUME NEW i \in 1..n PROVE t[i] = Step(t[i - 1], i)
  <2>1. i - 1 \in 0..n
    OBVIOUS
  <2>2. <<i, t[i - 1]>> \in (1..n) \X Cell
    BY <2>1
  <2>3. QED
    BY <1>3, <2>2
<1>5. Is(t)
  <2>1. ASSUME NEW i \in 0..n PROVE t[i] = IF i = 0 THEN Null ELSE Step(t[i - 1], i)
    BY <1>3, <1>4
  <2>2. t = [i \in 0..n |-> t[i]]
    OBVIOUS
  <2>3. t = [i \in 0..n |-> IF i = 0 THEN Null ELSE Step(t[i - 1], i)]
    BY <2>1, <2>2, Zenon
  <2>4. QED
    BY <1>1, <2>3
<1>6. Best(fn, vs) = F[Len(vs)]
  BY DEF Best, Step
<1> HIDE DEF Is
<1>7. Is(F)
  BY <1>5
<1> HIDE DEF F
<1>8. PICK u : u = F /\ Is(u)
  BY <1>7
<1>9. u[0] = Null /\ \A i \in 1..n : u[i] = Step(u[i - 1], i)
  <2>1. u[0] = Null
    BY <1>1, <1>8 DEF Is
  <2>2. ASSUME NEW i \in 1..n PROVE u[i] = Step(u[i - 1], i)
    <3>1. i \in 0..n /\ i # 0
      OBVIOUS
    <3>2. QED
      BY <1>1, <1>8, <3>1 DEF Is
  <2>3. QED
    BY <2>1, <2>2
<1> DEFINE T == {i \in Nat : i <= n => u[i] \in Cell}
<1>10. \A i \in 0..n : u[i] \in Cell
  <2>1. 0 \in T
    BY <1>9 DEF Cell
  <2>2. ASSUME NEW i \in Nat, i \in T PROVE i + 1 \in T
    <3> SUFFICES ASSUME i + 1 <= n PROVE u[i + 1] \in Cell
      OBVIOUS
    <3>1. i + 1 \in 1..n /\ (i + 1) - 1 = i
      OBVIOUS
    <3>2. u[i + 1] = Step(u[i], i + 1) /\ u[i] \in Cell
      BY <1>9, <2>2, <3>1
    <3>3. QED
      BY <1>1, <3>1, <3>2 DEF Step
  <2> HIDE DEF T
  <2>3. Nat \subseteq T
    BY <2>1, <2>2, Induction
  <2>4. QED
    BY <2>3 DEF T
<1>11. Choosing(u, fn, vs, n)
  BY <1>9 DEF Choosing, Step
<1>12. QED
  BY <1>1, <1>6, <1>8, <1>10, <1>11

LEMMA NumberType == ASSUME NEW n \in Int PROVE Number(n) \in Cell
  BY CellsAssumption DEF Number, Cell

LEMMA BestType == ASSUME NEW fn, NEW vs \in Seq(Cell) PROVE Best(fn, vs) \in Cell
<1>1. Len(vs) \in 0..Len(vs)
  OBVIOUS
<1>2. QED
  BY <1>1, BestIs

LEMMA AggregateType ==
  ASSUME NEW V, NEW fn \in Aggregates, NEW arg, Readable(V, arg), NEW rs \in Seq(V)
  PROVE  Aggregate(fn, rs, arg) \in Cell
<1>2. PICK S : S = {r \in ToSet(rs) : arg = 0 \/ r[arg] # Null}
  OBVIOUS
<1>3. PICK some \in Seq(V) : some = Only(rs, S)
  BY OnlyCounts
<1>4. PICK vs : vs = IF arg = 0 THEN <<>> ELSE [i \in DOMAIN some |-> some[i][arg]]
  OBVIOUS
<1>5. CASE fn \in {"COUNT", "SUM"}
  <2>1. PICK n : Aggregate(fn, rs, arg) = Number(n)
    BY <1>5 DEF Aggregate
  <2>2. Aggregate(fn, rs, arg).num = n
    BY <2>1 DEF Number
  <2>3. PICK wt \in [V -> Int] : wt = Adds(fn, arg, V)
    BY AddsType
  <2>4. Aggregate(fn, rs, arg).num = Weight(rs, wt)
    BY <1>5, <2>3, AggregateIs
  <2>5. Weights(rs, wt) \in [1..Len(rs) -> Int] /\ Len(rs) \in Nat
    BY WeightsType
  <2>6. Total(Weights(rs, wt)) \in Int
    BY <2>5, TotalInt
  <2>7. n \in Int
    BY <2>2, <2>4, <2>6 DEF Weight
  <2>8. QED
    BY <2>1, <2>7, NumberType
<1>6. CASE fn \notin {"COUNT", "SUM"}
  <2>1. vs \in Seq(Cell)
    <3>1. CASE arg = 0
      BY <1>4, <3>1
    <3>2. CASE arg # 0
      <4>1. \A i \in 1..Len(some) : some[i][arg] \in Cell
        <5>1. ASSUME NEW r \in V PROVE r[arg] \in Cell
          BY <3>2 DEF Readable
        <5>2. QED
          BY <5>1
      <4>2. vs = [i \in 1..Len(some) |-> some[i][arg]] /\ Len(some) \in Nat
        BY <1>4, <3>2
      <4>3. PICK k \in Nat : k = Len(some)
        BY <4>2
      <4>4. vs \in [1..k -> Cell]
        BY <4>1, <4>2, <4>3
      <4>5. QED
        BY <4>4
    <3>3. QED
      BY <3>1, <3>2
  <2>2. Aggregate(fn, rs, arg) = Best(fn, vs)
    BY <1>2, <1>3, <1>4, <1>6, Zenon DEF Aggregate
  <2>3. QED
    BY <2>1, <2>2, BestType
<1>7. QED
  BY <1>5, <1>6

\* A row with one cell more.
LEMMA WideAppend ==
  ASSUME NEW n \in Nat, NEW f, \A i \in 1..n : f[i] \in Cell, NEW x \in Cell
  PROVE  [i \in 1..n |-> f[i]] \o <<x>> \in Wide(n + 1)
<1>1. PICK s \in Seq(Cell) : s = [i \in 1..n |-> f[i]] /\ Len(s) = n
  <2>1. PICK s : s = [i \in 1..n |-> f[i]]
    OBVIOUS
  <2>2. s \in [1..n -> Cell]
    BY <2>1
  <2>3. QED
    BY <2>1, <2>2
<1>2. s \o <<x>> \in Seq(Cell) /\ Len(s \o <<x>>) = Len(s) + 1
  OBVIOUS
<1>3. PICK m \in Nat : m = n + 1
  OBVIOUS
<1>4. s \o <<x>> \in Wide(m)
  BY <1>1, <1>2, <1>3, WideIs
<1>5. QED
  BY <1>1, <1>3, <1>4

LEMMA GroupRowsType ==
  ASSUME NEW w \in Nat, NEW rs \in Seq(Wide(w)), NEW g, g.fn \in Aggregates,
         g.on \in Seq(1..w), g.arg \in 0..w
  PROVE  GroupRows(rs, g) \in Seq(Wide(Len(g.on) + 1))
<1>0. g.on \in Seq(Nat)
  <2>1. PICK on \in Seq(1..w) : on = g.on
    OBVIOUS
  <2>2. on \in [1..Len(on) -> Nat] /\ Len(on) \in Nat
    OBVIOUS
  <2>3. on \in Seq(Nat)
    BY <2>2
  <2>4. QED
    BY <2>1, <2>3
<1>1. PICK ks : ks = KeysFor(rs, g.on) /\ Len(ks) \in Nat /\ DOMAIN ks = 1..Len(ks)
  BY <1>0, KeysForAre
<1>2. PICK n \in Nat : n = Len(g.on) /\ DOMAIN g.on = 1..n /\ \A p \in 1..n : g.on[p] \in 1..w
  <2>1. PICK D : D = 1..w
    OBVIOUS
  <2>2. g.on \in Seq(D)
    BY <2>1
  <2>3. PICK on \in Seq(D) : on = g.on
    BY <2>2
  <2>4. PICK n \in Nat : n = Len(on) /\ DOMAIN on = 1..n
    OBVIOUS
  <2>5. \A p \in 1..n : on[p] \in D
    BY <2>4
  <2>6. QED
    BY <2>1, <2>3, <2>4, <2>5
<1>3. PICK out : out = GroupRows(rs, g)
  OBVIOUS
<1>4. out = [i \in 1..Len(ks) |->
               [p \in 1..n |-> Group(rs, g.on, ks[i])[1][g.on[p]]]
                 \o <<Aggregate(g.fn, Group(rs, g.on, ks[i]), g.arg)>>]
  BY <1>1, <1>2, <1>3 DEF GroupRows, KeysFor, Group
<1>5. ASSUME NEW i \in 1..Len(ks) PROVE out[i] \in Wide(n + 1)
  <2>1. PICK f : f = [p \in 1..n |-> Group(rs, g.on, ks[i])[1][g.on[p]]]
    OBVIOUS
  <2>2. PICK x : x = Aggregate(g.fn, Group(rs, g.on, ks[i]), g.arg)
    OBVIOUS
  <2>3. out[i] = [p \in 1..n |-> f[p]] \o <<x>>
    BY <1>4, <2>1, <2>2
  <2>4. x \in Cell
    <3>1. PICK t \in Seq([1..w -> Cell]) : t = Group(rs, g.on, ks[i])
      BY OnlyCounts DEF Group, Wide
    <3>2. g.arg \in 1..w \cup {0}
      OBVIOUS
    <3>3. Aggregate(g.fn, t, g.arg) \in Cell
      <4>1. Readable([1..w -> Cell], g.arg)
        BY <3>2, CellsReadable
      <4>2. QED
        BY <4>1, AggregateType
    <3>4. QED
      BY <2>2, <3>1, <3>3
  <2>5. ASSUME NEW p \in 1..n PROVE f[p] \in Cell
    <3>1. g.on # <<>>
      BY <1>2
    <3>2. Group(rs, g.on, ks[i])[1] \in Wide(w)
      BY <1>1, <3>1, GroupHas
    <3>3. g.on[p] \in 1..w
      BY <1>2
    <3>4. QED
      BY <2>1, <3>2, <3>3 DEF Wide
  <2>6. QED
    BY <2>3, <2>4, <2>5, WideAppend
<1>6. PICK m \in Nat : m = Len(ks)
  BY <1>1
<1>6a. PICK W : W = Wide(n + 1)
  OBVIOUS
<1>7. out \in [1..m -> W]
  BY <1>4, <1>5, <1>6, <1>6a
<1>8. out \in Seq(W)
  BY <1>7
<1>9. QED
  BY <1>2, <1>3, <1>6a, <1>8

\* The running state of a window aggregate.
Running == [rows : Int, some : Int, sum : Int, best : Cell]

Added(x, fn, acc, v, counted) ==
  /\ x \in Running /\ x.rows = acc.rows + 1
  /\ x.some = IF counted \/ v = Null THEN acc.some ELSE acc.some + 1
  /\ x.sum = IF counted \/ Num(v) = NoNumber THEN acc.sum ELSE acc.sum + Num(v)
  /\ x.best = IF counted \/ v = Null THEN acc.best
              ELSE IF acc.best = Null THEN v ELSE Best(fn, <<acc.best, v>>)

LEMMA AddIs ==
  ASSUME NEW fn, NEW acc \in Running, NEW v \in Cell, NEW counted \in BOOLEAN
  PROVE  Added(Add(fn, acc, v, counted), fn, acc, v, counted)
<1>1. PICK b : b = Best(fn, <<acc.best, v>>)
  OBVIOUS
<1>2. b \in Cell
  <2>1. acc.best \in Cell
    BY DEF Running
  <2>2. <<acc.best, v>> \in Seq(Cell)
    BY <2>1
  <2>3. QED
    BY <1>1, <2>2, BestType
<1>3. Num(v) \in Int \cup {NoNumber}
  BY CellType
<1>4. PICK a : a = [acc EXCEPT !.rows = @ + 1]
  OBVIOUS
<1>5. /\ a \in Running /\ a.rows = acc.rows + 1
      /\ a.some = acc.some /\ a.sum = acc.sum /\ a.best = acc.best
  BY <1>4 DEF Running
<1>6. PICK sum \in Int, best \in Cell, some \in Int :
        /\ sum = IF Num(v) = NoNumber THEN acc.sum ELSE acc.sum + Num(v)
        /\ best = IF acc.best = Null THEN v ELSE b
        /\ some = acc.some + 1
  BY <1>2, <1>3 DEF Running
<1>7. PICK x : x = [a EXCEPT !.some = some, !.sum = sum, !.best = best]
  OBVIOUS
<1>8. Add(fn, acc, v, counted) = IF counted \/ v = Null THEN a ELSE x
  BY <1>1, <1>4, <1>5, <1>6, <1>7 DEF Add
<1>9. x \in Running /\ x.rows = a.rows /\ x.some = some /\ x.sum = sum /\ x.best = best
  <2>1. PICK b1 \in Running : b1 = [a EXCEPT !.some = some]
    BY <1>5, <1>6 DEF Running
  <2>2. b1.rows = a.rows /\ b1.some = some
    BY <1>5, <2>1 DEF Running
  <2>3. PICK b2 \in Running : b2 = [b1 EXCEPT !.sum = sum]
    BY <1>6, <2>1 DEF Running
  <2>4. b2.rows = b1.rows /\ b2.some = b1.some /\ b2.sum = sum
    BY <2>1, <2>3 DEF Running
  <2>5. PICK b3 \in Running : b3 = [b2 EXCEPT !.best = best]
    BY <1>6, <2>3 DEF Running
  <2>6. b3.rows = b2.rows /\ b3.some = b2.some /\ b3.sum = b2.sum /\ b3.best = best
    BY <2>3, <2>5 DEF Running
  <2>7. x = b3
    BY <1>7, <2>1, <2>3, <2>5
  <2>8. QED
    BY <2>2, <2>4, <2>5, <2>6, <2>7
<1>10. CASE counted \/ v = Null
  <2>1. Num(v) = NoNumber \/ counted
    BY <1>10 DEF Num
  <2>2. QED
    BY <1>5, <1>8, <1>10, <2>1 DEF Added
<1>11. CASE ~(counted \/ v = Null)
  BY <1>1, <1>5, <1>6, <1>8, <1>9, <1>11 DEF Added
<1>12. QED
  BY <1>10, <1>11

LEMMA AddType ==
  ASSUME NEW fn, NEW acc \in Running, NEW v \in Cell, NEW counted \in BOOLEAN
  PROVE  Add(fn, acc, v, counted) \in Running
  BY AddIs DEF Added

LEMMA ValueType ==
  ASSUME NEW fn, NEW acc \in Running, NEW counted PROVE ValueOf(fn, acc, counted) \in Cell
<1>1. CASE fn = "COUNT"
  <2>1. (IF counted THEN acc.rows ELSE acc.some) \in Int
    BY DEF Running
  <2>2. QED
    BY <1>1, <2>1, NumberType DEF ValueOf
<1>2. CASE fn = "SUM"
  <2>1. acc.sum \in Int
    BY DEF Running
  <2>2. QED
    BY <1>2, <2>1, NumberType DEF ValueOf
<1>3. CASE fn \notin {"COUNT", "SUM"}
  BY <1>3 DEF ValueOf, Running
<1>4. QED
  BY <1>1, <1>2, <1>3

\* What a window aggregate reads of the row i.
Read(w, rs, i) == IF w.arg = 0 THEN Null ELSE rs[i][w.arg]

Accumulating(f, w, rs, n) ==
  /\ f[0] = NewAccumulator
  /\ \A i \in 1..n : f[i] = Add(w.fn, f[i - 1], Read(w, rs, i), w.arg = 0)

LEMMA AccumulatedIs ==
  ASSUME NEW w, NEW rs, NEW n \in Nat, \A i \in 1..n : Read(w, rs, i) \in Cell
  PROVE  \E f : /\ Accumulating(f, w, rs, n) /\ \A i \in 0..n : f[i] \in Running
                /\ Accumulated(w, rs, n) = f[n]
<1> DEFINE Step(a, i) == Add(w.fn, a, Read(w, rs, i), w.arg = 0)
           G == [x \in (1..n) \X Running |-> Step(x[2], x[1])]
           Is(f) == f = [i \in 0..n |-> IF i = 0 THEN NewAccumulator ELSE Step(f[i - 1], i)]
           F == CHOOSE f : Is(f)
<1>1. \A i \in 1..n : \A a \in Running : Step(a, i) \in Running
  <2>1. ASSUME NEW i \in 1..n, NEW a \in Running PROVE Step(a, i) \in Running
    <3>1. Read(w, rs, i) \in Cell /\ (w.arg = 0) \in BOOLEAN
      OBVIOUS
    <3>2. QED
      BY <3>1, AddType
  <2>2. QED
    BY <2>1
<1>2. G \in [(1..n) \X Running -> Running]
  <2>1. ASSUME NEW x \in (1..n) \X Running PROVE Step(x[2], x[1]) \in Running
    BY <1>1
  <2> HIDE DEF Step
  <2>2. QED
    BY <2>1
<1>3. PICK t \in [0..n -> Running] :
        t[0] = NewAccumulator /\ \A i \in 1..n : t[i] = G[<<i, t[i - 1]>>]
  <2> HIDE DEF G
  <2>0. NewAccumulator \in Running
    BY DEF NewAccumulator, Running, Cell
  <2>1. \E t \in [0..n -> Running] : Recurs(t, n, NewAccumulator, G)
    BY <1>2, <2>0, Recursion, Zenon
  <2>2. QED
    BY <2>1, Zenon DEF Recurs
<1>6. Accumulated(w, rs, n) = F[n]
  BY DEF Accumulated, Read
<1> HIDE DEF Step
<1>4. ASSUME NEW i \in 1..n PROVE t[i] = Step(t[i - 1], i)
  <2>1. i - 1 \in 0..n
    OBVIOUS
  <2>2. <<i, t[i - 1]>> \in (1..n) \X Running
    BY <2>1
  <2>3. QED
    BY <1>3, <2>2
<1>5. Is(t)
  <2>1. ASSUME NEW i \in 0..n PROVE t[i] = IF i = 0 THEN NewAccumulator ELSE Step(t[i - 1], i)
    BY <1>3, <1>4
  <2>2. t = [i \in 0..n |-> t[i]]
    OBVIOUS
  <2>3. t = [i \in 0..n |-> IF i = 0 THEN NewAccumulator ELSE Step(t[i - 1], i)]
    BY <2>1, <2>2, Zenon
  <2>4. QED
    BY <2>3
<1> HIDE DEF Is
<1>7. Is(F)
  BY <1>5
<1> HIDE DEF F
<1>8. PICK u : u = F /\ Is(u)
  BY <1>7
<1>9. u[0] = NewAccumulator /\ \A i \in 1..n : u[i] = Step(u[i - 1], i)
  <2>1. u[0] = NewAccumulator
    BY <1>8 DEF Is
  <2>2. ASSUME NEW i \in 1..n PROVE u[i] = Step(u[i - 1], i)
    <3>1. i \in 0..n /\ i # 0
      OBVIOUS
    <3>2. QED
      BY <1>8, <3>1 DEF Is
  <2>3. QED
    BY <2>1, <2>2
<1> DEFINE T == {i \in Nat : i <= n => u[i] \in Running}
<1>10. \A i \in 0..n : u[i] \in Running
  <2>1. 0 \in T
    BY <1>9 DEF NewAccumulator, Running, Cell
  <2>2. ASSUME NEW i \in Nat, i \in T PROVE i + 1 \in T
    <3> SUFFICES ASSUME i + 1 <= n PROVE u[i + 1] \in Running
      OBVIOUS
    <3>1. i + 1 \in 1..n /\ (i + 1) - 1 = i
      OBVIOUS
    <3>2. u[i + 1] = Step(u[i], i + 1) /\ u[i] \in Running
      BY <1>9, <2>2, <3>1
    <3>3. QED
      BY <1>1, <3>1, <3>2
  <2> HIDE DEF T
  <2>3. Nat \subseteq T
    BY <2>1, <2>2, Induction
  <2>4. QED
    BY <2>3 DEF T
<1>11. Accumulating(u, w, rs, n)
  BY <1>9 DEF Accumulating, Step
<1>12. QED
  BY <1>6, <1>8, <1>10, <1>11

LEMMA AccumulatedType ==
  ASSUME NEW w, NEW rs, NEW n \in Nat, \A i \in 1..n : Read(w, rs, i) \in Cell
  PROVE  Accumulated(w, rs, n) \in Running
<1>1. n \in 0..n
  OBVIOUS
<1>2. QED
  BY <1>1, AccumulatedIs

\* Where the groups of peers start.
Starting(f, rs, keys, n) ==
  /\ f[0] = <<>>
  /\ \A i \in 1..n :
       f[i] = IF f[i - 1] # <<>> /\ Compare(rs[Last(f[i - 1])], rs[i], keys) = 0 THEN f[i - 1]
              ELSE Append(f[i - 1], i)

LEMMA StartsIs ==
  ASSUME NEW rs, Len(rs) \in Nat, NEW keys
  PROVE  \E f : /\ Starting(f, rs, keys, Len(rs)) /\ \A i \in 0..Len(rs) : f[i] \in Seq(Nat)
                /\ Starts(rs, keys) = f[Len(rs)]
<1>1. PICK n \in Nat : n = Len(rs)
  OBVIOUS
<1> DEFINE Step(st, i) ==
             IF st # <<>> /\ Compare(rs[Last(st)], rs[i], keys) = 0 THEN st ELSE Append(st, i)
           G == [x \in (1..n) \X Seq(Nat) |-> Step(x[2], x[1])]
           Is(f) == f = [i \in 0..Len(rs) |-> IF i = 0 THEN <<>> ELSE Step(f[i - 1], i)]
           F == CHOOSE f : Is(f)
<1>0. \A i \in 1..n : \A st \in Seq(Nat) : Step(st, i) \in Seq(Nat)
  <2>1. ASSUME NEW i \in 1..n, NEW st \in Seq(Nat) PROVE Step(st, i) \in Seq(Nat)
    <3>1. i \in Nat
      OBVIOUS
    <3>2. Append(st, i) \in Seq(Nat)
      BY <3>1
    <3>3. QED
      BY <3>2, Zenon
  <2>2. QED
    BY <2>1
<1>2. G \in [(1..n) \X Seq(Nat) -> Seq(Nat)]
  <2>1. ASSUME NEW x \in (1..n) \X Seq(Nat) PROVE Step(x[2], x[1]) \in Seq(Nat)
    <3>1. x[1] \in 1..n /\ x[2] \in Seq(Nat)
      OBVIOUS
    <3> HIDE DEF Step
    <3>2. QED
      BY <1>0, <3>1
  <2> HIDE DEF Step
  <2>2. QED
    BY <2>1
<1>3. PICK t \in [0..n -> Seq(Nat)] : t[0] = <<>> /\ \A i \in 1..n : t[i] = G[<<i, t[i - 1]>>]
  <2> HIDE DEF G
  <2>0. <<>> \in Seq(Nat)
    OBVIOUS
  <2>1. \E t \in [0..n -> Seq(Nat)] : Recurs(t, n, <<>>, G)
    BY <1>2, <2>0, Recursion, Zenon
  <2>2. QED
    BY <2>1, Zenon DEF Recurs
<1>6. Starts(rs, keys) = F[Len(rs)]
  BY DEF Starts
<1> HIDE DEF Step
<1>4. ASSUME NEW i \in 1..n PROVE t[i] = Step(t[i - 1], i)
  <2>1. i - 1 \in 0..n
    OBVIOUS
  <2>2. <<i, t[i - 1]>> \in (1..n) \X Seq(Nat)
    BY <2>1
  <2>3. QED
    BY <1>3, <2>2
<1>5. Is(t)
  <2>1. ASSUME NEW i \in 0..n PROVE t[i] = IF i = 0 THEN <<>> ELSE Step(t[i - 1], i)
    BY <1>3, <1>4
  <2>2. t = [i \in 0..n |-> t[i]]
    OBVIOUS
  <2>3. t = [i \in 0..n |-> IF i = 0 THEN <<>> ELSE Step(t[i - 1], i)]
    BY <2>1, <2>2, Zenon
  <2>4. QED
    BY <1>1, <2>3
<1> HIDE DEF Is
<1>7. Is(F)
  BY <1>5
<1> HIDE DEF F
<1>8. PICK u : u = F /\ Is(u)
  BY <1>7
<1>9. u[0] = <<>> /\ \A i \in 1..n : u[i] = Step(u[i - 1], i)
  <2>1. u[0] = <<>>
    BY <1>1, <1>8 DEF Is
  <2>2. ASSUME NEW i \in 1..n PROVE u[i] = Step(u[i - 1], i)
    <3>1. i \in 0..n /\ i # 0
      OBVIOUS
    <3>2. QED
      BY <1>1, <1>8, <3>1 DEF Is
  <2>3. QED
    BY <2>1, <2>2
<1> DEFINE T == {i \in Nat : i <= n => u[i] \in Seq(Nat)}
<1>10. \A i \in 0..n : u[i] \in Seq(Nat)
  <2>1. 0 \in T
    <3>1. <<>> \in Seq(Nat)
      OBVIOUS
    <3>2. QED
      BY <1>9, <3>1
  <2>2. ASSUME NEW i \in Nat, i \in T PROVE i + 1 \in T
    <3> SUFFICES ASSUME i + 1 <= n PROVE u[i + 1] \in Seq(Nat)
      OBVIOUS
    <3>1. i + 1 \in 1..n /\ (i + 1) - 1 = i
      OBVIOUS
    <3>2. u[i + 1] = Step(u[i], i + 1) /\ u[i] \in Seq(Nat)
      BY <1>9, <2>2, <3>1
    <3>3. QED
      BY <1>0, <3>1, <3>2 DEF Step
  <2> HIDE DEF T
  <2>3. Nat \subseteq T
    BY <2>1, <2>2, Induction
  <2>4. QED
    BY <2>3 DEF T
<1>11. Starting(u, rs, keys, n)
  BY <1>9 DEF Starting, Step
<1>12. QED
  BY <1>1, <1>6, <1>8, <1>10, <1>11

\* The groups of peers of the first n rows: they start in order, the first at
\* the first row; a row is a peer of the last start at or before it, and no
\* start is a peer of the start before.
Grouped(st, rs, keys, n) ==
  /\ st \in Seq(Nat) /\ \A i \in 1..Len(st) : st[i] \in 1..n
  /\ n > 0 => Len(st) > 0 /\ st[1] = 1
  /\ \A i, j \in 1..Len(st) : i < j => st[i] < st[j]
  /\ \A i \in 1..Len(st) : \A p \in 1..n :
       /\ st[i] < p
       /\ \A j \in 1..Len(st) : i < j => p < st[j]
       => Compare(rs[st[i]], rs[p], keys) = 0
  /\ \A i, j \in 1..Len(st) : j = i + 1 => Compare(rs[st[i]], rs[st[j]], keys) # 0

LEMMA GroupStays ==
  ASSUME NEW st, NEW rs, NEW keys, NEW n \in Nat, Grouped(st, rs, keys, n), st # <<>>,
         Compare(rs[Last(st)], rs[n + 1], keys) = 0
  PROVE  Grouped(st, rs, keys, n + 1)
<1>1. PICK m \in Nat : m = Len(st) /\ m > 0 /\ Last(st) = st[m]
  BY EmptySeq DEF Last, Grouped
<1>2. ASSUME NEW i \in 1..m, NEW p \in 1..(n + 1), st[i] < p, \A j \in 1..m : i < j => p < st[j]
      PROVE  Compare(rs[st[i]], rs[p], keys) = 0
  <2>1. CASE p \in 1..n
    BY <1>1, <1>2, <2>1 DEF Grouped
  <2>2. CASE p = n + 1
    <3>1. st[m] \in 1..n
      BY <1>1 DEF Grouped
    <3>2. i = m
      BY <1>1, <1>2, <2>2, <3>1
    <3>3. QED
      BY <1>1, <2>2, <3>2
  <2>3. QED
    BY <2>1, <2>2
<1>3. \A i \in 1..m : st[i] \in 1..(n + 1)
  BY <1>1 DEF Grouped
<1>4. st[1] = 1
  <2>1. st[1] \in 1..n
    BY <1>1 DEF Grouped
  <2>2. QED
    BY <2>1 DEF Grouped
<1>5. QED
  BY <1>1, <1>2, <1>3, <1>4 DEF Grouped

LEMMA GroupStarts ==
  ASSUME NEW st, NEW rs, NEW keys, NEW n \in Nat, Grouped(st, rs, keys, n),
         st = <<>> \/ Compare(rs[Last(st)], rs[n + 1], keys) # 0
  PROVE  Grouped(Append(st, n + 1), rs, keys, n + 1)
<1>0. st \in Seq(Nat)
  BY DEF Grouped
<1>1. PICK m \in Nat : m = Len(st) /\ (st # <<>> => m > 0 /\ Last(st) = st[m])
  BY <1>0, EmptySeq DEF Last
<1>2. PICK t \in Seq(Nat) : t = Append(st, n + 1)
  <2>1. n + 1 \in Nat
    OBVIOUS
  <2>2. Append(st, n + 1) \in Seq(Nat)
    BY <1>0, <2>1
  <2>3. QED
    BY <2>2
<1>3. /\ Len(t) = m + 1 /\ t[m + 1] = n + 1
      /\ \A i \in 1..m : t[i] = st[i]
  BY <1>0, <1>1, <1>2
<1>4. \A i \in 1..m : st[i] \in 1..n
  BY <1>1 DEF Grouped
<1>5. \A i \in 1..(m + 1) : t[i] \in 1..(n + 1)
  <2>1. ASSUME NEW i \in 1..(m + 1) PROVE t[i] \in 1..(n + 1)
    <3>1. CASE i = m + 1
      BY <1>3, <3>1
    <3>2. CASE i \in 1..m
      BY <1>3, <1>4, <3>2
    <3>3. QED
      BY <3>1, <3>2
  <2>2. QED
    BY <2>1
<1>6. t[1] = 1
  <2>1. CASE n = 0
    <3>1. m = 0
      BY <1>4, <2>1
    <3>2. QED
      BY <1>3, <2>1, <3>1
  <2>2. CASE n > 0
    <3>1. m > 0 /\ st[1] = 1
      BY <1>1, <2>2 DEF Grouped
    <3>2. QED
      BY <1>3, <3>1
  <2>3. QED
    BY <2>1, <2>2
<1>7. ASSUME NEW i \in 1..(m + 1), NEW j \in 1..(m + 1), i < j PROVE t[i] < t[j]
  <2>1. i \in 1..m /\ t[i] = st[i] /\ st[i] \in 1..n
    BY <1>3, <1>4, <1>7
  <2>2. CASE j = m + 1
    BY <1>3, <2>1, <2>2
  <2>3. CASE j \in 1..m
    <3>1. st[i] < st[j]
      BY <1>1, <1>7, <2>1, <2>3 DEF Grouped
    <3>2. QED
      BY <1>3, <2>1, <2>3, <3>1
  <2>4. QED
    BY <2>2, <2>3
<1>8. ASSUME NEW i \in 1..(m + 1), NEW p \in 1..(n + 1),
             t[i] < p, \A j \in 1..(m + 1) : i < j => p < t[j]
      PROVE  Compare(rs[t[i]], rs[p], keys) = 0
  <2>1. i \in 1..m /\ p \in 1..n
    BY <1>3, <1>8
  <2>2. t[i] = st[i] /\ \A j \in 1..m : i < j => p < st[j]
    BY <1>3, <1>8, <2>1
  <2>3. QED
    BY <1>1, <1>8, <2>1, <2>2 DEF Grouped
<1>9. ASSUME NEW i \in 1..(m + 1), NEW j \in 1..(m + 1), j = i + 1
      PROVE  Compare(rs[t[i]], rs[t[j]], keys) # 0
  <2>1. i \in 1..m /\ t[i] = st[i]
    BY <1>3, <1>9
  <2>2. CASE j = m + 1
    <3>1. i = m /\ st # <<>>
      BY <1>1, <1>9, <2>1, <2>2
    <3>2. t[j] = n + 1 /\ Last(st) = t[i]
      BY <1>1, <1>3, <2>1, <2>2, <3>1
    <3>3. QED
      BY <3>1, <3>2
  <2>3. CASE j \in 1..m
    <3>1. Compare(rs[st[i]], rs[st[j]], keys) # 0
      BY <1>1, <1>9, <2>1, <2>3 DEF Grouped
    <3>2. QED
      BY <1>3, <2>1, <2>3, <3>1
  <2>4. QED
    BY <2>2, <2>3
<1>10. Grouped(t, rs, keys, n + 1)
  <2>1. PICK k \in Nat : k = n + 1
    OBVIOUS
  <2>2. PICK l \in Nat : l = Len(t) /\ l = m + 1
    BY <1>3
  <2>3. t \in Seq(Nat) /\ \A i \in 1..l : t[i] \in 1..k
    BY <1>2, <1>5, <2>1, <2>2
  <2>4. l > 0 /\ t[1] = 1
    BY <1>6, <2>2
  <2>5. \A i, j \in 1..l : i < j => t[i] < t[j]
    BY <1>7, <2>2
  <2>6. \A i \in 1..l : \A p \in 1..k :
          t[i] < p /\ (\A j \in 1..l : i < j => p < t[j]) => Compare(rs[t[i]], rs[p], keys) = 0
    BY <1>8, <2>1, <2>2
  <2>7. \A i, j \in 1..l : j = i + 1 => Compare(rs[t[i]], rs[t[j]], keys) # 0
    BY <1>9, <2>2
  <2>8. Grouped(t, rs, keys, k)
    BY <2>2, <2>3, <2>4, <2>5, <2>6, <2>7, Zenon DEF Grouped
  <2>9. QED
    BY <2>1, <2>8
<1>11. QED
  BY <1>2, <1>10

LEMMA StartsGroup ==
  ASSUME NEW rs, Len(rs) \in Nat, NEW keys
  PROVE  Grouped(Starts(rs, keys), rs, keys, Len(rs))
<1>1. PICK n \in Nat : n = Len(rs)
  OBVIOUS
<1>2. PICK f : /\ Starting(f, rs, keys, n) /\ \A i \in 0..n : f[i] \in Seq(Nat)
               /\ Starts(rs, keys) = f[n]
  BY <1>1, StartsIs
<1> DEFINE T == {i \in Nat : i <= n => Grouped(f[i], rs, keys, i)}
<1>3. 0 \in T
  <2>1. PICK st : st = f[0] /\ st = <<>>
    BY <1>2 DEF Starting
  <2>2. st \in Seq(Nat) /\ Len(st) = 0
    BY <2>1
  <2>3. Grouped(st, rs, keys, 0)
    BY <2>2 DEF Grouped
  <2>4. QED
    BY <2>1, <2>3
<1>4. ASSUME NEW i \in Nat, i \in T PROVE i + 1 \in T
  <2> SUFFICES ASSUME i + 1 <= n PROVE Grouped(f[i + 1], rs, keys, i + 1)
    OBVIOUS
  <2>1. i + 1 \in 1..n /\ (i + 1) - 1 = i /\ Grouped(f[i], rs, keys, i)
    BY <1>4
  <2>2. f[i + 1] = IF f[i] # <<>> /\ Compare(rs[Last(f[i])], rs[i + 1], keys) = 0 THEN f[i]
                   ELSE Append(f[i], i + 1)
    BY <1>2, <2>1 DEF Starting
  <2>3. CASE f[i] # <<>> /\ Compare(rs[Last(f[i])], rs[i + 1], keys) = 0
    BY <2>1, <2>2, <2>3, GroupStays
  <2>4. CASE f[i] = <<>> \/ Compare(rs[Last(f[i])], rs[i + 1], keys) # 0
    BY <2>1, <2>2, <2>4, GroupStarts
  <2>5. QED
    BY <2>3, <2>4
<1> HIDE DEF T
<1>5. n \in T
  BY <1>3, <1>4, Induction
<1>6. QED
  BY <1>1, <1>2, <1>5 DEF T

\* The group of a row: the last to start at or before it.
GroupOf(st, p) == Cardinality({k \in DOMAIN st : st[k] <= p})

LEMMA GroupOfIs ==
  ASSUME NEW st, NEW rs, NEW keys, NEW n \in Nat, Grouped(st, rs, keys, n), NEW p \in 1..n
  PROVE  /\ GroupOf(st, p) \in 1..Len(st)
         /\ st[GroupOf(st, p)] \in 1..p
         /\ \A j \in 1..Len(st) : GroupOf(st, p) < j => p < st[j]
<1>1. PICK m \in Nat : m = Len(st) /\ DOMAIN st = 1..m
  BY DEF Grouped
<1> DEFINE K == {k \in DOMAIN st : st[k] <= p}
           M == {m - k : k \in K}
<1>2. 1 \in K
  BY <1>1 DEF Grouped
<1>3. M \subseteq Nat /\ M # {}
  BY <1>1, <1>2
<1>4. PICK d \in M : \A e \in M : d <= e
  BY <1>3, Least, Zenon
<1>5. PICK g \in K : d = m - g
  OBVIOUS
<1>6. \A k \in K : k <= g
  <2>1. ASSUME NEW k \in K PROVE k <= g
    <3>1. m - g <= m - k
      BY <1>4, <1>5
    <3>2. QED
      BY <1>1, <3>1
  <2>2. QED
    BY <2>1
<1>7. g \in 1..m /\ st[g] \in 1..n /\ st[g] <= p
  BY <1>1 DEF Grouped
<1>8. K = 1..g
  <2>1. ASSUME NEW k \in 1..g PROVE k \in K
    <3>1. k \in 1..m /\ st[k] \in 1..n
      BY <1>1, <1>7 DEF Grouped
    <3>2. k < g => st[k] < st[g]
      BY <1>1, <1>7, <3>1 DEF Grouped
    <3>3. QED
      BY <1>1, <1>7, <3>1, <3>2
  <2>2. QED
    BY <1>1, <1>6, <2>1
<1>9. GroupOf(st, p) = g
  <2>1. Cardinality(1..g) = g
    BY <1>7, FS_Interval
  <2>2. QED
    BY <1>8, <2>1 DEF GroupOf
<1>10. ASSUME NEW j \in 1..m, g < j PROVE p < st[j]
  <2>1. st[j] \in 1..n
    BY <1>1, <1>10 DEF Grouped
  <2>2. j \notin K
    <3> HIDE DEF K
    <3>1. j \in K => j <= g
      BY <1>6
    <3>2. g \in Nat /\ j \in Nat
      BY <1>7, <1>10
    <3>3. QED
      BY <1>10, <3>1, <3>2
  <2>3. ~ (st[j] <= p)
    BY <1>1, <1>10, <2>2
  <2>4. QED
    BY <2>1, <2>3
<1>11. QED
  BY <1>1, <1>7, <1>9, <1>10

\* What a window function gives the row at p of a partition.
EndOf(st, g, n) == IF g = Len(st) THEN n ELSE st[g + 1] - 1

LEMMA WindowValueIs ==
  ASSUME NEW w, NEW rs, NEW p \in DOMAIN rs
  PROVE  WindowValues(w, rs)[p] =
           LET st == Starts(rs, w.keys)
               g == GroupOf(st, p)
           IN CASE w.fn = "ROW_NUMBER" -> Number(p)
                [] w.fn = "RANK" -> Number(st[g])
                [] w.fn = "DENSE_RANK" -> Number(g)
                [] OTHER -> ValueOf(w.fn, Accumulated(w, rs, EndOf(st, g, Len(rs))), w.arg = 0)
  BY DEF WindowValues, GroupOf, EndOf

LEMMA EndIs ==
  ASSUME NEW st, NEW rs, NEW keys, NEW n \in Nat, Grouped(st, rs, keys, n), NEW p \in 1..n
  PROVE  EndOf(st, GroupOf(st, p), n) \in p..n
<1>1. PICK m \in Nat : m = Len(st)
  BY DEF Grouped
<1>2. PICK g \in 1..m : g = GroupOf(st, p) /\ \A j \in 1..m : g < j => p < st[j]
  BY <1>1, GroupOfIs
<1>3. CASE g = m
  BY <1>1, <1>2, <1>3 DEF EndOf
<1>4. CASE g # m
  <2>1. g + 1 \in 1..m /\ g < g + 1
    BY <1>4
  <2>2. p < st[g + 1] /\ st[g + 1] \in 1..n
    BY <1>1, <1>2, <2>1 DEF Grouped
  <2>3. QED
    BY <1>1, <1>2, <1>4, <2>2 DEF EndOf
<1>5. QED
  BY <1>3, <1>4

LEMMA WindowType ==
  ASSUME NEW w, w.fn \in Ranking \cup Aggregates, NEW rs, Len(rs) \in Nat,
         \A i \in 1..Len(rs) : Read(w, rs, i) \in Cell, NEW p \in 1..Len(rs), p \in DOMAIN rs
  PROVE  WindowValues(w, rs)[p] \in Cell
<1>1. PICK n \in Nat : n = Len(rs)
  OBVIOUS
<1>2. PICK st : st = Starts(rs, w.keys)
  OBVIOUS
<1>3. Grouped(st, rs, w.keys, n)
  BY <1>1, <1>2, StartsGroup
<1>4. PICK g : g = GroupOf(st, p)
  OBVIOUS
<1>5. g \in Int /\ st[g] \in Int
  <2>1. GroupOf(st, p) \in 1..Len(st) /\ st[GroupOf(st, p)] \in 1..p
    BY <1>1, <1>3, GroupOfIs
  <2>2. Len(st) \in Nat
    BY <1>3 DEF Grouped
  <2>3. QED
    BY <1>4, <2>1, <2>2
<1>6. PICK e \in 0..n : e = EndOf(st, g, n)
  <2>1. EndOf(st, g, n) \in p..n
    BY <1>1, <1>3, <1>4, EndIs
  <2>2. QED
    BY <1>1, <2>1
<1>7. PICK v : v = ValueOf(w.fn, Accumulated(w, rs, e), w.arg = 0)
  OBVIOUS
<1>8. v \in Cell
  <2>1. \A i \in 1..e : Read(w, rs, i) \in Cell
    BY <1>1
  <2>2. Accumulated(w, rs, e) \in Running
    BY <2>1, AccumulatedType
  <2>3. QED
    BY <1>7, <2>2, ValueType
<1>9. WindowValues(w, rs)[p] =
        CASE w.fn = "ROW_NUMBER" -> Number(p)
          [] w.fn = "RANK" -> Number(st[g])
          [] w.fn = "DENSE_RANK" -> Number(g)
          [] OTHER -> v
  BY <1>1, <1>2, <1>4, <1>6, <1>7, WindowValueIs
<1>10. Number(p) \in Cell /\ Number(st[g]) \in Cell /\ Number(g) \in Cell
  BY <1>5, NumberType
<1>11. QED
  BY <1>8, <1>9, <1>10

\* Selecting and sorting lose no element.
LEMMA SelectedHas ==
  ASSUME NEW V, NEW rs \in Seq(V), NEW S, NEW keys, NEW p \in 1..Len(rs), rs[p] \in S
  PROVE  \E q \in 1..Len(SortRows(Only(rs, S), keys)) : SortRows(Only(rs, S), keys)[q] = rs[p]
<1>1. PICK t \in Seq(V) : t = Only(rs, S)
  BY OnlyCounts
<1>2. PICK s \in Seq(V) : s = SortRows(t, keys)
  BY SortedCounts
<1>3. PICK x \in V : x = rs[p]
  OBVIOUS
<1>4. CountIn(s, {x}) = CountIn(rs, {x})
  <2>1. CountIn(s, {x}) = CountIn(t, {x})
    BY <1>2, SortedCounts
  <2>2. CountIn(t, {x}) = CountIn(rs, S \cap {x})
    BY <1>1, OnlyCounts
  <2>3. S \cap {x} = {x}
    BY <1>3
  <2>4. QED
    BY <2>1, <2>2, <2>3
<1>5. CountIn(s, {x}) # 0
  <2>1. PICK D : D = {q \in DOMAIN rs : rs[q] \in {x}}
    OBVIOUS
  <2>2. IsFiniteSet(D)
    BY <2>1, CountType
  <2>3. D # {}
    BY <1>3, <2>1
  <2>4. Cardinality(D) # 0
    BY <2>2, <2>3, FS_EmptySet
  <2>5. QED
    BY <1>4, <2>1, <2>4 DEF CountIn
<1>6. PICK E : E = {q \in DOMAIN s : s[q] \in {x}}
  OBVIOUS
<1>7. E # {}
  BY <1>5, <1>6, FS_EmptySet DEF CountIn
<1>8. QED
  BY <1>1, <1>2, <1>3, <1>6, <1>7

\* The rows of a partition with their numbers.
NumberedRows(c) == {Append(r, p) : r \in Wide(c), p \in Nat}
Numbered(rs) == [p \in DOMAIN rs |-> Append(rs[p], p)]
Partition(w, rs, k) ==
  SortRows(Only(Numbered(rs), {r \in ToSet(Numbered(rs)) : KeyOf(r, w.part) = k}), w.keys)

LEMMA NumberedIs ==
  ASSUME NEW c \in Nat, NEW r \in Wide(c), NEW p \in Nat
  PROVE  /\ Append(r, p) \in NumberedRows(c)
         /\ Len(Append(r, p)) = c + 1 /\ Last(Append(r, p)) = p
         /\ \A k \in 1..c : Append(r, p)[k] = r[k]
<1>1. r \in Seq(Cell) /\ Len(r) = c
  BY WideIs
<1>2. PICK U : U = Cell \cup Nat
  OBVIOUS
<1>3. PICK s \in Seq(U) : s = r /\ Len(s) = c
  BY <1>1, <1>2
<1>4. Len(Append(s, p)) = c + 1 /\ Append(s, p)[c + 1] = p /\ \A k \in 1..c : Append(s, p)[k] = s[k]
  BY <1>2, <1>3
<1>5. Len(Append(r, p)) = c + 1 /\ \A k \in 1..c : Append(r, p)[k] = r[k]
  BY <1>3, <1>4
<1>6. Last(Append(r, p)) = p
  BY <1>3, <1>4 DEF Last
<1>7. Append(r, p) \in NumberedRows(c)
  BY DEF NumberedRows
<1>8. QED
  BY <1>5, <1>6, <1>7

LEMMA NumberedType ==
  ASSUME NEW c \in Nat, NEW rs \in Seq(Wide(c))
  PROVE  /\ Numbered(rs) \in Seq(NumberedRows(c)) /\ Len(Numbered(rs)) = Len(rs)
         /\ \A p \in 1..Len(rs) : Last(Numbered(rs)[p]) = p
         /\ \A p \in 1..Len(rs) : \A k \in 1..c : Numbered(rs)[p][k] = rs[p][k]
<1>1. PICK n \in Nat : n = Len(rs) /\ DOMAIN rs = 1..n /\ \A p \in 1..n : rs[p] \in Wide(c)
  OBVIOUS
<1>2. PICK V : V = NumberedRows(c)
  OBVIOUS
<1>3. PICK f : f = Numbered(rs)
  OBVIOUS
<1>4. f = [p \in 1..n |-> Append(rs[p], p)]
  BY <1>1, <1>3 DEF Numbered
<1>5. \A p \in 1..n : /\ Append(rs[p], p) \in V /\ Last(Append(rs[p], p)) = p
                      /\ \A k \in 1..c : Append(rs[p], p)[k] = rs[p][k]
  <2>1. ASSUME NEW p \in 1..n
        PROVE  /\ Append(rs[p], p) \in V /\ Last(Append(rs[p], p)) = p
               /\ \A k \in 1..c : Append(rs[p], p)[k] = rs[p][k]
    <3>1. PICK q \in Nat, r \in Wide(c) : q = p /\ r = rs[p]
      BY <1>1
    <3>2. QED
      BY <1>2, <3>1, NumberedIs
  <2>2. QED
    BY <2>1
<1>6. f \in [1..n -> V]
  BY <1>4, <1>5
<1>7. f \in Seq(V) /\ Len(f) = n
  BY <1>6
<1>8. \A p \in 1..n : Last(f[p]) = p /\ \A k \in 1..c : f[p][k] = rs[p][k]
  <2>1. ASSUME NEW p \in 1..n PROVE Last(f[p]) = p /\ \A k \in 1..c : f[p][k] = rs[p][k]
    <3>1. f[p] = Append(rs[p], p)
      BY <1>4
    <3>2. QED
      BY <1>5, <3>1
  <2>2. QED
    BY <2>1
<1>9. QED
  BY <1>1, <1>2, <1>3, <1>7, <1>8

LEMMA NumberedRead ==
  ASSUME NEW c \in Nat, NEW r \in NumberedRows(c), NEW k \in 1..c
  PROVE  r[k] \in Cell
<1>1. PICK t \in Wide(c), p \in Nat : r = Append(t, p)
  BY DEF NumberedRows
<1>2. r[k] = t[k]
  BY <1>1, NumberedIs
<1>3. QED
  BY <1>1, <1>2 DEF Wide

PlaceOf(s, p) == CHOOSE q \in DOMAIN s : Last(s[q]) = p
ValueAt(w, s, p) == WindowValues(w, s)[PlaceOf(s, p)]

LEMMA EvalWindowIs ==
  ASSUME NEW w, NEW rs, NEW p \in DOMAIN rs
  PROVE  EvalWindow(w, rs)[p] = ValueAt(w, Partition(w, rs, KeyOf(rs[p], w.part)), p)
  BY DEF EvalWindow, Partition, Numbered, PlaceOf, ValueAt

LEMMA PartitionHas ==
  ASSUME NEW c \in Nat, NEW rs \in Seq(Wide(c)), NEW w, w.part \in Seq(1..c), NEW p \in 1..Len(rs)
  PROVE  /\ Partition(w, rs, KeyOf(rs[p], w.part)) \in Seq(NumberedRows(c))
         /\ \E q \in DOMAIN Partition(w, rs, KeyOf(rs[p], w.part)) :
              Last(Partition(w, rs, KeyOf(rs[p], w.part))[q]) = p
<1>1. PICK V : V = NumberedRows(c)
  OBVIOUS
<1>2. PICK n \in Nat : n = Len(rs)
  OBVIOUS
<1>3. PICK f \in Seq(V) : /\ f = Numbered(rs) /\ Len(f) = n /\ Last(f[p]) = p
                          /\ \A k \in 1..c : f[p][k] = rs[p][k]
  BY <1>1, <1>2, NumberedType
<1>4. PICK S : S = {r \in ToSet(f) : KeyOf(r, w.part) = KeyOf(rs[p], w.part)}
  OBVIOUS
<1>5. f[p] \in S
  <2>1. f[p] \in ToSet(f)
    BY <1>2, <1>3 DEF ToSet
  <2>2. \A k \in DOMAIN w.part : w.part[k] \in 1..c
    OBVIOUS
  <2>3. KeyOf(f[p], w.part) = KeyOf(rs[p], w.part)
    BY <1>3, <2>2 DEF KeyOf
  <2>4. QED
    BY <1>4, <2>1, <2>3
<1>6. PICK t \in Seq(V) : t = Only(f, S)
  BY OnlyCounts
<1>7. PICK s \in Seq(V) : s = SortRows(t, w.keys)
  BY SortedCounts
<1>8. Partition(w, rs, KeyOf(rs[p], w.part)) = s
  BY <1>3, <1>4, <1>6, <1>7 DEF Partition
<1>9. PICK q \in 1..Len(s) : s[q] = f[p]
  <2>1. p \in 1..Len(f)
    BY <1>2, <1>3
  <2>2. \E q \in 1..Len(SortRows(Only(f, S), w.keys)) : SortRows(Only(f, S), w.keys)[q] = f[p]
    BY <1>5, <2>1, SelectedHas
  <2>3. QED
    BY <1>6, <1>7, <2>2
<1>10. QED
  BY <1>1, <1>3, <1>8, <1>9

LEMMA EvalWindowType ==
  ASSUME NEW c \in Nat, NEW rs \in Seq(Wide(c)), NEW w, w.fn \in Ranking \cup Aggregates,
         w.part \in Seq(1..c), w.arg \in 0..c, NEW p \in 1..Len(rs)
  PROVE  EvalWindow(w, rs)[p] \in Cell
<1>1. PICK V : V = NumberedRows(c)
  OBVIOUS
<1>2. PICK s \in Seq(V) : /\ s = Partition(w, rs, KeyOf(rs[p], w.part))
                          /\ \E q \in DOMAIN s : Last(s[q]) = p
  BY <1>1, PartitionHas
<1>3. PICK q \in DOMAIN s : q = PlaceOf(s, p)
  BY <1>2 DEF PlaceOf
<1>4. PICK n \in Nat : n = Len(s) /\ DOMAIN s = 1..n /\ \A i \in 1..n : s[i] \in V
  OBVIOUS
<1>5. ASSUME NEW i \in 1..n PROVE Read(w, s, i) \in Cell
  <2>1. CASE w.arg = 0
    BY <2>1 DEF Read, Cell
  <2>2. CASE w.arg # 0
    <3>1. w.arg \in 1..c /\ s[i] \in NumberedRows(c)
      BY <1>1, <1>4, <2>2
    <3>2. s[i][w.arg] \in Cell
      BY <3>1, NumberedRead
    <3>3. QED
      BY <2>2, <3>2 DEF Read
  <2>3. QED
    BY <2>1, <2>2
<1>6. WindowValues(w, s)[q] \in Cell
  BY <1>3, <1>4, <1>5, WindowType
<1>7. p \in DOMAIN rs
  OBVIOUS
<1>8. EvalWindow(w, rs)[p] = WindowValues(w, s)[q]
  <2>1. EvalWindow(w, rs)[p] = ValueAt(w, Partition(w, rs, KeyOf(rs[p], w.part)), p)
    BY <1>7, EvalWindowIs
  <2>2. QED
    BY <1>2, <1>3, <2>1 DEF ValueAt
<1>9. QED
  BY <1>6, <1>8

\* Rows hold cells, one for every column.
ColumnNames == ToSet(LeftCols) \cup ToSet(RightCols) \cup Ranking \cup Aggregates

ToOrder ==
  {"join", "scan", "where", "group", "having", "window", "qualify", "order"}

Rectangular ==
  /\ stage \in {"join", "scan"} => cols = LeftCols
  /\ stage \in ToOrder => cols \in Seq(ColumnNames) /\ rows \in Seq(Wide(Len(cols)))

LEMMA TablesWide ==
  /\ LeftCols \in Seq(ColumnNames) /\ RightCols \in Seq(ColumnNames)
  /\ LeftRows \subseteq Wide(Len(LeftCols)) /\ RightRows \subseteq Wide(Len(RightCols))
<1>1. LeftCols \in Seq(ToSet(LeftCols)) /\ RightCols \in Seq(ToSet(RightCols))
  BY TablesAssumption
<1>2. DOMAIN LeftCols = 1..Len(LeftCols) /\ DOMAIN RightCols = 1..Len(RightCols)
  BY <1>1
<1>3. LeftRows \subseteq Wide(Len(LeftCols)) /\ RightRows \subseteq Wide(Len(RightCols))
  BY <1>2, TablesAssumption, ValuesAreCells DEF Wide
<1>4. QED
  BY <1>1, <1>3 DEF ColumnNames

LEMMA InitRectangular == SelectInit => Rectangular
<1> SUFFICES ASSUME SelectInit PROVE cols = LeftCols /\ rows \in Seq(Wide(Len(LeftCols)))
  BY TablesWide, Zenon DEF SelectInit, Rectangular
<1>1. rows \in Seq(LeftRows)
  BY InitFresh DEF SelectInit, Fresh
<1>2. QED
  BY <1>1, TablesWide DEF SelectInit

LEMMA JoinsRectangular ==
  ASSUME Fresh, Rectangular, NEW j \in Joins, Join(j)
  PROVE  cols' \in Seq(ColumnNames) /\ rows' \in Seq(Wide(Len(cols')))
<1>1. TablesGiven /\ cols = LeftCols
  BY DEF Join, Fresh, Rectangular, TablesGiven
<1>2. PICK w \in Nat : w = Len(LeftCols) + Len(RightCols)
  BY TablesWide
<1>3. PICK names \in Seq(ColumnNames) : names = cols \o RightCols /\ Len(names) = w
  <2>1. PICK l \in Seq(ColumnNames), r \in Seq(ColumnNames) : l = cols /\ r = RightCols
    BY <1>1, TablesWide
  <2>2. l \o r \in Seq(ColumnNames) /\ Len(l \o r) = Len(l) + Len(r)
    OBVIOUS
  <2>3. QED
    BY <1>1, <1>2, <2>1, <2>2
<1>4. PICK kept \in Seq(1..w) : kept = Kept(w, j)
  <2>1. PICK id : id = [i \in 1..w |-> i]
    OBVIOUS
  <2>2. id \in Seq(1..w)
    BY <2>1
  <2>3. QED
    BY <2>1, <2>2, OnlyCounts DEF Kept
<1>5. PICK m \in Nat : m = Len(kept) /\ DOMAIN kept = 1..m
  OBVIOUS
<1>6. cols' = [k \in 1..m |-> names[kept[k]]]
  BY <1>3, <1>4, <1>5 DEF Join
<1>7. cols' \in Seq(ColumnNames) /\ Len(cols') = m
  <2>1. cols' \in [1..m -> ColumnNames]
    BY <1>3, <1>5, <1>6
  <2>2. QED
    BY <1>6, <2>1
<1>8. Universe \subseteq Wide(w)
  <2>1. \A i \in 1..Len(rows) : rows[i] \in Wide(Len(LeftCols))
    BY <1>1, TablesWide DEF TablesGiven
  <2>2. \A k \in 1..Len(right) : right[k] \in Wide(Len(RightCols))
    BY <1>1, TablesWide DEF TablesGiven
  <2>3. \A n \in Nat : Nulls(n) \in Wide(n)
    BY DEF Nulls, Wide, Cell
  <2>4. ASSUME NEW r \in Wide(Len(LeftCols)), NEW s \in Wide(Len(RightCols))
        PROVE  r \o s \in Wide(w)
    <3>1. PICK a \in Nat, b \in Nat : a = Len(LeftCols) /\ b = Len(RightCols)
      BY TablesWide
    <3>2. r \in Seq(Cell) /\ Len(r) = a /\ s \in Seq(Cell) /\ Len(s) = b
      BY <3>1, WideIs
    <3>3. r \o s \in Seq(Cell) /\ Len(r \o s) = Len(r) + Len(s)
      <4>1. PICK x \in Seq(Cell), y \in Seq(Cell) : x = r /\ y = s
        BY <3>2
      <4>2. x \o y \in Seq(Cell) /\ Len(x \o y) = Len(x) + Len(y)
        OBVIOUS
      <4>3. QED
        BY <4>1, <4>2
    <3>4. QED
      BY <1>2, <3>1, <3>2, <3>3, WideIs
  <2>5. Len(LeftCols) \in Nat /\ Len(RightCols) \in Nat
    BY TablesWide
  <2>6. ASSUME NEW ik \in (1..Len(rows)) \X (1..Len(right))
        PROVE  rows[ik[1]] \o right[ik[2]] \in Wide(w)
    <3>1. ik[1] \in 1..Len(rows) /\ ik[2] \in 1..Len(right)
      OBVIOUS
    <3>2. QED
      BY <2>1, <2>2, <2>4, <3>1
  <2>7. ASSUME NEW i \in 1..Len(rows) PROVE rows[i] \o Nulls(Len(RightCols)) \in Wide(w)
    BY <2>1, <2>3, <2>4, <2>5
  <2>8. ASSUME NEW k \in 1..Len(right) PROVE Nulls(Len(cols)) \o right[k] \in Wide(w)
    BY <1>1, <2>2, <2>3, <2>4, <2>5
  <2>9. QED
    BY <2>6, <2>7, <2>8 DEF Universe
<1>9. ASSUME NEW u \in Wide(w) PROVE Shown(u, j) \in Wide(m)
  <2>1. u \in Seq(Cell) /\ Len(u) = w
    BY DEF Wide
  <2> DEFINE Standing(i) == j.coalesce /\ u[i] = Null /\ \E p \in j.pairs : p[1] = i
             cell(i) == IF Standing(i) THEN u[(CHOOSE p \in j.pairs : p[1] = i)[2]] ELSE u[i]
  <2>2. ASSUME NEW p \in j.pairs, j.coalesce PROVE p[2] \in 1..w
    <3>1. j # Cross /\ \A kind \in JoinKinds, l \in DOMAIN cols, r \in DOMAIN RightCols :
                         j # On(kind, l, r)
      BY <2>2 DEF Cross, On
    <3>2. PICK kind \in JoinKinds : j = Natural(kind)
      BY <3>1 DEF Joins
    <3>3. PICK k \in DOMAIN RightCols : p[2] = Len(cols) + k
      BY <2>2, <3>2 DEF Natural
    <3>4. QED
      BY <1>1, <1>2, <3>3, TablesWide
  <2>3. ASSUME NEW i \in 1..w PROVE cell(i) \in Cell
    <3>1. CASE Standing(i)
      <4>1. PICK p \in j.pairs : p = CHOOSE q \in j.pairs : q[1] = i
        BY <3>1
      <4>2. u[p[2]] \in Cell
        BY <2>2, <3>1, <4>1 DEF Wide
      <4>3. QED
        BY <3>1, <4>1, <4>2
    <3>2. CASE ~Standing(i)
      BY <3>2 DEF Wide
    <3>3. QED
      BY <3>1, <3>2
  <2>4. Shown(u, j) = [k \in DOMAIN kept |-> cell(kept[k])]
    BY <1>4, <2>1 DEF Shown
  <2> HIDE DEF cell
  <2>5. QED
    BY <1>4, <1>5, <2>3, <2>4 DEF Wide
<1>10. rows' \in Seq(Wide(m))
  <2>1. j.kind \in JoinKinds
    BY DEF Joins, JoinKinds, Cross, Natural, On
  <2>2. PICK us \in Seq(Universe) : us = Joined(j)
    BY <1>1, <2>1, JoinedCounts
  <2>3. rows' = [i \in DOMAIN us |-> Shown(us[i], j)]
    BY <1>1, <2>2, FoldJoinIs DEF Join
  <2>4. \A i \in DOMAIN us : us[i] \in Wide(w)
    BY <1>8
  <2>5. PICK W : W = Wide(m)
    OBVIOUS
  <2>6. rows' \in [1..Len(us) -> W] /\ Len(us) \in Nat
    <3>1. DOMAIN us = 1..Len(us) /\ Len(us) \in Nat
      BY <2>2
    <3>2. \A i \in 1..Len(us) : Shown(us[i], j) \in W
      BY <1>9, <2>4, <2>5, <3>1
    <3>3. QED
      BY <2>3, <3>1, <3>2
  <2>7. rows' \in Seq(W)
    <3>0. Len(us) \in Nat
      BY <2>6
    <3>1. PICK k \in Nat : k = Len(us)
      BY <3>0
    <3>1a. PICK x : x = rows'
      OBVIOUS
    <3>2. x \in [1..k -> W]
      BY <2>6, <3>1, <3>1a
    <3>3. x \in Seq(W)
      BY <3>2
    <3>4. QED
      BY <3>1a, <3>3
  <2>8. QED
    BY <2>5, <2>7
<1>11. QED
  BY <1>7, <1>10

LEMMA LookupsRectangular ==
  ASSUME NEW n, rows \in Seq(Wide(n)), NEW w, NEW found \in LookedUp(w)
  PROVE  found \in Seq(Wide(n))
<1>1. PICK hits \in Seq(Wide(n)) : hits = Hits(w)
  BY OnlyKeeps DEF Hits
<1>2. ASSUME NEW on, NEW ts \in SetToSeqs({Text(hits[p][on]) : p \in DOMAIN hits})
      PROVE  Buckets(hits, on, ts) \in Seq(Wide(n))
  BY BucketsMakeUp
<1>3. \/ found = hits
      \/ \E on \in DOMAIN cols \ {w.at} :
           \E ts \in SetToSeqs({Text(hits[p][on]) : p \in DOMAIN hits}) :
             found = Buckets(hits, on, ts)
  <2>1. \/ found = Hits(w)
        \/ \E on \in DOMAIN cols \ {w.at} :
             \E ts \in SetToSeqs({Text(Hits(w)[p][on]) : p \in DOMAIN Hits(w)}) :
               found = Buckets(Hits(w), on, ts)
    BY DEF LookedUp, Buckets
  <2>2. QED
    BY <1>1, <2>1
<1>4. QED
  BY <1>2, <1>3

LEMMA GroupsRectangular ==
  ASSUME Rectangular, NEW g \in Groupings, GroupBy(g)
  PROVE  cols' \in Seq(ColumnNames) /\ rows' \in Seq(Wide(Len(cols')))
<1>1. PICK w \in Nat : w = Len(cols) /\ DOMAIN cols = 1..w /\ rows \in Seq(Wide(w))
  BY DEF GroupBy, Rectangular, ToOrder
<1>2. /\ g.fn \in Aggregates /\ g.on \in Seq(Nat) /\ g.arg \in Nat
      /\ ToSet(g.on) \cup ({g.arg} \ {0}) \subseteq 1..w
  BY <1>1, ClausesAssumption DEF GroupBy, Resolve
<1>3. PICK on \in Seq(Nat) : on = g.on
  BY <1>2
<1>4. PICK n \in Nat : n = Len(on) /\ DOMAIN on = 1..n
  OBVIOUS
<1>5. \A k \in 1..n : on[k] \in 1..w
  BY <1>2, <1>3, <1>4 DEF ToSet
<1>6. g.on \in Seq(1..w)
  <2>1. PICK D : D = 1..w
    OBVIOUS
  <2>2. on \in [1..n -> D]
    BY <1>4, <1>5, <2>1
  <2>3. on \in Seq(D)
    BY <2>2
  <2>4. QED
    BY <1>3, <2>1, <2>3
<1>7. g.arg \in 0..w
  BY <1>2
<1>8. rows' = GroupRows(rows, g) /\ rows' \in Seq(Wide(n + 1))
  <2>1. GroupRows(rows, g) \in Seq(Wide(Len(g.on) + 1))
    BY <1>1, <1>2, <1>6, <1>7, GroupRowsType
  <2>2. QED
    BY <1>3, <1>4, <2>1 DEF GroupBy
<1>9. cols' \in Seq(ColumnNames) /\ Len(cols') = n + 1
  <2>1. PICK c \in [1..n -> ColumnNames] : c = [k \in 1..n |-> cols[on[k]]]
    <3>1. \A k \in 1..n : cols[on[k]] \in ColumnNames
      BY <1>1, <1>5 DEF GroupBy, Rectangular, ToOrder
    <3>2. QED
      BY <3>1
  <2>2. c \in Seq(ColumnNames) /\ Len(c) = n
    BY <2>1
  <2>3. PICK f \in ColumnNames : f = g.fn
    BY <1>2 DEF ColumnNames
  <2>4. c \o <<f>> \in Seq(ColumnNames) /\ Len(c \o <<f>>) = n + 1
    BY <2>2
  <2>5. cols' = c \o <<f>>
    BY <1>3, <1>4, <2>1, <2>3 DEF GroupBy
  <2>6. QED
    BY <2>4, <2>5
<1>10. QED
  BY <1>8, <1>9

LEMMA WindowsRectangular ==
  ASSUME Rectangular, NEW w \in Windows, Window(w)
  PROVE  cols' \in Seq(ColumnNames) /\ rows' \in Seq(Wide(Len(cols')))
<1>1. PICK c \in Nat : c = Len(cols) /\ DOMAIN cols = 1..c /\ rows \in Seq(Wide(c))
  BY DEF Window, Rectangular, ToOrder
<1>2. /\ w.fn \in Ranking \cup Aggregates /\ w.part \in Seq(Nat) /\ w.arg \in Nat
      /\ ToSet(w.part) \cup ({w.arg} \ {0}) \subseteq 1..c
  BY <1>1, ClausesAssumption DEF Window, Resolved, Resolve
<1>3. w.part \in Seq(1..c)
  <2>1. PICK on \in Seq(Nat) : on = w.part
    BY <1>2
  <2>2. PICK n \in Nat : n = Len(on) /\ DOMAIN on = 1..n
    OBVIOUS
  <2>3. PICK D : D = 1..c
    OBVIOUS
  <2>4. \A k \in 1..n : on[k] \in D
    BY <1>2, <2>1, <2>2, <2>3 DEF ToSet
  <2>5. on \in [1..n -> D]
    BY <2>2, <2>4
  <2>6. on \in Seq(D)
    BY <2>5
  <2>7. QED
    BY <2>1, <2>3, <2>6
<1>4. w.arg \in 0..c
  BY <1>2
<1>5. PICK n \in Nat : n = Len(rows) /\ DOMAIN rows = 1..n
  BY <1>1
<1>6. PICK v : v = EvalWindow(w, rows)
  OBVIOUS
<1>7. \A p \in 1..n : v[p] \in Cell
  <2>1. ASSUME NEW p \in 1..n PROVE v[p] \in Cell
    <3>1. p \in 1..Len(rows)
      BY <1>5
    <3>2. QED
      BY <1>1, <1>2, <1>3, <1>4, <1>6, <3>1, EvalWindowType
  <2>2. QED
    BY <2>1
<1>8. PICK W : W = Wide(c + 1)
  OBVIOUS
<1>9. ASSUME NEW p \in 1..n PROVE Append(rows[p], v[p]) \in W
  <2>1. rows[p] \in Wide(c)
    BY <1>1, <1>5
  <2>2. PICK r \in Seq(Cell) : r = rows[p] /\ Len(r) = c
    BY <2>1, WideIs
  <2>3. PICK x \in Cell : x = v[p]
    BY <1>7
  <2>4. Append(r, x) \in Seq(Cell) /\ Len(Append(r, x)) = c + 1
    BY <2>2
  <2>5. PICK d \in Nat : d = c + 1
    OBVIOUS
  <2>6. Append(r, x) \in Wide(d)
    BY <2>4, <2>5, WideIs
  <2>7. QED
    BY <1>8, <2>2, <2>3, <2>5, <2>6
<1>10. rows' \in Seq(W)
  <2>1. PICK t : t = [p \in 1..n |-> Append(rows[p], v[p])]
    OBVIOUS
  <2>2. t \in [1..n -> W]
    BY <1>9, <2>1
  <2>3. t \in Seq(W)
    BY <2>2
  <2>4. rows' = t
    BY <1>5, <1>6, <2>1 DEF Window
  <2>5. QED
    BY <2>3, <2>4
<1>11. cols' \in Seq(ColumnNames) /\ Len(cols') = c + 1
  <2>1. PICK s \in Seq(ColumnNames) : s = cols
    BY DEF Window, Rectangular, ToOrder
  <2>2. PICK f \in ColumnNames : f = w.fn
    BY <1>2 DEF ColumnNames
  <2>3. Append(s, f) \in Seq(ColumnNames) /\ Len(Append(s, f)) = Len(s) + 1
    OBVIOUS
  <2>4. QED
    BY <1>1, <2>1, <2>2, <2>3 DEF Window
<1>12. QED
  BY <1>8, <1>10, <1>11

LEMMA NextRectangular == Fresh /\ Rectangular /\ [SelectNext]_selectVars => Rectangular'
<1> SUFFICES ASSUME Fresh, Rectangular, [SelectNext]_selectVars, stage' \in ToOrder
             PROVE  Rectangular'
  BY DEF Rectangular, ToOrder
<1>0. stage' \notin {"join", "scan"} /\ cols' \in Seq(ColumnNames)
      /\ rows' \in Seq(Wide(Len(cols')))
      => Rectangular'
  BY DEF Rectangular
<1>1. ASSUME NEW j \in Joins, Join(j) PROVE Rectangular'
  <2>1. stage' = "where"
    BY <1>1 DEF Join, Goto
  <2>2. QED
    BY <1>0, <1>1, <2>1, JoinsRectangular
<1>2. ASSUME NEW w \in Conditions, Lookup(w) PROVE Rectangular'
  <2>1. stage = "scan" /\ stage' = "group" /\ cols' = cols /\ rows' \in LookedUp(w)
    BY <1>2 DEF Lookup, Goto
  <2>2. cols \in Seq(ColumnNames) /\ rows \in Seq(Wide(Len(cols)))
    BY <2>1 DEF Rectangular, ToOrder
  <2>3. rows' \in Seq(Wide(Len(cols)))
    BY <2>1, <2>2, LookupsRectangular
  <2>4. QED
    BY <1>0, <2>1, <2>2, <2>3
<1>3. ASSUME NEW w \in Conditions, Filter(w) PROVE Rectangular'
  <2>1. /\ stage \in {"scan", "where", "having", "qualify"} /\ cols' = cols
        /\ stage' \in {"group", "window", "order"}
    BY <1>3 DEF Filter, Goto, After
  <2>2. PICK S : rows' = Only(rows, S)
    BY <1>3 DEF Filter
  <2>3. cols \in Seq(ColumnNames) /\ rows \in Seq(Wide(Len(cols)))
    BY <2>1 DEF Rectangular, ToOrder
  <2>4. rows' \in Seq(Wide(Len(cols)))
    BY <2>2, <2>3, OnlyKeeps
  <2>5. QED
    BY <1>0, <2>1, <2>3, <2>4
<1>4. CASE Single
  BY <1>4 DEF Single, Goto, Rectangular, ToOrder
<1>5. CASE NoFilter \/ NoGroupBy \/ NoWindow
  <2>1. /\ stage \in {"scan", "where", "having", "qualify", "group", "window"}
        /\ stage' \in {"group", "window", "order", "qualify"} /\ UNCHANGED <<cols, rows>>
    BY <1>5 DEF NoFilter, NoGroupBy, NoWindow, Goto, After
  <2>2. QED
    BY <1>0, <2>1 DEF Rectangular, ToOrder
<1>6. CASE UNCHANGED selectVars
  BY <1>6 DEF selectVars, Rectangular
<1>7. ASSUME NEW g \in Groupings, GroupBy(g) PROVE Rectangular'
  <2>1. stage' = "having"
    BY <1>7 DEF GroupBy, Goto
  <2>2. QED
    BY <1>0, <1>7, <2>1, GroupsRectangular
<1>8. ASSUME NEW w \in Windows, Window(w) PROVE Rectangular'
  <2>1. stage' = "qualify"
    BY <1>8 DEF Window, Goto
  <2>2. QED
    BY <1>0, <1>8, <2>1, WindowsRectangular
<1>9. ASSUME NEW keys \in Orders, OrderBy(keys) PROVE FALSE
  BY <1>9 DEF OrderBy, Goto, ToOrder
<1>10. ASSUME NEW list \in SelectLists, Project(list) PROVE FALSE
  BY <1>10 DEF Project, Goto, ToOrder
<1>11. ASSUME NEW wanted \in BOOLEAN, Distinct(wanted) PROVE FALSE
  BY <1>11 DEF Distinct, Goto, ToOrder
<1>12. ASSUME NEW limit \in 0..MaxPage, NEW offset \in 0..MaxPage, Limit(limit, offset)
       PROVE  FALSE
  BY <1>12 DEF Limit, Goto, ToOrder
<1>13. QED
  BY <1>1, <1>2, <1>3, <1>4, <1>5, <1>6, <1>7, <1>8, <1>9, <1>10, <1>11, <1>12,
     Zenon DEF SelectNext

LEMMA GroupsMean == Rectangular => GroupsPartition
<1>0. Rectangular /\ stage = "group" => cols \in Seq(ColumnNames) /\ rows \in Seq(Wide(Len(cols)))
  BY DEF Rectangular, ToOrder
<1> SUFFICES ASSUME cols \in Seq(ColumnNames), rows \in Seq(Wide(Len(cols))),
                    NEW g \in Groupings, Resolve(ToSet(g.on) \cup ({g.arg} \ {0}))
             PROVE
    LET out == GroupRows(rows, g)
        keys == [k \in DOMAIN g.on |-> k]
    IN /\ \A p, q \in DOMAIN out : KeyOf(out[p], keys) = KeyOf(out[q], keys) => p = q
       /\ g.fn \in {"COUNT", "SUM"} =>
            Total([p \in DOMAIN out |-> Last(out[p]).num]) = Aggregate(g.fn, rows, g.arg).num
  BY <1>0, Zenon DEF GroupsPartition
<1>1. g.on \in Seq(Nat) /\ g.arg \in Nat
  BY ClausesAssumption
<1>2. PICK D : D = 1..Len(cols) /\ D = DOMAIN cols
  OBVIOUS
<1>3. rows \in Seq([D -> Cell]) /\ g.arg \in D \cup {0}
  BY <1>2 DEF Wide, Resolve
<1>4. PICK V : V = [D -> Cell]
  OBVIOUS
<1>5. PICK ks : /\ ks = KeysFor(rows, g.on)
                /\ Len(ks) \in Nat /\ DOMAIN ks = 1..Len(ks)
                /\ \A i, j \in 1..Len(ks) : ks[i] = ks[j] => i = j
                /\ \A p \in DOMAIN rows : \E i \in 1..Len(ks) : ks[i] = KeyOf(rows[p], g.on)
  <2>1. PICK rs \in Seq(V), on \in Seq(Nat) : rs = rows /\ on = g.on
    BY <1>1, <1>3, <1>4
  <2>2. PICK ks : ks = KeysFor(rs, on)
    OBVIOUS
  <2>3. /\ Len(ks) \in Nat /\ DOMAIN ks = 1..Len(ks)
        /\ \A i, j \in 1..Len(ks) : ks[i] = ks[j] => i = j
        /\ \A p \in DOMAIN rs : \E i \in 1..Len(ks) : ks[i] = KeyOf(rs[p], on)
    BY <2>2, KeysForAre
  <2>4. QED
    BY <2>1, <2>2, <2>3
<1>6. PICK n \in Nat : n = Len(ks)
  BY <1>5
<1>7. PICK out : out = GroupRows(rows, g)
  OBVIOUS
<1>8. /\ DOMAIN out = 1..n
      /\ \A i \in 1..n :
           /\ Last(out[i]) = Aggregate(g.fn, Group(rows, g.on, ks[i]), g.arg)
           /\ g.on # <<>> => KeyOf(out[i], [p \in DOMAIN g.on |-> p]) = ks[i]
  <2>1. rows \in Seq(V)
    BY <1>3, <1>4
  <2>2. QED
    BY <1>1, <1>5, <1>6, <1>7, <2>1, GroupRowsAre
<1>9. ASSUME NEW p \in DOMAIN out, NEW q \in DOMAIN out,
             KeyOf(out[p], [k \in DOMAIN g.on |-> k]) = KeyOf(out[q], [k \in DOMAIN g.on |-> k])
      PROVE  p = q
  <2>1. CASE g.on # <<>>
    <3>1. ks[p] = ks[q] /\ p \in 1..Len(ks) /\ q \in 1..Len(ks)
      BY <1>6, <1>8, <1>9, <2>1
    <3>2. QED
      BY <1>5, <3>1
  <2>2. CASE g.on = <<>>
    <3>1. Len(ks) = 1
      BY <1>5, <2>2 DEF KeysFor
    <3>2. QED
      BY <1>6, <1>8, <3>1
  <2>3. QED
    BY <2>1, <2>2
<1>10. ASSUME g.fn \in {"COUNT", "SUM"}
       PROVE  Total([p \in DOMAIN out |-> Last(out[p]).num]) = Aggregate(g.fn, rows, g.arg).num
  <2>0. Readable([D -> Cell], g.arg)
    BY <1>3, CellsReadable
  <2>1. PICK wt \in [[D -> Cell] -> Int] : wt = Adds(g.fn, g.arg, [D -> Cell])
    BY <2>0, AddsType
  <2>2. PICK S : S = [i \in 1..n |-> {r \in ToSet(rows) : KeyOf(r, g.on) = ks[i]}]
    OBVIOUS
  <2>3. ASSUME NEW i \in 1..n PROVE Last(out[i]).num = Weight(Only(rows, S[i]), wt)
    <3>1. Group(rows, g.on, ks[i]) = Only(rows, S[i])
      BY <2>2 DEF Group
    <3>2. PICK t \in Seq([D -> Cell]) : t = Only(rows, S[i])
      BY <1>3, OnlyCounts
    <3>3. Aggregate(g.fn, t, g.arg).num = Weight(t, Adds(g.fn, g.arg, [D -> Cell]))
      BY <1>10, <2>0, AggregateIs
    <3>4. QED
      BY <1>8, <2>1, <3>1, <3>2, <3>3, Zenon
  <2>4. PICK part : part = [p \in DOMAIN rows |->
                              CHOOSE i \in 1..n : ks[i] = KeyOf(rows[p], g.on)]
    OBVIOUS
  <2>5. ASSUME NEW p \in DOMAIN rows
        PROVE  part[p] \in 1..n /\ \A i \in 1..n : rows[p] \in S[i] <=> i = part[p]
    <3>1. part[p] \in 1..n /\ ks[part[p]] = KeyOf(rows[p], g.on)
      <4>1. \E i \in 1..n : ks[i] = KeyOf(rows[p], g.on)
        BY <1>5, <1>6
      <4>2. QED
        BY <2>4, <4>1
    <3>2. ASSUME NEW i \in 1..n PROVE rows[p] \in S[i] <=> ks[i] = KeyOf(rows[p], g.on)
      BY <2>2 DEF ToSet
    <3>3. QED
      BY <1>5, <1>6, <3>1, <3>2
  <2>6. Total([i \in 1..n |-> Weight(Only(rows, S[i]), wt)]) = Weight(rows, wt)
    BY <1>3, <2>5, SplitWeights
  <2>7. [p \in DOMAIN out |-> Last(out[p]).num] = [i \in 1..n |-> Weight(Only(rows, S[i]), wt)]
    BY <1>8, <2>3
  <2>8. Aggregate(g.fn, rows, g.arg).num = Weight(rows, wt)
    BY <1>3, <1>10, <2>0, <2>1, AggregateIs
  <2>9. QED
    BY <2>6, <2>7, <2>8
<1>11. QED
  BY <1>7, <1>9, <1>10, Zenon

\* groupRows makes one group for every key, and what its groups count or sum
\* makes up what all rows do.
THEOREM GroupsAddUp == SelectSpec => []GroupsPartition
  BY InitFresh, NextFresh, InitRectangular, NextRectangular, GroupsMean, PTL DEF SelectSpec

----------------------------------------------------------------------------
(* Rows are ordered where the columns of the keys are uniform              *)

Alike(a, b) == a # Null /\ b # Null => (Num(a) = NoNumber <=> Num(b) = NoNumber)

LEMMA CellsOrder ==
  ASSUME NEW a \in Cell, NEW b \in Cell, NEW c \in Cell
  PROVE  /\ CompareCells(a, b) \in {-1, 0, 1}
         /\ CompareCells(b, a) = -CompareCells(a, b)
         /\ (Num(a) = NoNumber <=> Num(b) = NoNumber) /\ (Num(b) = NoNumber <=> Num(c) = NoNumber)
            /\ CompareCells(a, b) <= 0 /\ CompareCells(b, c) <= 0
            => /\ CompareCells(a, c) <= 0
               /\ CompareCells(a, c) = 0 => CompareCells(a, b) = 0 /\ CompareCells(b, c) = 0
<1>1. PICK x \in Int \cup {NoNumber}, y \in Int \cup {NoNumber}, z \in Int \cup {NoNumber} :
        x = Num(a) /\ y = Num(b) /\ z = Num(c)
  BY CellType
<1>2. PICK k \in Int, l \in Int, m \in Int : k = Text(a) /\ l = Text(b) /\ m = Text(c)
  BY CellType
<1>3. CompareCells(a, b) = IF x # NoNumber /\ y # NoNumber THEN Sign(x, y) ELSE Sign(k, l)
  BY <1>1, <1>2, Zenon DEF CompareCells
<1>4. CompareCells(b, a) = IF x # NoNumber /\ y # NoNumber THEN Sign(y, x) ELSE Sign(l, k)
  BY <1>1, <1>2, Zenon DEF CompareCells
<1>5. CompareCells(b, c) = IF y # NoNumber /\ z # NoNumber THEN Sign(y, z) ELSE Sign(l, m)
  BY <1>1, <1>2, Zenon DEF CompareCells
<1>6. CompareCells(a, c) = IF x # NoNumber /\ z # NoNumber THEN Sign(x, z) ELSE Sign(k, m)
  BY <1>1, <1>2, Zenon DEF CompareCells
<1>7. CompareCells(a, b) \in {-1, 0, 1}
  BY <1>3 DEF Sign
<1>8. CompareCells(b, a) = -CompareCells(a, b)
  BY <1>3, <1>4 DEF Sign
<1>9. ASSUME Num(a) = NoNumber <=> Num(b) = NoNumber, Num(b) = NoNumber <=> Num(c) = NoNumber,
             CompareCells(a, b) <= 0, CompareCells(b, c) <= 0
      PROVE  /\ CompareCells(a, c) <= 0
             /\ CompareCells(a, c) = 0 => CompareCells(a, b) = 0 /\ CompareCells(b, c) = 0
  <2>1. CASE x = NoNumber
    <3>1. y = NoNumber /\ z = NoNumber
      BY <1>1, <1>9, <2>1
    <3>2. QED
      BY <1>3, <1>5, <1>6, <1>9, <2>1, <3>1 DEF Sign
  <2>2. CASE x # NoNumber
    <3>1. y # NoNumber /\ z # NoNumber
      BY <1>1, <1>9, <2>2
    <3>2. QED
      BY <1>3, <1>5, <1>6, <1>9, <2>2, <3>1 DEF Sign
  <2>3. QED
    BY <2>1, <2>2
<1>10. QED
  BY <1>7, <1>8, <1>9

\* One term, ascending.
Rising(a, b) == CASE a = Null /\ b = Null -> 0
                  [] a = Null /\ b # Null -> -1
                  [] a # Null /\ b = Null -> 1
                  [] OTHER -> CompareCells(a, b)

LEMMA RisingType ==
  ASSUME NEW a \in Cell, NEW b \in Cell
  PROVE  Rising(a, b) \in {-1, 0, 1}
<1>1. CASE a = Null /\ b = Null
  BY <1>1 DEF Rising
<1>2. CASE a = Null /\ b # Null
  BY <1>2 DEF Rising
<1>3. CASE a # Null /\ b = Null
  BY <1>3 DEF Rising
<1>4. CASE a # Null /\ b # Null
  BY <1>4, CellsOrder DEF Rising
<1>5. QED
  BY <1>1, <1>2, <1>3, <1>4

LEMMA RisingFlips ==
  ASSUME NEW a \in Cell, NEW b \in Cell
  PROVE  Rising(b, a) = -Rising(a, b)
<1>1. PICK x \in {-1, 0, 1}, y \in {-1, 0, 1} : x = Rising(a, b) /\ y = Rising(b, a)
  BY RisingType
<1>2. CASE a = Null /\ b = Null
  <2>1. x <= 0 /\ x >= 0 /\ y <= 0 /\ y >= 0
    BY <1>1, <1>2 DEF Rising
  <2>2. QED
    BY <1>1, <2>1
<1>3. CASE a = Null /\ b # Null
  <2>1. x < 0 /\ y > 0
    BY <1>1, <1>3 DEF Rising
  <2>2. QED
    BY <1>1, <2>1
<1>4. CASE a # Null /\ b = Null
  <2>1. x > 0 /\ y < 0
    BY <1>1, <1>4 DEF Rising
  <2>2. QED
    BY <1>1, <2>1
<1>5. CASE a # Null /\ b # Null
  BY <1>5, CellsOrder DEF Rising
<1>6. QED
  BY <1>2, <1>3, <1>4, <1>5

LEMMA RisingChain ==
  ASSUME NEW a \in Cell, NEW b \in Cell, NEW c \in Cell, Alike(a, b), Alike(b, c),
         Rising(a, b) <= 0, Rising(b, c) <= 0
  PROVE  /\ Rising(a, c) <= 0
         /\ Rising(a, c) = 0 => Rising(a, b) = 0 /\ Rising(b, c) = 0
<1>1. CASE a = Null
  <2>1. CASE b = Null
    <3>1. Rising(a, b) = 0 /\ Rising(a, c) = Rising(b, c)
      BY <1>1, <2>1 DEF Rising
    <3>2. QED
      BY <3>1
  <2>2. CASE b # Null
    <3>1. CASE c = Null
      <4>1. Rising(b, c) = 1
        BY <2>2, <3>1 DEF Rising
      <4>2. QED
        BY <4>1
    <3>2. CASE c # Null
      <4>1. Rising(a, c) = -1
        BY <1>1, <3>2 DEF Rising
      <4>2. QED
        BY <4>1
    <3>3. QED
      BY <3>1, <3>2
  <2>3. QED
    BY <2>1, <2>2
<1>2. CASE a # Null
  <2>1. CASE b = Null
    <3>1. Rising(a, b) = 1
      BY <1>2, <2>1 DEF Rising
    <3>2. QED
      BY <3>1
  <2>2. CASE b # Null
    <3>1. CASE c = Null
      <4>1. Rising(b, c) = 1
        BY <2>2, <3>1 DEF Rising
      <4>2. QED
        BY <4>1
    <3>2. CASE c # Null
      <4>1. /\ Rising(a, b) = CompareCells(a, b) /\ Rising(b, c) = CompareCells(b, c)
            /\ Rising(a, c) = CompareCells(a, c)
        BY <1>2, <2>2, <3>2 DEF Rising
      <4>2. (Num(a) = NoNumber <=> Num(b) = NoNumber) /\ (Num(b) = NoNumber <=> Num(c) = NoNumber)
        BY <1>2, <2>2, <3>2, Zenon DEF Alike
      <4>3. QED
        BY <4>1, <4>2, CellsOrder
    <3>3. QED
      BY <3>1, <3>2
  <2>3. QED
    BY <2>1, <2>2
<1>3. QED
  BY <1>1, <1>2

LEMMA TermIs ==
  ASSUME NEW a, NEW b, NEW desc \in BOOLEAN
  PROVE  CompareTerm(a, b, desc) = IF desc THEN -Rising(a, b) ELSE Rising(a, b)
  BY Zenon DEF CompareTerm, Rising

LEMMA TermType ==
  ASSUME NEW a \in Cell, NEW b \in Cell, NEW desc \in BOOLEAN
  PROVE  /\ CompareTerm(a, b, desc) \in {-1, 0, 1}
         /\ CompareTerm(b, a, desc) = -CompareTerm(a, b, desc)
<1>1. Rising(a, b) \in {-1, 0, 1} /\ Rising(b, a) = -Rising(a, b)
  BY RisingType, RisingFlips
<1>2. CASE desc = TRUE
  <2>1. CompareTerm(a, b, desc) = -Rising(a, b) /\ CompareTerm(b, a, desc) = -Rising(b, a)
    BY <1>2, TermIs
  <2>2. QED
    BY <1>1, <2>1
<1>3. CASE desc = FALSE
  <2>1. CompareTerm(a, b, desc) = Rising(a, b) /\ CompareTerm(b, a, desc) = Rising(b, a)
    BY <1>3, TermIs
  <2>2. QED
    BY <1>1, <2>1
<1>4. QED
  BY <1>2, <1>3

LEMMA TermChain ==
  ASSUME NEW a \in Cell, NEW b \in Cell, NEW c \in Cell, NEW desc \in BOOLEAN,
         Alike(a, b), Alike(b, c),
         CompareTerm(a, b, desc) <= 0, CompareTerm(b, c, desc) <= 0
  PROVE  /\ CompareTerm(a, c, desc) <= 0
         /\ CompareTerm(a, c, desc) = 0
            => CompareTerm(a, b, desc) = 0 /\ CompareTerm(b, c, desc) = 0
<1>1. Alike(b, a) /\ Alike(c, b)
  BY DEF Alike
<1>2. CASE desc = TRUE
  <2>1. /\ CompareTerm(a, b, desc) = -Rising(a, b) /\ CompareTerm(b, c, desc) = -Rising(b, c)
        /\ CompareTerm(a, c, desc) = -Rising(a, c)
    BY <1>2, TermIs
  <2>2. /\ Rising(a, b) = -Rising(b, a) /\ Rising(b, c) = -Rising(c, b)
        /\ Rising(a, c) = -Rising(c, a)
    BY RisingFlips
  <2>3. Rising(b, a) \in {-1, 0, 1} /\ Rising(c, b) \in {-1, 0, 1} /\ Rising(c, a) \in {-1, 0, 1}
    BY RisingType
  <2>4. /\ CompareTerm(a, b, desc) = Rising(b, a) /\ CompareTerm(b, c, desc) = Rising(c, b)
        /\ CompareTerm(a, c, desc) = Rising(c, a)
    BY <2>1, <2>2, <2>3
  <2>5. /\ Rising(c, a) <= 0
        /\ Rising(c, a) = 0 => Rising(c, b) = 0 /\ Rising(b, a) = 0
    BY <1>1, <2>4, RisingChain
  <2>6. QED
    BY <2>4, <2>5
<1>3. CASE desc = FALSE
  <2>1. /\ CompareTerm(a, b, desc) = Rising(a, b) /\ CompareTerm(b, c, desc) = Rising(b, c)
        /\ CompareTerm(a, c, desc) = Rising(a, c)
    BY <1>3, TermIs
  <2>2. QED
    BY <2>1, RisingChain
<1>4. QED
  BY <1>2, <1>3

Term(r, s, keys, k) == CompareTerm(r[keys[k].at], s[keys[k].at], keys[k].desc)

\* Rows compare as their first term that is not 0.
FirstTerm(r, s, keys, m) ==
  /\ m \in DOMAIN keys /\ Term(r, s, keys, m) # 0 /\ Compare(r, s, keys) = Term(r, s, keys, m)
  /\ \A k \in DOMAIN keys : k < m => Term(r, s, keys, k) = 0

LEMMA FirstApart ==
  ASSUME NEW r, NEW s, NEW keys, NEW n \in Nat, DOMAIN keys = 1..n
  PROVE  \/ Compare(r, s, keys) = 0 /\ \A k \in DOMAIN keys : Term(r, s, keys, k) = 0
         \/ \E m : FirstTerm(r, s, keys, m)
<1>1. PICK A : A = {k \in DOMAIN keys : Term(r, s, keys, k) # 0}
  OBVIOUS
<1>2. Compare(r, s, keys) =
        IF A = {} THEN 0
        ELSE Term(r, s, keys, CHOOSE k \in A : \A i \in A : k <= i)
  BY <1>1 DEF Compare, Term
<1>3. CASE A = {}
  BY <1>1, <1>2, <1>3
<1>4. CASE A # {}
  <2>1. A \subseteq Nat
    BY <1>1
  <2>2. \E k \in A : \A i \in A : k <= i
    BY <1>4, <2>1, Least
  <2>3. PICK m \in A : m = CHOOSE k \in A : \A i \in A : k <= i
    BY <2>2
  <2>4. Compare(r, s, keys) = Term(r, s, keys, m)
    BY <1>2, <1>4, <2>3
  <2>5. ASSUME NEW k \in DOMAIN keys, k < m PROVE Term(r, s, keys, k) = 0
    <3>1. k \notin A
      <4>1. m \in Nat /\ k \in Nat /\ (k \in A => m <= k)
        <5>1. \A i \in A : m <= i
          BY <2>2, <2>3
        <5>2. QED
          BY <2>1, <2>5, <5>1
      <4>2. QED
        BY <2>5, <4>1
    <3>2. QED
      BY <1>1, <3>1
  <2>6. FirstTerm(r, s, keys, m)
    BY <1>1, <2>4, <2>5 DEF FirstTerm
  <2>7. QED
    BY <2>6
<1>5. QED
  BY <1>3, <1>4

LEMMA FirstIs ==
  ASSUME NEW r, NEW s, NEW keys, NEW n \in Nat, DOMAIN keys = 1..n, NEW j \in 1..n,
         \A k \in 1..n : k < j => Term(r, s, keys, k) = 0
  PROVE  Term(r, s, keys, j) = 0 \/ Compare(r, s, keys) = Term(r, s, keys, j)
<1>1. CASE Compare(r, s, keys) = 0 /\ \A k \in DOMAIN keys : Term(r, s, keys, k) = 0
  BY <1>1
<1>2. ASSUME NEW m, FirstTerm(r, s, keys, m)
      PROVE  Term(r, s, keys, j) = 0 \/ Compare(r, s, keys) = Term(r, s, keys, j)
  <2>1. /\ m \in 1..n /\ Term(r, s, keys, m) # 0 /\ Compare(r, s, keys) = Term(r, s, keys, m)
        /\ \A k \in 1..n : k < m => Term(r, s, keys, k) = 0
    BY <1>2 DEF FirstTerm
  <2>2. ~(m < j)
    BY <2>1
  <2>3. CASE m = j
    BY <2>1, <2>3
  <2>4. CASE j < m
    BY <2>1, <2>4
  <2>5. QED
    BY <2>1, <2>2, <2>3, <2>4
<1>3. QED
  BY <1>1, <1>2, FirstApart

\* The cells the keys name compare.
Sortable(V, keys) ==
  /\ keys \in Keys
  /\ \A k \in DOMAIN keys : \A r, s \in V : /\ r[keys[k].at] \in Cell
                                            /\ Alike(r[keys[k].at], s[keys[k].at])

LEMMA KeysHave ==
  ASSUME NEW keys \in Keys
  PROVE  /\ Len(keys) \in Nat /\ DOMAIN keys = 1..Len(keys)
         /\ \A k \in DOMAIN keys : keys[k].at \in Nat /\ keys[k].desc \in BOOLEAN
<1>1. PICK T : T = [at : Nat, desc : BOOLEAN]
  OBVIOUS
<1>2. keys \in Seq(T)
  BY <1>1 DEF Keys
<1>3. Len(keys) \in Nat /\ DOMAIN keys = 1..Len(keys) /\ \A k \in DOMAIN keys : keys[k] \in T
  BY <1>2
<1>4. QED
  BY <1>1, <1>3

LEMMA RowsFlip ==
  ASSUME NEW V, NEW keys, Sortable(V, keys), NEW r \in V, NEW s \in V
  PROVE  Compare(s, r, keys) = -Compare(r, s, keys)
<1>1. PICK n \in Nat : n = Len(keys) /\ DOMAIN keys = 1..n
  BY KeysHave DEF Sortable
<1>2. ASSUME NEW k \in 1..n
      PROVE  /\ Term(r, s, keys, k) \in {-1, 0, 1}
             /\ Term(s, r, keys, k) = -Term(r, s, keys, k)
  <2>1. keys[k].desc \in BOOLEAN /\ r[keys[k].at] \in Cell /\ s[keys[k].at] \in Cell
    BY <1>1, KeysHave DEF Sortable
  <2>2. QED
    BY <2>1, TermType DEF Term
<1>3. \A k \in 1..n : Term(r, s, keys, k) = 0 <=> Term(s, r, keys, k) = 0
  <2>1. ASSUME NEW k \in 1..n PROVE Term(r, s, keys, k) = 0 <=> Term(s, r, keys, k) = 0
    <3>1. PICK x \in {-1, 0, 1}, y \in Int :
            x = Term(r, s, keys, k) /\ y = Term(s, r, keys, k) /\ y = -x
      BY <1>2
    <3>2. (x <= 0 /\ x >= 0) <=> (y <= 0 /\ y >= 0)
      BY <3>1
    <3>3. QED
      BY <3>1, <3>2
  <2>2. QED
    BY <2>1
<1>4. PICK x \in Int, y \in Int : x = Compare(r, s, keys) /\ y = Compare(s, r, keys)
  BY CompareIs
<1>5. CASE Compare(r, s, keys) = 0 /\ \A k \in DOMAIN keys : Term(r, s, keys, k) = 0
  <2>1. \A m : ~FirstTerm(s, r, keys, m)
    BY <1>1, <1>3, <1>5 DEF FirstTerm
  <2>2. Compare(s, r, keys) = 0
    BY <1>1, <2>1, FirstApart
  <2>3. x <= 0 /\ x >= 0 /\ y <= 0 /\ y >= 0
    BY <1>4, <1>5, <2>2
  <2>4. y = -x
    BY <2>3
  <2>5. QED
    BY <1>4, <2>4
<1>6. ASSUME NEW m, FirstTerm(r, s, keys, m)
      PROVE  Compare(s, r, keys) = -Compare(r, s, keys)
  <2>1. /\ m \in 1..n /\ Term(r, s, keys, m) # 0 /\ Compare(r, s, keys) = Term(r, s, keys, m)
        /\ \A k \in 1..n : k < m => Term(r, s, keys, k) = 0
    BY <1>1, <1>6 DEF FirstTerm
  <2>2. Term(s, r, keys, m) # 0 /\ \A k \in 1..n : k < m => Term(s, r, keys, k) = 0
    BY <1>3, <2>1
  <2>3. Compare(s, r, keys) = Term(s, r, keys, m)
    BY <1>1, <2>1, <2>2, FirstIs
  <2>4. QED
    BY <1>2, <2>1, <2>3
<1>7. QED
  BY <1>1, <1>5, <1>6, FirstApart

LEMMA RowsChain ==
  ASSUME NEW V, NEW keys, Sortable(V, keys), NEW r \in V, NEW s \in V, NEW t \in V,
         Compare(r, s, keys) <= 0, Compare(s, t, keys) <= 0
  PROVE  Compare(r, t, keys) <= 0
<1>1. PICK n \in Nat : n = Len(keys) /\ DOMAIN keys = 1..n
  BY KeysHave DEF Sortable
<1>2. ASSUME NEW k \in 1..n, Term(r, s, keys, k) <= 0, Term(s, t, keys, k) <= 0
      PROVE  /\ Term(r, t, keys, k) <= 0
             /\ Term(r, t, keys, k) = 0 => Term(r, s, keys, k) = 0 /\ Term(s, t, keys, k) = 0
  <2>1. PICK a \in Cell, b \in Cell, c \in Cell, desc \in BOOLEAN :
          /\ a = r[keys[k].at] /\ b = s[keys[k].at] /\ c = t[keys[k].at] /\ desc = keys[k].desc
    BY <1>1, KeysHave DEF Sortable
  <2>2. Alike(a, b) /\ Alike(b, c)
    BY <1>1, <2>1 DEF Sortable
  <2>3. /\ Term(r, s, keys, k) = CompareTerm(a, b, desc)
        /\ Term(s, t, keys, k) = CompareTerm(b, c, desc)
        /\ Term(r, t, keys, k) = CompareTerm(a, c, desc)
    BY <2>1 DEF Term
  <2>4. QED
    BY <1>2, <2>2, <2>3, TermChain
<1>3. ASSUME NEW j \in 1..n, \A k \in 1..n : k < j => Term(r, s, keys, k) = 0
      PROVE  Term(r, s, keys, j) <= 0
  <2>1. Term(r, s, keys, j) = 0 \/ Compare(r, s, keys) = Term(r, s, keys, j)
    BY <1>1, <1>3, FirstIs
  <2>2. QED
    BY <2>1
<1>4. ASSUME NEW j \in 1..n, \A k \in 1..n : k < j => Term(s, t, keys, k) = 0
      PROVE  Term(s, t, keys, j) <= 0
  <2>1. Term(s, t, keys, j) = 0 \/ Compare(s, t, keys) = Term(s, t, keys, j)
    BY <1>1, <1>4, FirstIs
  <2>2. QED
    BY <2>1
<1>5. ASSUME NEW m, FirstTerm(r, t, keys, m) PROVE Compare(r, t, keys) <= 0
  <2>1. /\ m \in 1..n /\ Term(r, t, keys, m) # 0 /\ Compare(r, t, keys) = Term(r, t, keys, m)
        /\ \A k \in 1..n : k < m => Term(r, t, keys, k) = 0
    BY <1>1, <1>5 DEF FirstTerm
  <2> DEFINE D == {k \in 1..n : k < m /\ ~(Term(r, s, keys, k) = 0 /\ Term(s, t, keys, k) = 0)}
  <2>2. D = {}
    <3> SUFFICES ASSUME D # {} PROVE FALSE
      OBVIOUS
    <3>1. PICK d \in D : \A k \in D : d <= k
      <4>1. D \subseteq Nat
        OBVIOUS
      <4> HIDE DEF D
      <4>2. QED
        BY <4>1, Least
    <3>2. \A k \in 1..n : k < d => Term(r, s, keys, k) = 0 /\ Term(s, t, keys, k) = 0
      <4>1. ASSUME NEW k \in 1..n, k < d PROVE k \notin D
        <5>1. d \in Nat /\ (k \in D => d <= k)
          BY <3>1
        <5>2. QED
          BY <4>1, <5>1
      <4>2. d < m /\ d \in Nat
        OBVIOUS
      <4>3. QED
        BY <2>1, <4>1, <4>2
    <3>3. Term(r, s, keys, d) <= 0 /\ Term(s, t, keys, d) <= 0
      BY <1>3, <1>4, <3>2
    <3>4. Term(r, t, keys, d) = 0 => Term(r, s, keys, d) = 0 /\ Term(s, t, keys, d) = 0
      BY <1>2, <3>3
    <3>5. QED
      BY <2>1, <3>4
  <2>3. \A k \in 1..n : k < m => Term(r, s, keys, k) = 0 /\ Term(s, t, keys, k) = 0
    BY <2>2
  <2>4. Term(r, s, keys, m) <= 0 /\ Term(s, t, keys, m) <= 0
    BY <1>3, <1>4, <2>1, <2>3
  <2>5. QED
    BY <1>2, <2>1, <2>4
<1>6. CASE Compare(r, t, keys) = 0
  BY <1>6
<1>7. QED
  BY <1>1, <1>5, <1>6, FirstApart

LEMMA SortableRanks == ASSUME NEW V, NEW keys, Sortable(V, keys) PROVE Ranked(V, keys)
  BY RowsFlip, RowsChain DEF Ranked

----------------------------------------------------------------------------
(* The pages of a sequence                                                 *)

Upto(s, k) == SubSeq(s, 1, IF k < Len(s) THEN k ELSE Len(s))

FrontOf(V, s, p) ==
  /\ SubSeq(s, 1, p) \in Seq(V) /\ Len(SubSeq(s, 1, p)) = p
  /\ \A i \in 1..p : SubSeq(s, 1, p)[i] = s[i]

LEMMA Fronts == ASSUME NEW V, NEW s \in Seq(V), NEW p \in 0..Len(s) PROVE FrontOf(V, s, p)
  BY Cut DEF FrontOf

LEMMA RestIs ==
  ASSUME NEW V, NEW s \in Seq(V), NEW o \in Nat
  PROVE  \/ o >= Len(s) /\ SubSeq(s, o + 1, Len(s)) = <<>>
         \/ /\ o < Len(s) /\ SubSeq(s, o + 1, Len(s)) \in Seq(V)
            /\ Len(SubSeq(s, o + 1, Len(s))) = Len(s) - o
            /\ \A i \in 1..(Len(s) - o) : SubSeq(s, o + 1, Len(s))[i] = s[o + i]
<1>1. PICK m \in Nat : m = Len(s)
  OBVIOUS
<1>2. CASE o < m
  <2>1. o \in 0..Len(s)
    BY <1>1, <1>2
  <2>2. QED
    BY <1>1, <1>2, <2>1, Cut
<1>3. CASE o >= m
  <2>1. SubSeq(s, o + 1, m) = <<>>
    BY <1>1, <1>3
  <2>2. QED
    BY <1>1, <1>3, <2>1
<1>4. QED
  BY <1>2, <1>3

LEMMA PageAppends ==
  ASSUME NEW V, NEW s \in Seq(V), NEW n \in Nat \ {0}, NEW o \in Nat
  PROVE  /\ ApplyLimitOffset(s, n, o) \in Seq(V)
         /\ Upto(s, o) \o ApplyLimitOffset(s, n, o) = Upto(s, o + n)
<1>1. PICK m \in Nat : m = Len(s)
  OBVIOUS
<1>2. PICK rest : rest = SubSeq(s, o + 1, Len(s))
  OBVIOUS
<1>3. ApplyLimitOffset(s, n, o) =
        IF n > 0 /\ n < Len(rest) THEN SubSeq(rest, 1, n) ELSE rest
  BY <1>2 DEF ApplyLimitOffset
<1>4. CASE o >= m
  <2>1. rest = <<>> /\ Len(rest) = 0
    BY <1>1, <1>2, <1>4, RestIs
  <2>2. ApplyLimitOffset(s, n, o) = <<>>
    BY <1>3, <2>1
  <2>3. Upto(s, o) = SubSeq(s, 1, m) /\ Upto(s, o + n) = SubSeq(s, 1, m)
    BY <1>1, <1>4 DEF Upto
  <2>4. SubSeq(s, 1, m) = s /\ s \o <<>> = s /\ <<>> \in Seq(V)
    BY <1>1
  <2>5. QED
    BY <2>2, <2>3, <2>4
<1>5. CASE o < m
  <2>1. PICK r \in Seq(V) : r = rest /\ Len(r) = m - o /\ \A i \in 1..(m - o) : r[i] = s[o + i]
    <3>1. /\ SubSeq(s, o + 1, Len(s)) \in Seq(V) /\ Len(SubSeq(s, o + 1, Len(s))) = Len(s) - o
          /\ \A i \in 1..(Len(s) - o) : SubSeq(s, o + 1, Len(s))[i] = s[o + i]
      <4>1. o \in 0..Len(s)
        BY <1>1, <1>5
      <4>2. QED
        BY <4>1, Cut
    <3>2. rest \in Seq(V) /\ Len(rest) = m - o /\ \A i \in 1..(m - o) : rest[i] = s[o + i]
      BY <1>1, <1>2, <3>1, Zenon
    <3>3. QED
      BY <3>2
  <2>2. PICK a \in Seq(V) : a = Upto(s, o) /\ Len(a) = o /\ \A i \in 1..o : a[i] = s[i]
    <3>1. o \in 0..Len(s) /\ Upto(s, o) = SubSeq(s, 1, o)
      BY <1>1, <1>5 DEF Upto
    <3>2. FrontOf(V, s, o)
      BY <3>1, Fronts
    <3>3. QED
      BY <3>1, <3>2 DEF FrontOf
  <2>3. PICK e \in Nat : /\ e = IF o + n < m THEN o + n ELSE m
                         /\ e <= m /\ o < e
    BY <1>5
  <2>4. PICK c \in Seq(V) : c = Upto(s, o + n) /\ Len(c) = e /\ \A i \in 1..e : c[i] = s[i]
    <3>1. e \in 0..Len(s) /\ Upto(s, o + n) = SubSeq(s, 1, e)
      BY <1>1, <2>3 DEF Upto
    <3>2. FrontOf(V, s, e)
      BY <3>1, Fronts
    <3>3. QED
      BY <3>1, <3>2 DEF FrontOf
  <2>5. PICK b \in Seq(V) : /\ b = ApplyLimitOffset(s, n, o) /\ Len(b) = e - o
                            /\ \A i \in 1..(e - o) : b[i] = s[o + i]
    <3>1. CASE n < m - o
      <4>1. n \in 0..Len(r) /\ e - o = n
        BY <2>1, <2>3, <3>1
      <4>2. ApplyLimitOffset(s, n, o) = SubSeq(r, 1, n)
        BY <1>3, <2>1, <3>1
      <4>3. PICK b \in Seq(V) : b = SubSeq(r, 1, n) /\ Len(b) = n /\ \A i \in 1..n : b[i] = r[i]
        <5>1. FrontOf(V, r, n)
          BY <4>1, Fronts
        <5>2. QED
          BY <5>1 DEF FrontOf
      <4>4. \A i \in 1..n : i \in 1..(m - o)
        BY <3>1
      <4>5. QED
        BY <2>1, <4>1, <4>2, <4>3, <4>4, Zenon
    <3>2. CASE ~(n < m - o)
      <4>1. ApplyLimitOffset(s, n, o) = r
        BY <1>3, <2>1, <3>2
      <4>2. e = m
        BY <2>3, <3>2
      <4>3. QED
        BY <2>1, <4>1, <4>2
    <3>3. QED
      BY <3>1, <3>2
  <2>6. PICK d \in Seq(V) : /\ d = a \o b /\ Len(d) = Len(a) + Len(b)
                            /\ \A i \in 1..Len(a) : d[i] = a[i]
                            /\ \A i \in 1..Len(b) : d[Len(a) + i] = b[i]
    <3>1. /\ a \o b \in Seq(V) /\ Len(a \o b) = Len(a) + Len(b)
          /\ \A i \in 1..Len(a) : (a \o b)[i] = a[i]
          /\ \A i \in 1..Len(b) : (a \o b)[Len(a) + i] = b[i]
      BY ConcatIs
    <3>2. QED
      BY <3>1
  <2>7. Len(d) = e
    BY <2>2, <2>3, <2>5, <2>6
  <2>8. ASSUME NEW i \in 1..e PROVE d[i] = c[i]
    <3>1. CASE i <= o
      <4>1. i \in 1..o
        BY <3>1
      <4>2. d[i] = a[i] /\ a[i] = s[i]
        BY <2>2, <2>6, <4>1
      <4>3. QED
        BY <2>4, <4>2
    <3>2. CASE i > o
      <4>1. i - o \in 1..(e - o) /\ o + (i - o) = i
        BY <2>3, <3>2
      <4>2. d[o + (i - o)] = b[i - o]
        BY <2>2, <2>5, <2>6, <4>1
      <4>3. QED
        BY <2>4, <2>5, <4>1, <4>2
    <3>3. QED
      BY <3>1, <3>2
  <2>9. d = c
    BY <2>4, <2>7, <2>8, SeqEqual
  <2>10. QED
    BY <2>2, <2>4, <2>5, <2>6, <2>9
<1>6. QED
  BY <1>1, <1>4, <1>5

LEMMA PagesMakeUp ==
  ASSUME NEW V, NEW s \in Seq(V), NEW n \in Nat \ {0}
  PROVE  FlattenSeq(Pages(s, n)) = s
<1>1. PICK m \in Nat : m = Len(s)
  OBVIOUS
<1>2. PICK ss : ss = [i \in 1..(m + 1) |-> ApplyLimitOffset(s, n, (i - 1) * n)]
  OBVIOUS
<1>3. ss = Pages(s, n)
  BY <1>1, <1>2 DEF Pages
<1>4. Len(ss) = m + 1
  BY <1>2
<1>5. PICK f : /\ f = [i \in 1..(m + 1) |-> IF i = 1 THEN ss[i] ELSE f[i - 1] \o ss[i]]
               /\ FlattenSeq(ss) = f[m + 1]
  <2>1. Len(ss) \in Nat \ {0}
    BY <1>4
  <2>2. QED
    BY <1>4, <2>1, Flattened
<1>6. \A i \in Nat : i <= m => ss[i + 1] = ApplyLimitOffset(s, n, i * n)
  <2>1. ASSUME NEW i \in Nat, i <= m PROVE ss[i + 1] = ApplyLimitOffset(s, n, i * n)
    <3>1. i + 1 \in 1..(m + 1) /\ (i + 1) - 1 = i
      BY <2>1
    <3>2. PICK j \in 1..(m + 1) : j = i + 1 /\ j - 1 = i
      BY <3>1
    <3>3. ss[j] = ApplyLimitOffset(s, n, (j - 1) * n)
      BY <1>2
    <3>4. QED
      BY <3>2, <3>3
  <2>2. QED
    BY <2>1
<1> DEFINE T == {i \in Nat : i <= m => /\ i * n >= i
                                       /\ f[i + 1] = Upto(s, i * n + n)}
<1>7. 0 \in T
  <2>1. 0 * n = 0 /\ 0 * n >= 0
    OBVIOUS
  <2>2. f[1] = ss[1] /\ ss[1] = ApplyLimitOffset(s, n, 0)
    <3>1. 1 \in 1..(m + 1)
      OBVIOUS
    <3>2. f[1] = ss[1]
      BY <1>5, <3>1
    <3>3. ss[0 + 1] = ApplyLimitOffset(s, n, 0 * n)
      <4>1. 0 \in Nat /\ 0 <= m
        OBVIOUS
      <4>2. QED
        BY <1>6, <4>1, Zenon
    <3>4. QED
      BY <2>1, <3>2, <3>3
  <2>3. Upto(s, 0) \o ApplyLimitOffset(s, n, 0) = Upto(s, 0 + n)
    BY PageAppends
  <2>4. Upto(s, 0) = <<>>
    BY <1>1 DEF Upto
  <2>5. <<>> \o ApplyLimitOffset(s, n, 0) = ApplyLimitOffset(s, n, 0)
    <3>1. PICK p \in Seq(V) : p = ApplyLimitOffset(s, n, 0)
      BY PageAppends
    <3>2. QED
      BY <3>1
  <2>6. f[0 + 1] = Upto(s, 0 * n + n)
    <3>1. 0 + 1 = 1
      OBVIOUS
    <3>2. f[1] = Upto(s, 0 + n)
      BY <2>2, <2>3, <2>4, <2>5, Zenon
    <3>3. QED
      BY <2>1, <3>1, <3>2, Zenon
  <2>7. QED
    BY <2>1, <2>6
<1>8. ASSUME NEW i \in Nat, i \in T PROVE i + 1 \in T
  <2> SUFFICES ASSUME i + 1 <= m
               PROVE  (i + 1) * n >= i + 1 /\ f[(i + 1) + 1] = Upto(s, (i + 1) * n + n)
    OBVIOUS
  <2>1. i * n >= i /\ f[i + 1] = Upto(s, i * n + n)
    BY <1>8
  <2>2. PICK x \in Nat, y \in Nat : x = i * n /\ y = (i + 1) * n /\ y = x + n
    <3>1. i * n \in Nat /\ (i + 1) * n \in Nat /\ (i + 1) * n = i * n + n
      OBVIOUS
    <3>2. QED
      BY <3>1
  <2>3. (i + 1) * n >= i + 1
    BY <2>1, <2>2
  <2>4. ss[(i + 1) + 1] = ApplyLimitOffset(s, n, y)
    <3>1. i + 1 \in Nat /\ i + 1 <= m
      OBVIOUS
    <3>2. ss[(i + 1) + 1] = ApplyLimitOffset(s, n, (i + 1) * n)
      BY <1>6, <3>1, Zenon
    <3>3. QED
      BY <2>2, <3>2, Zenon
  <2>5. f[(i + 1) + 1] = f[i + 1] \o ss[(i + 1) + 1]
    <3>1. PICK j \in 1..(m + 1) : j = (i + 1) + 1 /\ j # 1 /\ j - 1 = i + 1
      OBVIOUS
    <3>2. f[j] = f[j - 1] \o ss[j]
      BY <1>5, <3>1
    <3>3. QED
      BY <3>1, <3>2
  <2>6. Upto(s, y) \o ApplyLimitOffset(s, n, y) = Upto(s, y + n)
    BY PageAppends
  <2>7. QED
    BY <2>1, <2>2, <2>3, <2>4, <2>5, <2>6
<1> HIDE DEF T
<1>9. m \in T
  BY <1>7, <1>8, Induction
<1>10. m * n >= m /\ f[m + 1] = Upto(s, m * n + n)
  BY <1>9 DEF T
<1>11. Upto(s, m * n + n) = s
  <2>1. PICK k \in Nat : k = m * n
    OBVIOUS
  <2>2. Upto(s, k + n) = SubSeq(s, 1, m)
    BY <1>1, <1>10, <2>1 DEF Upto
  <2>3. SubSeq(s, 1, m) = s
    BY <1>1
  <2>4. QED
    BY <2>1, <2>2, <2>3
<1>12. QED
  BY <1>3, <1>5, <1>10, <1>11

----------------------------------------------------------------------------
(* ORDER BY                                                                *)

\* Uniform columns can be sorted by.
LEMMA UniformSorts ==
  ASSUME NEW c \in Nat, rows \in Seq(Wide(c)), NEW keys \in Keys,
         Places(keys) \subseteq 1..c, \A at \in Places(keys) : Uniform(at)
  PROVE  Sortable(ToSet(rows), keys)
<1>1. ASSUME NEW k \in DOMAIN keys, NEW r \in ToSet(rows), NEW s \in ToSet(rows)
      PROVE  r[keys[k].at] \in Cell /\ Alike(r[keys[k].at], s[keys[k].at])
  <2>1. PICK at : at = keys[k].at /\ at \in 1..c /\ Uniform(at)
    BY DEF Places
  <2>2. PICK p \in DOMAIN rows, q \in DOMAIN rows : r = rows[p] /\ s = rows[q]
    BY DEF ToSet
  <2>3. r \in Wide(c)
    BY <2>2
  <2>4. r[at] \in Cell
    BY <2>1, <2>3 DEF Wide
  <2>5. Alike(r[at], s[at])
    BY <2>1, <2>2, Zenon DEF Uniform, Alike
  <2>6. QED
    BY <2>1, <2>4, <2>5
<1>2. QED
  BY <1>1 DEF Sortable

PeersOf(x, r, keys) == Only(x, {y \in ToSet(x) : Compare(y, r, keys) = 0})

LEMMA PeersAre ==
  ASSUME NEW V, NEW x \in Seq(V), NEW r, NEW keys
  PROVE  PeersOf(x, r, keys) = Only(x, {y \in V : Compare(y, r, keys) = 0})
<1>1. PICK S, T : /\ S = {y \in ToSet(x) : Compare(y, r, keys) = 0}
                  /\ T = {y \in ToSet(x) : Compare(y, r, keys) = 0}
                  /\ S = T
  OBVIOUS
<1>2. PICK W : W = ToSet(x)
  OBVIOUS
<1>3. x \in Seq(W) /\ W \subseteq V
  <2>1. PICK n \in Nat : n = Len(x) /\ DOMAIN x = 1..n
    OBVIOUS
  <2>2. x \in [1..n -> W]
    BY <1>2, <2>1 DEF ToSet
  <2>3. x \in Seq(W)
    BY <2>2
  <2>4. W \subseteq V
    <3>1. \A i \in 1..n : x[i] \in V
      BY <2>1
    <3>2. QED
      BY <1>2, <2>1, <3>1 DEF ToSet
  <2>5. QED
    BY <2>3, <2>4
<1>4. PICK E : E = {y \in V : Compare(y, r, keys) = 0}
  OBVIOUS
<1>5. \A y \in W : y \in S <=> y \in E
  BY <1>1, <1>2, <1>3, <1>4
<1>6. Only(x, S) = Only(x, E)
  BY <1>3, <1>5, OnlySame
<1>7. QED
  BY <1>1, <1>4, <1>6 DEF PeersOf

LEMMA SortsMean == Rectangular => SortsStably
<1>0. Rectangular /\ stage = "order" => cols \in Seq(ColumnNames) /\ rows \in Seq(Wide(Len(cols)))
  BY DEF Rectangular, ToOrder
<1> SUFFICES ASSUME cols \in Seq(ColumnNames), rows \in Seq(Wide(Len(cols))),
                    NEW keys \in Orders, Resolve(Places(keys))
             PROVE
    LET s == SortRows(rows, keys)
        peers(x, r) == Only(x, {y \in ToSet(x) : Compare(y, r, keys) = 0})
    IN /\ \A r \in ToSet(rows) \cup ToSet(s) : Occurrences(r, s) = Occurrences(r, rows)
       /\ (\A at \in Places(keys) : Uniform(at)) =>
            /\ \A p, q \in DOMAIN s : p < q => Compare(s[p], s[q], keys) <= 0
            /\ \A r \in ToSet(rows) : peers(s, r) = peers(rows, r)
       /\ \A n \in 1..MaxPage : FlattenSeq(Pages(s, n)) = s
  BY <1>0, Zenon DEF SortsStably
<1>1. PICK c \in Nat : c = Len(cols) /\ DOMAIN cols = 1..c
  OBVIOUS
<1>2. keys \in Keys
  BY ClausesAssumption
<1>3. Places(keys) \subseteq 1..c
  BY <1>1 DEF Resolve
<1>4. PICK V : V = ToSet(rows)
  OBVIOUS
<1>5. rows \in Seq(V)
  <2>1. PICK W : W = Wide(Len(cols))
    OBVIOUS
  <2>2. PICK n \in Nat : n = Len(rows) /\ DOMAIN rows = 1..n
    BY <2>1
  <2>3. rows \in [1..n -> V]
    BY <1>4, <2>1, <2>2 DEF ToSet
  <2>4. QED
    BY <2>3
<1>6. PICK s \in Seq(V) : s = SortRows(rows, keys) /\ \A P : CountIn(s, P) = CountIn(rows, P)
  BY <1>5, SortedCounts
<1>7. ASSUME NEW r PROVE Occurrences(r, s) = Occurrences(r, rows)
  <2>1. Occurrences(r, s) = CountIn(s, {r}) /\ Occurrences(r, rows) = CountIn(rows, {r})
    BY DEF Occurrences, CountIn
  <2>2. QED
    BY <1>6, <2>1
<1>8. ASSUME \A at \in Places(keys) : Uniform(at)
      PROVE  /\ \A p, q \in DOMAIN s : p < q => Compare(s[p], s[q], keys) <= 0
             /\ \A r \in ToSet(rows) : PeersOf(s, r, keys) = PeersOf(rows, r, keys)
  <2>1. Sortable(V, keys)
    BY <1>1, <1>2, <1>3, <1>4, <1>8, UniformSorts
  <2>2. Ranked(V, keys)
    BY <2>1, SortableRanks
  <2>3. InOrder(s, keys)
    BY <1>5, <1>6, <2>2, SortedInOrder
  <2>4. \A p, q \in DOMAIN s : p < q => Compare(s[p], s[q], keys) <= 0
    <3>1. DOMAIN s = 1..Len(s)
      OBVIOUS
    <3>2. QED
      BY <2>3, <3>1 DEF InOrder
  <2>5. ASSUME NEW r \in V PROVE PeersOf(s, r, keys) = PeersOf(rows, r, keys)
    <3>1. PICK E : E = {y \in V : Compare(y, r, keys) = 0}
      OBVIOUS
    <3>2. Peers(E, r, V, keys)
      BY <3>1 DEF Peers
    <3>3. Only(s, E) = Only(rows, E)
      BY <1>5, <1>6, <2>2, <3>2, SortedStably
    <3>4. PeersOf(s, r, keys) = Only(s, E) /\ PeersOf(rows, r, keys) = Only(rows, E)
      BY <1>5, <3>1, PeersAre
    <3>5. QED
      BY <3>3, <3>4
  <2>6. QED
    BY <1>4, <2>4, <2>5
<1>9. ASSUME NEW n \in 1..MaxPage PROVE FlattenSeq(Pages(s, n)) = s
  <2>1. n \in Nat \ {0}
    BY BoundsAssumption
  <2>2. QED
    BY <2>1, PagesMakeUp
<1>10. QED
  BY <1>6, <1>7, <1>8, <1>9, Zenon DEF PeersOf

\* SortRowsByKeys loses no row, orders them where the columns of the keys are
\* uniform, keeps equal rows in their order, and ApplyLimitOffset cuts the
\* result into pages that make it up.
THEOREM SortingIsStable == SelectSpec => []SortsStably
  BY InitFresh, NextFresh, InitRectangular, NextRectangular, SortsMean, PTL DEF SelectSpec

----------------------------------------------------------------------------
(* The rows of a partition, sorted                                         *)

\* Numbered rows that are in the order of their numbers.
NumbersRise(s) == \A i, j \in 1..Len(s) : i < j => Last(s[i]) < Last(s[j])

LEMMA OnlyRises ==
  ASSUME NEW V, NEW s \in Seq(V), \A i \in 1..Len(s) : Last(s[i]) = i, NEW S
  PROVE  NumbersRise(Only(s, S))
<1>1. PICK n \in Nat : n = Len(s) /\ \A i \in 1..n : s[i] \in V /\ Last(s[i]) = i
  OBVIOUS
<1>2. PICK f : /\ f[0] = <<>>
               /\ \A i \in 1..n : f[i] = IF s[i] \in S THEN Append(f[i - 1], s[i]) ELSE f[i - 1]
               /\ Only(s, S) = f[n]
  BY <1>1, OnlyIs
<1> DEFINE Good(x, i) == /\ x \in Seq(V) /\ NumbersRise(x)
                         /\ \A k \in 1..Len(x) : Last(x[k]) \in 1..i
           T == {i \in Nat : i <= n => Good(f[i], i)}
<1>3. 0 \in T
  <2>1. <<>> \in Seq(V) /\ Len(<<>>) = 0
    OBVIOUS
  <2>2. Good(<<>>, 0)
    BY <2>1 DEF NumbersRise
  <2>3. QED
    BY <1>2, <2>2
<1>4. ASSUME NEW i \in Nat, i \in T PROVE i + 1 \in T
  <2> SUFFICES ASSUME i + 1 <= n PROVE Good(f[i + 1], i + 1)
    OBVIOUS
  <2>1. i + 1 \in 1..n /\ (i + 1) - 1 = i /\ Good(f[i], i)
    BY <1>4
  <2>2. PICK z \in Seq(V), x \in V : z = f[i] /\ x = s[i + 1] /\ Last(x) = i + 1
    BY <1>1, <2>1
  <2>3. PICK m \in Nat : m = Len(z)
    OBVIOUS
  <2>4. \A k \in 1..m : Last(z[k]) \in 1..i
    BY <2>1, <2>2, <2>3
  <2>5. CASE x \in S
    <3>1. PICK y \in Seq(V) : y = Append(z, x)
      <4>1. Append(z, x) \in Seq(V)
        OBVIOUS
      <4>2. QED
        BY <4>1
    <3>2. Len(y) = m + 1 /\ y[m + 1] = x /\ \A k \in 1..m : y[k] = z[k]
      BY <2>3, <3>1
    <3>3. NumbersRise(y)
      <4>1. ASSUME NEW a \in 1..(m + 1), NEW b \in 1..(m + 1), a < b
            PROVE  Last(y[a]) < Last(y[b])
        <5>1. a \in 1..m
          BY <4>1
        <5>2. CASE b = m + 1
          <6>1. Last(y[a]) \in 1..i /\ Last(y[b]) = i + 1
            BY <2>2, <2>4, <3>2, <5>1, <5>2
          <6>2. QED
            BY <6>1
        <5>3. CASE b # m + 1
          <6>1. b \in 1..m
            BY <5>3
          <6>2. Last(z[a]) < Last(z[b])
            BY <2>1, <2>2, <2>3, <4>1, <5>1, <6>1 DEF NumbersRise
          <6>3. QED
            BY <3>2, <5>1, <6>1, <6>2
        <5>4. QED
          BY <5>2, <5>3
      <4>2. QED
        BY <3>2, <4>1 DEF NumbersRise
    <3>4. ASSUME NEW k \in 1..(m + 1) PROVE Last(y[k]) \in 1..(i + 1)
      <4>1. CASE k = m + 1
        BY <2>2, <3>2, <4>1
      <4>2. CASE k # m + 1
        <5>1. k \in 1..m
          BY <4>2
        <5>2. Last(y[k]) \in 1..i
          BY <2>4, <3>2, <5>1
        <5>3. QED
          BY <5>2
      <4>3. QED
        BY <4>1, <4>2
    <3>5. f[i + 1] = y
      BY <1>2, <2>1, <2>2, <2>5, <3>1
    <3>6. QED
      BY <3>2, <3>3, <3>4, <3>5
  <2>6. CASE x \notin S
    <3>1. f[i + 1] = z
      BY <1>2, <2>1, <2>2, <2>6
    <3>2. ASSUME NEW k \in 1..m PROVE Last(z[k]) \in 1..(i + 1)
      <4>1. Last(z[k]) \in 1..i
        BY <2>4
      <4>2. QED
        BY <4>1
    <3>3. NumbersRise(z)
      BY <2>1, <2>2
    <3>4. QED
      BY <2>3, <3>1, <3>2, <3>3
  <2>7. QED
    BY <2>5, <2>6
<1> HIDE DEF T
<1>5. n \in T
  BY <1>3, <1>4, Induction
<1>6. QED
  BY <1>2, <1>5 DEF T

\* Rows in the order of the keys, equal ones in that of their numbers.
Ahead(a, b, keys) == Compare(a, b, keys) < 0 \/ (Compare(a, b, keys) = 0 /\ Last(a) < Last(b))
Strictly(s, keys) == \A i, j \in 1..Len(s) : i < j => Ahead(s[i], s[j], keys)
Numbers(V) == \A x \in V : Last(x) \in Nat
BehindAll(s, r) == \A i \in 1..Len(s) : Last(s[i]) < Last(r)

LEMMA RankedStrict ==
  ASSUME NEW V, NEW keys, Ranked(V, keys), NEW a \in V, NEW b \in V, NEW c \in V,
         Compare(a, b, keys) <= 0, Compare(b, c, keys) <= 0
  PROVE  /\ Compare(a, c, keys) <= 0
         /\ Compare(a, c, keys) = 0 => Compare(a, b, keys) = 0 /\ Compare(b, c, keys) = 0
         /\ Compare(a, a, keys) = 0
<1>1. PICK ab \in {-1, 0, 1}, bc \in {-1, 0, 1}, ac \in {-1, 0, 1}, aa \in {-1, 0, 1} :
        /\ ab = Compare(a, b, keys) /\ bc = Compare(b, c, keys) /\ ac = Compare(a, c, keys)
        /\ aa = Compare(a, a, keys)
  BY CompareIs
<1>2. PICK ba, cb, ca : /\ ba = Compare(b, a, keys) /\ cb = Compare(c, b, keys)
                        /\ ca = Compare(c, a, keys)
  OBVIOUS
<1>3. ba = -ab /\ cb = -bc /\ ca = -ac /\ aa = -aa
  BY <1>1, <1>2 DEF Ranked
<1>4. ab <= 0 /\ bc <= 0
  BY <1>1
<1>5. ac <= 0
  BY <1>1, <1>4 DEF Ranked
<1>6. ca <= 0 => cb <= 0
  BY <1>1, <1>2, <1>4 DEF Ranked
<1>7. ca <= 0 => ba <= 0
  BY <1>1, <1>2, <1>4 DEF Ranked
<1>8. ac = 0 => ab = 0 /\ bc = 0
  BY <1>1, <1>3, <1>4, <1>6, <1>7
<1>9. aa = 0
  BY <1>1, <1>3
<1>10. QED
  BY <1>1, <1>5, <1>8, <1>9

LEMMA AheadChains ==
  ASSUME NEW V, NEW keys, Ranked(V, keys), Numbers(V), NEW a \in V, NEW b \in V, NEW c \in V,
         Ahead(a, b, keys), Ahead(b, c, keys)
  PROVE  Ahead(a, c, keys)
<1>1. Compare(a, b, keys) <= 0 /\ Compare(b, c, keys) <= 0
  <2>1. Compare(a, b, keys) \in {-1, 0, 1} /\ Compare(b, c, keys) \in {-1, 0, 1}
    BY CompareIs
  <2>2. QED
    BY <2>1 DEF Ahead
<1>2. /\ Compare(a, c, keys) <= 0
      /\ Compare(a, c, keys) = 0 => Compare(a, b, keys) = 0 /\ Compare(b, c, keys) = 0
  BY <1>1, RankedStrict
<1>3. Compare(a, c, keys) \in {-1, 0, 1}
  BY CompareIs
<1>4. CASE Compare(a, c, keys) = 0
  <2>1. Last(a) < Last(b) /\ Last(b) < Last(c)
    BY <1>2, <1>4 DEF Ahead
  <2>2. Last(a) < Last(c)
    BY <2>1 DEF Numbers
  <2>3. QED
    BY <1>4, <2>2 DEF Ahead
<1>5. CASE Compare(a, c, keys) # 0
  BY <1>2, <1>3, <1>5 DEF Ahead
<1>6. QED
  BY <1>4, <1>5

LEMMA InsertedStrictly ==
  ASSUME NEW V, NEW s \in Seq(V), NEW r \in V, NEW keys, Ranked(V, keys), Numbers(V),
         Strictly(s, keys), BehindAll(s, r)
  PROVE  /\ Strictly(Inserted(s, r, keys), keys)
         /\ \A i \in 1..Len(Inserted(s, r, keys)) : Last(Inserted(s, r, keys)[i]) <= Last(r)
<1>1. PICK t \in Seq(V) : t = Inserted(s, r, keys)
  BY InsertedWidens
<1>2. PICK p : Place(s, r, keys, p) /\ Widened(t, s, r, p)
  BY <1>1, InsertedWidens
<1>3. PICK n \in Nat : n = Len(s) /\ p \in 0..n /\ \A i \in 1..n : s[i] \in V
  BY <1>2 DEF Place
<1>4. Len(t) = n + 1
  BY <1>2, <1>3 DEF Widened
<1>5. ASSUME NEW i \in 1..p PROVE Ahead(s[i], r, keys)
  <2>1. i \in 1..n /\ p \in 1..n /\ s[i] \in V /\ s[p] \in V
    BY <1>3
  <2>2. Compare(r, s[p], keys) >= 0 /\ Compare(r, s[p], keys) \in {-1, 0, 1}
    BY <1>2, <2>1, CompareIs DEF Place
  <2>3. Compare(s[p], r, keys) = -Compare(r, s[p], keys)
    BY <2>1 DEF Ranked
  <2>4. Compare(s[p], r, keys) \in {-1, 0}
    BY <2>2, <2>3
  <2>5. Last(s[p]) < Last(r)
    BY <1>3, <2>1 DEF BehindAll
  <2>6. Ahead(s[p], r, keys)
    BY <2>4, <2>5 DEF Ahead
  <2>7. CASE i = p
    BY <2>6, <2>7
  <2>8. CASE i < p
    <3>1. Ahead(s[i], s[p], keys)
      BY <1>3, <2>1, <2>8 DEF Strictly
    <3>2. QED
      BY <2>1, <2>6, <3>1, AheadChains
  <2>9. QED
    BY <1>3, <2>7, <2>8
<1>6. ASSUME NEW i \in (p + 1)..n PROVE Ahead(r, s[i], keys)
  BY <1>2, <1>3 DEF Place, Ahead
<1> DEFINE Old(i) == IF i <= p THEN i ELSE i - 1
<1>7. ASSUME NEW i \in 1..(n + 1), i # p + 1 PROVE Old(i) \in 1..n /\ t[i] = s[Old(i)]
  <2>1. CASE i <= p
    <3>1. i \in 1..p /\ i \in 1..n
      BY <1>3, <2>1
    <3>2. t[i] = s[i]
      BY <1>2, <3>1 DEF Widened
    <3>3. QED
      BY <2>1, <3>1, <3>2
  <2>2. CASE ~(i <= p)
    <3>1. i - 1 \in (p + 1)..n /\ (i - 1) + 1 = i /\ i - 1 \in 1..n
      BY <1>3, <1>7, <2>2
    <3>2. t[(i - 1) + 1] = s[i - 1]
      BY <1>2, <1>3, <3>1 DEF Widened
    <3>3. QED
      BY <2>2, <3>1, <3>2
  <2>3. QED
    BY <2>1, <2>2
<1>8. t[p + 1] = r
  BY <1>2 DEF Widened
<1>9. ASSUME NEW i \in 1..(n + 1), NEW j \in 1..(n + 1), i < j
      PROVE  Ahead(t[i], t[j], keys)
  <2>1. CASE i = p + 1
    <3>1. j - 1 \in (p + 1)..n /\ Old(j) = j - 1 /\ j # p + 1
      BY <1>3, <1>9, <2>1
    <3>2. t[j] = s[j - 1]
      BY <1>7, <3>1
    <3>3. QED
      BY <1>6, <1>8, <2>1, <3>1, <3>2
  <2>2. CASE j = p + 1
    <3>1. i \in 1..p /\ Old(i) = i /\ i # p + 1
      BY <1>3, <1>9, <2>2
    <3>2. t[i] = s[i]
      BY <1>7, <3>1
    <3>3. QED
      BY <1>5, <1>8, <2>2, <3>1, <3>2
  <2>3. CASE i # p + 1 /\ j # p + 1
    <3>1. Old(i) \in 1..n /\ Old(j) \in 1..n /\ t[i] = s[Old(i)] /\ t[j] = s[Old(j)]
      BY <1>7, <2>3
    <3>2. Old(i) < Old(j)
      BY <1>3, <1>9, <2>3
    <3> HIDE DEF Old
    <3>3. QED
      BY <1>3, <3>1, <3>2 DEF Strictly
  <2>4. QED
    BY <2>1, <2>2, <2>3
<1>10. Strictly(t, keys)
  BY <1>4, <1>9 DEF Strictly
<1>11. ASSUME NEW i \in 1..(n + 1) PROVE Last(t[i]) <= Last(r)
  <2>1. Last(r) \in Nat
    BY DEF Numbers
  <2>2. CASE i = p + 1
    BY <1>8, <2>1, <2>2
  <2>3. CASE i # p + 1
    <3>1. PICK k \in 1..n : t[i] = s[k]
      BY <1>7, <2>3
    <3>2. Last(s[k]) < Last(r) /\ Last(s[k]) \in Nat
      BY <1>3 DEF BehindAll, Numbers
    <3>3. QED
      BY <2>1, <3>1, <3>2
  <2>4. QED
    BY <2>2, <2>3
<1>12. QED
  BY <1>1, <1>4, <1>10, <1>11

LEMMA SortedStrictly ==
  ASSUME NEW V, NEW rs \in Seq(V), NEW keys, Ranked(V, keys), Numbers(V), NumbersRise(rs)
  PROVE  Strictly(SortRows(rs, keys), keys)
<1>1. PICK n \in Nat : n = Len(rs) /\ \A i \in 1..n : rs[i] \in V
  OBVIOUS
<1>2. PICK f : Sorting(f, rs, keys, n, V) /\ SortRows(rs, keys) = f[n]
  BY <1>1, SortRowsIs
<1> DEFINE Seen(x, i) == \A k \in 1..Len(x) : \E j \in 1..i : Last(x[k]) <= Last(rs[j])
           T == {i \in Nat : i <= n => Strictly(f[i], keys) /\ Seen(f[i], i)}
<1>3. 0 \in T
  <2>1. f[0] = <<>> /\ Len(<<>>) = 0
    BY <1>2 DEF Sorting
  <2>2. Strictly(<<>>, keys) /\ Seen(<<>>, 0)
    BY <2>1 DEF Strictly
  <2>3. QED
    BY <2>1, <2>2
<1>4. ASSUME NEW i \in Nat, i \in T PROVE i + 1 \in T
  <2> SUFFICES ASSUME i + 1 <= n PROVE Strictly(f[i + 1], keys) /\ Seen(f[i + 1], i + 1)
    OBVIOUS
  <2>1. i + 1 \in 1..n /\ (i + 1) - 1 = i /\ i \in 0..n
    OBVIOUS
  <2>2. PICK s \in Seq(V) : s = f[i]
    BY <1>2, <2>1 DEF Sorting
  <2>3. PICK r \in V : r = rs[i + 1]
    BY <1>1, <2>1
  <2>4. f[i + 1] = Inserted(s, r, keys)
    BY <1>2, <2>1, <2>2, <2>3 DEF Sorting
  <2>5. Strictly(s, keys) /\ Seen(s, i)
    BY <1>4, <2>1, <2>2
  <2>6. BehindAll(s, r)
    <3>1. ASSUME NEW k \in 1..Len(s) PROVE Last(s[k]) < Last(r)
      <4>1. PICK j \in 1..i : Last(s[k]) <= Last(rs[j])
        BY <2>5
      <4>2. j \in 1..n /\ j < i + 1
        BY <2>1
      <4>3. Last(rs[j]) < Last(r)
        BY <1>1, <2>1, <2>3, <4>2 DEF NumbersRise
      <4>4. s[k] \in V /\ rs[j] \in V
        BY <1>1, <4>2
      <4>5. Last(s[k]) \in Nat /\ Last(rs[j]) \in Nat /\ Last(r) \in Nat
        BY <4>4 DEF Numbers
      <4>6. QED
        BY <4>1, <4>3, <4>5
    <3>2. QED
      BY <3>1 DEF BehindAll
  <2>7. PICK t : t = Inserted(s, r, keys)
    OBVIOUS
  <2>8. Strictly(t, keys) /\ \A k \in 1..Len(t) : Last(t[k]) <= Last(r)
    BY <2>5, <2>6, <2>7, InsertedStrictly
  <2>9. i + 1 \in 1..(i + 1)
    OBVIOUS
  <2>10. QED
    BY <2>3, <2>4, <2>7, <2>8, <2>9
<1> HIDE DEF T
<1>5. n \in T
  BY <1>3, <1>4, Induction
<1>6. QED
  BY <1>2, <1>5 DEF T

\* Rows compare by the cells the keys name.
LEMMA ComparesAs ==
  ASSUME NEW keys \in Keys, NEW r, NEW s, NEW a, NEW b,
         \A at \in Places(keys) : r[at] = a[at] /\ s[at] = b[at]
  PROVE  Compare(r, s, keys) = Compare(a, b, keys)
<1>1. PICK n \in Nat : n = Len(keys) /\ DOMAIN keys = 1..n
  BY KeysHave
<1>2. ASSUME NEW k \in 1..n PROVE Term(r, s, keys, k) = Term(a, b, keys, k)
  <2>1. keys[k].at \in Places(keys)
    BY <1>1 DEF Places
  <2>2. r[keys[k].at] = a[keys[k].at] /\ s[keys[k].at] = b[keys[k].at]
    BY <2>1
  <2>3. QED
    BY <2>2 DEF Term
<1>3. CASE \A k \in 1..n : Term(r, s, keys, k) = 0
  <2>1. Compare(r, s, keys) = 0
    <3>1. \/ Compare(r, s, keys) = 0
          \/ \E m : FirstTerm(r, s, keys, m)
      BY <1>1, FirstApart
    <3>2. QED
      BY <1>1, <1>3, <3>1 DEF FirstTerm
  <2>2. Compare(a, b, keys) = 0
    <3>1. \/ Compare(a, b, keys) = 0
          \/ \E m : FirstTerm(a, b, keys, m)
      BY <1>1, FirstApart
    <3>2. QED
      BY <1>1, <1>2, <1>3, <3>1 DEF FirstTerm
  <2>3. QED
    BY <2>1, <2>2
<1>4. CASE ~ \A k \in 1..n : Term(r, s, keys, k) = 0
  <2>1. PICK m : FirstTerm(r, s, keys, m)
    BY <1>1, <1>4, FirstApart
  <2>2. m \in 1..n /\ Term(r, s, keys, m) # 0 /\ Compare(r, s, keys) = Term(r, s, keys, m)
    BY <1>1, <2>1 DEF FirstTerm
  <2>3. \A k \in 1..n : k < m => Term(a, b, keys, k) = 0
    BY <1>1, <1>2, <2>1 DEF FirstTerm
  <2>4. Term(a, b, keys, m) = 0 \/ Compare(a, b, keys) = Term(a, b, keys, m)
    BY <1>1, <2>2, <2>3, FirstIs
  <2>5. QED
    BY <1>2, <2>2, <2>4
<1>5. QED
  BY <1>3, <1>4

\* The partition of the row at p: its rows, each once, as they are compared.
Arranged(s, V, w, p, c) ==
  /\ V \subseteq NumberedRows(c) /\ Ranked(V, w.keys) /\ Numbers(V) /\ Strictly(s, w.keys)
  /\ \A i \in 1..Len(s) : /\ Last(s[i]) \in 1..Len(rows) /\ Same(w, p, Last(s[i]))
                          /\ s[i] = Numbered(rows)[Last(s[i])]
                          /\ \A k \in 1..c : s[i][k] = rows[Last(s[i])][k]
  /\ \A q \in 1..Len(rows) : Same(w, p, q) => \E i \in 1..Len(s) : Last(s[i]) = q
  /\ \A i, j \in 1..Len(s) : Compare(s[i], s[j], w.keys) = Cmp(w, Last(s[i]), Last(s[j]))

\* A window of the rows can be computed and compared.
Windowed(w, c) ==
  /\ rows \in Seq(Wide(c)) /\ w.part \in Seq(1..c) /\ w.keys \in Keys
  /\ Places(w.keys) \subseteq 1..c /\ \A at \in Places(w.keys) : Uniform(at)
  /\ w.arg \in 0..c

LEMMA NumberedRanks ==
  ASSUME NEW c \in Nat, NEW w, Windowed(w, c)
  PROVE  /\ Ranked(ToSet(Numbered(rows)), w.keys) /\ Numbers(ToSet(Numbered(rows)))
         /\ Numbered(rows) \in Seq(ToSet(Numbered(rows)))
         /\ ToSet(Numbered(rows)) \subseteq NumberedRows(c)
         /\ \A q \in 1..Len(rows) : KeyOf(Numbered(rows)[q], w.part) = KeyOf(rows[q], w.part)
<1> USE DEF Windowed
<1>1. PICK W : W = NumberedRows(c)
  OBVIOUS
<1>2. PICK n \in Nat : n = Len(rows) /\ DOMAIN rows = 1..n
  OBVIOUS
<1>3. PICK f \in Seq(W) : /\ f = Numbered(rows) /\ Len(f) = n
                          /\ \A q \in 1..n : Last(f[q]) = q /\ \A k \in 1..c : f[q][k] = rows[q][k]
  BY <1>1, <1>2, NumberedType
<1>4. PICK V : V = ToSet(f)
  OBVIOUS
<1>5. DOMAIN f = 1..n /\ \A r \in V : \E q \in 1..n : r = f[q]
  BY <1>3, <1>4 DEF ToSet
<1>6. f \in Seq(V) /\ V \subseteq W
  <2>1. f \in [1..n -> V]
    <3>1. \A q \in 1..n : f[q] \in V
      BY <1>4, <1>5 DEF ToSet
    <3>2. QED
      BY <1>5, <3>1
  <2>2. \A q \in 1..n : f[q] \in W
    BY <1>3
  <2>3. QED
    BY <1>5, <2>1, <2>2
<1>7. Numbers(V)
  BY <1>3, <1>5 DEF Numbers
<1>8. Sortable(V, w.keys)
  <2>1. Sortable(ToSet(rows), w.keys)
    BY UniformSorts
  <2>2. ASSUME NEW k \in DOMAIN w.keys, NEW r \in V, NEW s \in V
        PROVE  r[w.keys[k].at] \in Cell /\ Alike(r[w.keys[k].at], s[w.keys[k].at])
    <3>1. PICK at \in 1..c : at = w.keys[k].at
      BY DEF Places
    <3>2. PICK q \in 1..n : r = f[q]
      BY <1>5
    <3>3. PICK t \in 1..n : s = f[t]
      BY <1>5
    <3>4. r[at] = rows[q][at] /\ s[at] = rows[t][at]
      BY <1>3, <3>1, <3>2, <3>3
    <3>5. rows[q] \in ToSet(rows) /\ rows[t] \in ToSet(rows)
      BY <1>2 DEF ToSet
    <3>6. rows[q][at] \in Cell /\ Alike(rows[q][at], rows[t][at])
      BY <2>1, <3>1, <3>5 DEF Sortable
    <3>7. QED
      BY <3>1, <3>4, <3>6
  <2>3. QED
    BY <2>2 DEF Sortable
<1>9. Ranked(V, w.keys)
  BY <1>8, SortableRanks
<1>10. ASSUME NEW q \in 1..n PROVE KeyOf(f[q], w.part) = KeyOf(rows[q], w.part)
  <2>1. \A k \in DOMAIN w.part : w.part[k] \in 1..c
    OBVIOUS
  <2>2. QED
    BY <1>3, <2>1 DEF KeyOf
<1>11. QED
  BY <1>1, <1>2, <1>3, <1>4, <1>6, <1>7, <1>9, <1>10

\* The rows of a selection are the selected rows.
LEMMA SelectedAre ==
  ASSUME NEW V, NEW rs \in Seq(V), NEW S, NEW keys
  PROVE  /\ SortRows(Only(rs, S), keys) \in Seq(V)
         /\ \A i \in 1..Len(SortRows(Only(rs, S), keys)) : SortRows(Only(rs, S), keys)[i] \in S
<1>1. PICK t \in Seq(V) : t = Only(rs, S) /\ \A i \in DOMAIN t : t[i] \in S
  BY OnlyCounts, OnlyMembers
<1>2. PICK n \in Nat : n = Len(t) /\ DOMAIN t = 1..n
  OBVIOUS
<1>3. PICK W : W = S \cap V
  OBVIOUS
<1>4. t \in Seq(W)
  <2>1. t \in [1..n -> W]
    BY <1>1, <1>2, <1>3
  <2>2. QED
    BY <2>1
<1>5. PICK s \in Seq(W) : s = SortRows(t, keys)
  BY <1>4, SortedCounts
<1>6. \A i \in 1..Len(s) : s[i] \in S
  BY <1>3
<1>7. s \in Seq(V)
  BY <1>1, <1>5, SortedCounts
<1>8. QED
  BY <1>1, <1>5, <1>6, <1>7

LEMMA PartitionIs ==
  ASSUME NEW c \in Nat, NEW w, Windowed(w, c), NEW p \in 1..Len(rows)
  PROVE  \E V : /\ Partition(w, rows, KeyOf(rows[p], w.part)) \in Seq(V)
                /\ Arranged(Partition(w, rows, KeyOf(rows[p], w.part)), V, w, p, c)
<1>1. PICK n \in Nat : n = Len(rows) /\ DOMAIN rows = 1..n /\ rows \in Seq(Wide(c))
  BY DEF Windowed
<1>2. PICK V : V = ToSet(Numbered(rows))
  OBVIOUS
<1>3. PICK f \in Seq(V) : f = Numbered(rows)
  BY <1>2, NumberedRanks
<1>4. Len(f) = n /\ \A q \in 1..n : Last(f[q]) = q /\ \A k \in 1..c : f[q][k] = rows[q][k]
  BY <1>1, <1>3, NumberedType
<1>5. /\ Ranked(V, w.keys) /\ Numbers(V) /\ V \subseteq NumberedRows(c)
      /\ \A q \in 1..n : KeyOf(f[q], w.part) = KeyOf(rows[q], w.part)
  BY <1>1, <1>2, <1>3, NumberedRanks
<1>6. PICK S : S = {r \in ToSet(f) : KeyOf(r, w.part) = KeyOf(rows[p], w.part)}
  OBVIOUS
<1>7. PICK t \in Seq(V) : t = Only(f, S)
  BY OnlyCounts
<1>8. PICK s \in Seq(V) : s = SortRows(t, w.keys) /\ \A i \in 1..Len(s) : s[i] \in S
  BY <1>7, SelectedAre
<1>9. s = Partition(w, rows, KeyOf(rows[p], w.part))
  BY <1>3, <1>6, <1>7, <1>8 DEF Partition
<1>10. Strictly(s, w.keys)
  <2>1. NumbersRise(t)
    BY <1>4, <1>7, OnlyRises
  <2>2. QED
    BY <1>5, <1>8, <2>1, SortedStrictly
<1>11. ASSUME NEW i \in 1..Len(s)
       PROVE  /\ Last(s[i]) \in 1..n /\ Same(w, p, Last(s[i]))
              /\ s[i] = Numbered(rows)[Last(s[i])]
              /\ \A k \in 1..c : s[i][k] = rows[Last(s[i])][k]
  <2>1. s[i] \in ToSet(f) /\ KeyOf(s[i], w.part) = KeyOf(rows[p], w.part)
    BY <1>6, <1>8
  <2>2. PICK q \in 1..n : s[i] = f[q]
    BY <1>4, <2>1 DEF ToSet
  <2>3. Last(s[i]) = q
    BY <1>4, <2>2
  <2>4. KeyOf(rows[p], w.part) = KeyOf(rows[q], w.part)
    BY <1>5, <2>1, <2>2
  <2>5. QED
    BY <1>3, <1>4, <2>2, <2>3, <2>4 DEF Same
<1>12. ASSUME NEW q \in 1..n, Same(w, p, q) PROVE \E i \in 1..Len(s) : Last(s[i]) = q
  <2>1. f[q] \in S
    <3>1. f[q] \in ToSet(f)
      BY <1>4 DEF ToSet
    <3>2. KeyOf(f[q], w.part) = KeyOf(rows[p], w.part)
      BY <1>5, <1>12 DEF Same
    <3>3. QED
      BY <1>6, <3>1, <3>2
  <2>2. PICK i \in 1..Len(s) : s[i] = f[q]
    <3>1. q \in 1..Len(f)
      BY <1>4
    <3>2. QED
      BY <1>7, <1>8, <2>1, <3>1, SelectedHas
  <2>3. QED
    BY <1>4, <2>2
<1>13. ASSUME NEW i \in 1..Len(s), NEW j \in 1..Len(s)
       PROVE  Compare(s[i], s[j], w.keys) = Cmp(w, Last(s[i]), Last(s[j]))
  <2>1. w.keys \in Keys /\ Places(w.keys) \subseteq 1..c
    BY DEF Windowed
  <2>2. PICK a, b : a = rows[Last(s[i])] /\ b = rows[Last(s[j])]
    OBVIOUS
  <2>3. \A at \in Places(w.keys) : s[i][at] = a[at] /\ s[j][at] = b[at]
    BY <1>11, <2>1, <2>2
  <2>4. Compare(s[i], s[j], w.keys) = Compare(a, b, w.keys)
    BY <2>1, <2>3, ComparesAs
  <2>5. QED
    BY <2>2, <2>4 DEF Cmp
<1>14. Arranged(s, V, w, p, c)
  BY <1>1, <1>5, <1>10, <1>11, <1>12, <1>13 DEF Arranged
<1>15. QED
  BY <1>9, <1>14

----------------------------------------------------------------------------
(* Ranks                                                                   *)

LEMMA StartsSplit ==
  ASSUME NEW st, NEW rs, NEW keys, NEW n \in Nat, Grouped(st, rs, keys, n),
         NEW k \in 1..n, NEW g \in 1..Len(st)
  PROVE  k < st[g] <=> GroupOf(st, k) < g
<1>1. PICK m \in Nat : m = Len(st) /\ \A i \in 1..m : st[i] \in 1..n
  BY DEF Grouped
<1>2. PICK x \in 1..m : /\ x = GroupOf(st, k) /\ st[x] \in 1..k
                        /\ \A j \in 1..m : x < j => k < st[j]
  BY <1>1, GroupOfIs
<1>3. CASE x < g
  BY <1>1, <1>2, <1>3
<1>4. CASE ~(x < g)
  <2>1. g < x => st[g] < st[x]
    BY <1>1, <1>2 DEF Grouped
  <2>2. st[g] \in Nat /\ st[x] \in Nat /\ st[x] <= k
    BY <1>1, <1>2
  <2>3. g = x \/ g < x
    BY <1>1, <1>2, <1>4
  <2>4. ~(k < st[g])
    BY <2>1, <2>2, <2>3
  <2>5. QED
    BY <1>2, <1>4, <2>4
<1>5. QED
  BY <1>3, <1>4

LEMMA EndSplits ==
  ASSUME NEW st, NEW rs, NEW keys, NEW n \in Nat, Grouped(st, rs, keys, n),
         NEW k \in 1..n, NEW g \in 1..Len(st)
  PROVE  k <= EndOf(st, g, n) <=> GroupOf(st, k) <= g
<1>1. PICK m \in Nat : m = Len(st) /\ \A i \in 1..m : st[i] \in 1..n
  BY DEF Grouped
<1>2. PICK x \in 1..m : x = GroupOf(st, k)
  BY <1>1, GroupOfIs
<1>3. CASE g = m
  BY <1>1, <1>2, <1>3 DEF EndOf
<1>4. CASE g # m
  <2>1. g + 1 \in 1..m
    BY <1>1, <1>4
  <2>2. k < st[g + 1] <=> x < g + 1
    BY <1>1, <1>2, <2>1, StartsSplit
  <2>3. EndOf(st, g, n) = st[g + 1] - 1 /\ st[g + 1] \in Nat
    BY <1>1, <1>4, <2>1 DEF EndOf
  <2>4. QED
    BY <1>1, <1>2, <2>2, <2>3
<1>5. QED
  BY <1>3, <1>4

\* Groups come one after the other.
LEMMA StartsOrder ==
  ASSUME NEW V, NEW s \in Seq(V), NEW keys, Ranked(V, keys), Strictly(s, keys),
         NEW st, Grouped(st, s, keys, Len(s)), NEW a \in 1..Len(st), NEW b \in 1..Len(st), a < b
  PROVE  Compare(s[st[a]], s[st[b]], keys) < 0
<1>1. PICK n \in Nat : n = Len(s) /\ \A i \in 1..n : s[i] \in V
  OBVIOUS
<1>2. PICK m \in Nat : m = Len(st) /\ \A i \in 1..m : st[i] \in 1..n
  BY <1>1 DEF Grouped
<1>3. \A i, j \in 1..n : i < j => Compare(s[i], s[j], keys) <= 0
  <2>1. \A i, j \in 1..n : Compare(s[i], s[j], keys) \in {-1, 0, 1}
    BY CompareIs
  <2>2. QED
    BY <1>1, <2>1 DEF Strictly, Ahead
<1>4. PICK d \in 1..m : d + 1 = b
  <2>1. b - 1 \in 1..m /\ (b - 1) + 1 = b
    BY <1>2
  <2>2. QED
    BY <2>1
<1>5. PICK x \in V, y \in V, z \in V : x = s[st[a]] /\ y = s[st[d]] /\ z = s[st[b]]
  BY <1>1, <1>2
<1>6. Compare(x, x, keys) = 0
  <2>1. Compare(x, x, keys) \in {-1, 0, 1} /\ Compare(x, x, keys) = -Compare(x, x, keys)
    BY CompareIs DEF Ranked
  <2>2. QED
    BY <2>1
<1>7. Compare(x, y, keys) <= 0
  <2>1. CASE a = d
    BY <1>5, <1>6, <2>1
  <2>2. CASE a # d
    <3>1. a < d
      BY <1>4, <2>2
    <3>2. st[a] < st[d]
      BY <1>2, <3>1 DEF Grouped
    <3>3. QED
      BY <1>2, <1>3, <1>5, <3>2
  <2>3. QED
    BY <2>1, <2>2
<1>8. Compare(y, z, keys) <= 0 /\ Compare(y, z, keys) # 0
  <2>1. st[d] < st[b]
    BY <1>2, <1>4 DEF Grouped
  <2>2. Compare(s[st[d]], s[st[b]], keys) # 0
    BY <1>2, <1>4 DEF Grouped
  <2>3. QED
    BY <1>2, <1>3, <1>5, <2>1, <2>2
<1>9. /\ Compare(x, z, keys) <= 0
      /\ Compare(x, z, keys) = 0 => Compare(y, z, keys) = 0
  BY <1>7, <1>8, RankedStrict
<1>10. Compare(x, z, keys) \in {-1, 0, 1}
  BY CompareIs
<1>11. QED
  BY <1>5, <1>8, <1>9, <1>10

LEMMA StartIsPeer ==
  ASSUME NEW V, NEW s \in Seq(V), NEW keys, Ranked(V, keys),
         NEW st, Grouped(st, s, keys, Len(s)), NEW i \in 1..Len(s)
  PROVE  Compare(s[st[GroupOf(st, i)]], s[i], keys) = 0
<1>1. PICK n \in Nat : n = Len(s) /\ \A k \in 1..n : s[k] \in V
  OBVIOUS
<1>2. PICK x \in 1..Len(st) : /\ x = GroupOf(st, i) /\ st[x] \in 1..i
                              /\ \A j \in 1..Len(st) : x < j => i < st[j]
  BY <1>1, GroupOfIs
<1>3. CASE st[x] < i
  BY <1>1, <1>2, <1>3 DEF Grouped
<1>4. CASE st[x] = i
  <2>1. PICK v \in V : v = s[i]
    BY <1>1
  <2>2. Compare(v, v, keys) \in {-1, 0, 1} /\ Compare(v, v, keys) = -Compare(v, v, keys)
    BY CompareIs DEF Ranked
  <2>3. Compare(v, v, keys) = 0
    BY <2>2
  <2>4. QED
    BY <1>2, <1>4, <2>1, <2>3
<1>5. QED
  BY <1>2, <1>3, <1>4

LEMMA PeersFlip ==
  ASSUME NEW V, NEW keys, Ranked(V, keys), NEW a \in V, NEW b \in V, Compare(a, b, keys) = 0
  PROVE  Compare(b, a, keys) = 0
<1>1. PICK x \in {-1, 0, 1}, y \in {-1, 0, 1} : x = Compare(a, b, keys) /\ y = Compare(b, a, keys)
  BY CompareIs
<1>2. y = -x
  BY <1>1 DEF Ranked
<1>3. x <= 0 /\ x >= 0
  BY <1>1
<1>4. y <= 0 /\ y >= 0
  BY <1>2, <1>3
<1>5. QED
  BY <1>1, <1>4

\* Groups tell rows apart as the keys do.
LEMMA GroupsTell ==
  ASSUME NEW V, NEW s \in Seq(V), NEW keys, Ranked(V, keys), Strictly(s, keys),
         NEW st, Grouped(st, s, keys, Len(s)), NEW i \in 1..Len(s), NEW j \in 1..Len(s)
  PROVE  /\ Compare(s[i], s[j], keys) < 0 <=> GroupOf(st, i) < GroupOf(st, j)
         /\ Compare(s[i], s[j], keys) = 0 <=> GroupOf(st, i) = GroupOf(st, j)
<1>1. PICK n \in Nat : n = Len(s) /\ \A k \in 1..n : s[k] \in V
  OBVIOUS
<1>2. PICK m \in Nat : m = Len(st) /\ \A k \in 1..m : st[k] \in 1..n
  BY <1>1 DEF Grouped
<1>3. \A k \in 1..n : /\ GroupOf(st, k) \in 1..m
                      /\ Compare(s[st[GroupOf(st, k)]], s[k], keys) = 0
  BY <1>1, <1>2, GroupOfIs, StartIsPeer
<1>4. \A u, v \in V : Compare(u, v, keys) \in {-1, 0, 1}
  BY CompareIs
<1>5. ASSUME NEW k \in 1..n, NEW l \in 1..n, GroupOf(st, k) <= GroupOf(st, l)
      PROVE  /\ GroupOf(st, k) = GroupOf(st, l) => Compare(s[k], s[l], keys) = 0
             /\ GroupOf(st, k) < GroupOf(st, l) => Compare(s[k], s[l], keys) < 0
  <2>1. PICK a \in 1..m, b \in 1..m : a = GroupOf(st, k) /\ b = GroupOf(st, l)
    BY <1>3
  <2>2. PICK x \in V, y \in V, u \in V, v \in V :
          x = s[st[a]] /\ y = s[st[b]] /\ u = s[k] /\ v = s[l]
    BY <1>1, <1>2
  <2>3. Compare(x, u, keys) = 0 /\ Compare(y, v, keys) = 0
    BY <1>3, <2>1, <2>2
  <2>4. Compare(u, x, keys) = 0 /\ Compare(v, y, keys) = 0
    BY <2>3, PeersFlip
  <2>5. CASE a = b
    <3>1. x = y
      BY <2>2, <2>5
    <3>2. Compare(u, v, keys) <= 0
      <4>1. Compare(u, x, keys) <= 0 /\ Compare(x, v, keys) <= 0
        BY <2>3, <2>4, <3>1
      <4>2. QED
        BY <4>1, RankedStrict
    <3>3. Compare(v, u, keys) <= 0
      <4>1. Compare(v, x, keys) <= 0 /\ Compare(x, u, keys) <= 0
        BY <2>3, <2>4, <3>1
      <4>2. QED
        BY <4>1, RankedStrict
    <3>4. Compare(v, u, keys) = -Compare(u, v, keys)
      BY DEF Ranked
    <3>5. Compare(u, v, keys) = 0
      BY <1>4, <3>2, <3>3, <3>4
    <3>6. QED
      BY <2>1, <2>2, <2>5, <3>5
  <2>6. CASE a < b
    <3>1. Compare(x, y, keys) < 0
      BY <1>2, <2>2, <2>6, StartsOrder
    <3>2. Compare(x, y, keys) <= 0 /\ Compare(x, y, keys) # 0
      BY <1>4, <3>1
    <3>3. /\ Compare(u, y, keys) <= 0
          /\ Compare(u, y, keys) = 0 => Compare(x, y, keys) = 0
      BY <2>4, <3>2, RankedStrict
    <3>4. /\ Compare(u, v, keys) <= 0
          /\ Compare(u, v, keys) = 0 => Compare(u, y, keys) = 0
      BY <2>3, <3>3, RankedStrict
    <3>5. Compare(u, v, keys) < 0
      BY <1>4, <3>2, <3>3, <3>4
    <3>6. QED
      BY <2>1, <2>2, <2>6, <3>5
  <2>7. QED
    BY <1>5, <2>1, <2>5, <2>6
<1>6. PICK a \in 1..m, b \in 1..m : a = GroupOf(st, i) /\ b = GroupOf(st, j)
  BY <1>1, <1>3
<1>7. PICK u \in V, v \in V : u = s[i] /\ v = s[j]
  BY <1>1
<1>8. Compare(v, u, keys) = -Compare(u, v, keys) /\ Compare(u, v, keys) \in {-1, 0, 1}
  BY <1>4 DEF Ranked
<1>9. CASE a <= b
  <2>1. /\ a = b => Compare(u, v, keys) = 0
        /\ a < b => Compare(u, v, keys) < 0
    BY <1>1, <1>5, <1>6, <1>7, <1>9
  <2>2. QED
    BY <1>6, <1>7, <1>8, <1>9, <2>1
<1>10. CASE b < a
  <2>1. Compare(v, u, keys) < 0
    BY <1>1, <1>5, <1>6, <1>7, <1>10
  <2>2. QED
    BY <1>6, <1>7, <1>8, <1>10, <2>1
<1>11. QED
  BY <1>9, <1>10

\* What a sequence of different things holds as far as m.
Through(h, m) == {h[i] : i \in 1..m}
Apart(h, m) == \A i, j \in 1..m : h[i] = h[j] => i = j

LEMMA ThroughCount ==
  ASSUME NEW h, NEW m \in Nat, Apart(h, m)
  PROVE  IsFiniteSet(Through(h, m)) /\ Cardinality(Through(h, m)) = m
<1>1. PICK I : I = {h[i] : i \in 1..m}
  OBVIOUS
<1>2. PICK f : f = [i \in 1..m |-> h[i]]
  OBVIOUS
<1>3. f \in Bijection(1..m, I)
  <2>1. PICK D : D = 1..m
    OBVIOUS
  <2>2. f \in [D -> I] /\ \A i, j \in D : f[i] = f[j] => i = j
    BY <1>1, <1>2, <2>1 DEF Apart
  <2>3. \A x \in I : \E i \in D : f[i] = x
    BY <1>1, <1>2, <2>1
  <2>4. QED
    BY <2>1, <2>2, <2>3, Fun_IsBij
<1>4. IsFiniteSet(1..m) /\ Cardinality(1..m) = m
  BY FS_Interval
<1>5. ExistsBijection(1..m, I)
  BY <1>3 DEF ExistsBijection
<1>6. QED
  BY <1>1, <1>4, <1>5, FS_Bijection DEF Through

\* The numbers of a partition's rows, in their order.
Placed(h, w, p, n) ==
  /\ h \in [1..n -> 1..Len(rows)] /\ \A i, j \in 1..n : h[i] = h[j] => i = j
  /\ \A i \in 1..n : Same(w, p, h[i])
  /\ \A q \in 1..Len(rows) : Same(w, p, q) => \E i \in 1..n : h[i] = q
  /\ \A i, j \in 1..n : i < j => Cmp(w, h[i], h[j]) < 0 \/ (Cmp(w, h[i], h[j]) = 0 /\ h[i] < h[j])

\* How the groups of peers tell the rows apart.
Told(h, st, w, n) ==
  \A i, j \in 1..n : /\ Cmp(w, h[i], h[j]) < 0 <=> GroupOf(st, i) < GroupOf(st, j)
                     /\ Cmp(w, h[i], h[j]) = 0 <=> GroupOf(st, i) = GroupOf(st, j)

\* What EvalWindow sees of the row at p: its partition s, its place at in it,
\* and where the groups of peers start.
Watched(s, V, h, st, at, w, p, c) ==
  /\ s \in Seq(V) /\ V \subseteq NumberedRows(c) /\ at \in 1..Len(s)
  /\ s = Partition(w, rows, KeyOf(rows[p], w.part))
  /\ st = Starts(s, w.keys) /\ Grouped(st, s, w.keys, Len(s))
  /\ EvalWindow(w, rows)[p] = WindowValues(w, s)[at] /\ at \in DOMAIN s
  /\ Placed(h, w, p, Len(s)) /\ h[at] = p /\ Told(h, st, w, Len(s))
  /\ \A i \in 1..Len(s) : s[i] = Numbered(rows)[h[i]] /\ \A k \in 1..c : s[i][k] = rows[h[i]][k]

LEMMA RowIsSeen ==
  ASSUME NEW c \in Nat, NEW w, Windowed(w, c), NEW p \in 1..Len(rows)
  PROVE  \E s, V, h, st, at : Watched(s, V, h, st, at, w, p, c)
<1>1. PICK L \in Nat : L = Len(rows) /\ DOMAIN rows = 1..L
  BY DEF Windowed
<1>2. PICK V : /\ Partition(w, rows, KeyOf(rows[p], w.part)) \in Seq(V)
               /\ Arranged(Partition(w, rows, KeyOf(rows[p], w.part)), V, w, p, c)
  BY PartitionIs
<1>3. PICK s \in Seq(V) : /\ s = Partition(w, rows, KeyOf(rows[p], w.part))
                          /\ Arranged(s, V, w, p, c)
  BY <1>2
<1>4. PICK n \in Nat : n = Len(s) /\ DOMAIN s = 1..n /\ \A i \in 1..n : s[i] \in V
  OBVIOUS
<1>5. PICK h : h = [i \in 1..n |-> Last(s[i])]
  OBVIOUS
<1>6. /\ V \subseteq NumberedRows(c) /\ Ranked(V, w.keys) /\ Numbers(V) /\ Strictly(s, w.keys)
      /\ \A i \in 1..n : /\ h[i] \in 1..L /\ Same(w, p, h[i]) /\ s[i] = Numbered(rows)[h[i]]
                         /\ \A k \in 1..c : s[i][k] = rows[h[i]][k]
      /\ \A q \in 1..L : Same(w, p, q) => \E i \in 1..n : h[i] = q
      /\ \A i, j \in 1..n : Compare(s[i], s[j], w.keys) = Cmp(w, h[i], h[j])
  BY <1>1, <1>3, <1>4, <1>5 DEF Arranged
<1>7. \A i, j \in 1..n : i < j => Cmp(w, h[i], h[j]) < 0 \/ (Cmp(w, h[i], h[j]) = 0 /\ h[i] < h[j])
  <2>1. ASSUME NEW i \in 1..n, NEW j \in 1..n, i < j
        PROVE  Cmp(w, h[i], h[j]) < 0 \/ (Cmp(w, h[i], h[j]) = 0 /\ h[i] < h[j])
    <3>1. Ahead(s[i], s[j], w.keys)
      BY <1>4, <1>6, <2>1 DEF Strictly
    <3>2. Last(s[i]) = h[i] /\ Last(s[j]) = h[j] /\ Compare(s[i], s[j], w.keys) = Cmp(w, h[i], h[j])
      BY <1>5, <1>6
    <3>3. QED
      BY <3>1, <3>2 DEF Ahead
  <2>2. QED
    BY <2>1
<1>8. ASSUME NEW i \in 1..n, NEW j \in 1..n, i < j PROVE h[i] # h[j]
  <2> SUFFICES ASSUME h[i] = h[j] PROVE FALSE
    OBVIOUS
  <2>1. Cmp(w, h[i], h[j]) = Compare(s[i], s[i], w.keys)
    BY <1>6
  <2>2. PICK v \in V : v = s[i]
    BY <1>4
  <2>3. Compare(v, v, w.keys) \in {-1, 0, 1} /\ Compare(v, v, w.keys) = -Compare(v, v, w.keys)
    BY <1>6, CompareIs DEF Ranked
  <2>4. Compare(v, v, w.keys) = 0
    BY <2>3
  <2>5. h[i] < h[j] /\ h[i] \in Nat
    BY <1>6, <1>7, <1>8, <2>1, <2>2, <2>4
  <2>6. QED
    BY <2>5
<1>9. Placed(h, w, p, n)
  <2>1. h \in [1..n -> 1..Len(rows)]
    BY <1>1, <1>5, <1>6
  <2>2. \A i, j \in 1..n : h[i] = h[j] => i = j
    BY <1>8
  <2>3. QED
    BY <1>1, <1>6, <1>7, <2>1, <2>2 DEF Placed
<1>10. PICK st : st = Starts(s, w.keys) /\ Grouped(st, s, w.keys, n)
  BY <1>4, StartsGroup
<1>11. Told(h, st, w, n)
  <2>1. ASSUME NEW i \in 1..n, NEW j \in 1..n
        PROVE  /\ Compare(s[i], s[j], w.keys) < 0 <=> GroupOf(st, i) < GroupOf(st, j)
               /\ Compare(s[i], s[j], w.keys) = 0 <=> GroupOf(st, i) = GroupOf(st, j)
    BY <1>4, <1>6, <1>10, GroupsTell
  <2>2. QED
    BY <1>6, <2>1 DEF Told
<1>12. PICK at \in 1..n : at = PlaceOf(s, p) /\ Last(s[at]) = p
  <2>1. Same(w, p, p)
    BY DEF Same
  <2>2. \E i \in DOMAIN s : Last(s[i]) = p
    BY <1>1, <1>4, <1>5, <1>6, <2>1
  <2>3. PICK i \in DOMAIN s : i = PlaceOf(s, p) /\ Last(s[i]) = p
    BY <2>2 DEF PlaceOf
  <2>4. QED
    BY <1>4, <2>3
<1>13. EvalWindow(w, rows)[p] = WindowValues(w, s)[at]
  <2>1. EvalWindow(w, rows)[p] = ValueAt(w, Partition(w, rows, KeyOf(rows[p], w.part)), p)
    BY <1>1, EvalWindowIs
  <2>2. QED
    BY <1>3, <1>12, <2>1 DEF ValueAt
<1>14. h[at] = p
  BY <1>5, <1>12
<1>15. Watched(s, V, h, st, at, w, p, c)
  BY <1>3, <1>4, <1>6, <1>9, <1>10, <1>11, <1>12, <1>13, <1>14 DEF Watched
<1>16. QED
  BY <1>15

\* The rows of a partition before the row at p.
Earlier(w, p) == {q \in DOMAIN rows : Same(w, p, q) /\ Cmp(w, q, p) < 0}
EarlierPeers(w, p) == {q \in 1..(p - 1) : Same(w, p, q) /\ Cmp(w, q, p) = 0}
EarlierGroups(w, p) == {{r \in Earlier(w, p) : Cmp(w, q, r) = 0} : q \in Earlier(w, p)}

LEMMA EarlierAre ==
  ASSUME NEW c \in Nat, NEW w, Windowed(w, c), NEW p \in 1..Len(rows),
         NEW s, NEW V, NEW h, NEW st, NEW at, Watched(s, V, h, st, at, w, p, c)
  PROVE  /\ st[GroupOf(st, at)] \in 1..at
         /\ Earlier(w, p) = Through(h, st[GroupOf(st, at)] - 1)
<1> USE DEF Watched
<1>1. PICK L \in Nat : L = Len(rows) /\ DOMAIN rows = 1..L
  BY DEF Windowed
<1>2. PICK n \in Nat : n = Len(s)
  OBVIOUS
<1>3. PICK g \in 1..Len(st) : g = GroupOf(st, at) /\ st[g] \in 1..at
  BY <1>2, GroupOfIs
<1>4. \A i \in 1..n : i < st[g] <=> GroupOf(st, i) < g
  BY <1>2, StartsSplit
<1>5. \A i \in 1..n : Cmp(w, h[i], p) < 0 <=> i < st[g]
  BY <1>2, <1>3, <1>4 DEF Told
<1>6. ASSUME NEW q \in Earlier(w, p) PROVE q \in {h[i] : i \in 1..(st[g] - 1)}
  <2>1. q \in 1..L /\ Same(w, p, q) /\ Cmp(w, q, p) < 0
    BY <1>1 DEF Earlier
  <2>2. PICK i \in 1..n : h[i] = q
    BY <1>1, <1>2, <2>1 DEF Placed
  <2>3. i < st[g]
    BY <1>5, <2>1, <2>2
  <2>4. i \in 1..(st[g] - 1)
    BY <1>3, <2>3
  <2>5. QED
    BY <2>2, <2>4
<1>7. ASSUME NEW i \in 1..(st[g] - 1) PROVE h[i] \in Earlier(w, p)
  <2>1. i \in 1..n /\ i < st[g]
    BY <1>2, <1>3
  <2>2. Cmp(w, h[i], p) < 0
    BY <1>5, <2>1
  <2>3. h[i] \in 1..L /\ Same(w, p, h[i])
    BY <1>1, <1>2, <2>1 DEF Placed
  <2>4. QED
    BY <1>1, <2>2, <2>3 DEF Earlier
<1>8. QED
  BY <1>3, <1>6, <1>7 DEF Through

LEMMA EarlierCounted ==
  ASSUME NEW c \in Nat, NEW w, Windowed(w, c), NEW p \in 1..Len(rows),
         NEW s, NEW V, NEW h, NEW st, NEW at, Watched(s, V, h, st, at, w, p, c)
  PROVE  /\ Cardinality(Earlier(w, p)) = st[GroupOf(st, at)] - 1
         /\ Cardinality(Earlier(w, p)) + Cardinality(EarlierPeers(w, p)) = at - 1
<1> USE DEF Watched
<1>1. PICK L \in Nat : L = Len(rows) /\ DOMAIN rows = 1..L
  BY DEF Windowed
<1>2. PICK n \in Nat : n = Len(s) /\ at \in 1..n
  OBVIOUS
<1>3. /\ h \in [1..n -> 1..L] /\ \A i, j \in 1..n : h[i] = h[j] => i = j
      /\ \A i \in 1..n : Same(w, p, h[i])
      /\ \A q \in 1..L : Same(w, p, q) => \E i \in 1..n : h[i] = q
      /\ \A i, j \in 1..n :
           i < j => Cmp(w, h[i], h[j]) < 0 \/ (Cmp(w, h[i], h[j]) = 0 /\ h[i] < h[j])
      /\ h[at] = p
  BY <1>1, <1>2 DEF Placed
<1>4. PICK k \in 1..at : k = st[GroupOf(st, at)] /\ Earlier(w, p) = Through(h, k - 1)
  <2> HIDE DEF Watched
  <2>1. /\ st[GroupOf(st, at)] \in 1..at
        /\ Earlier(w, p) = Through(h, st[GroupOf(st, at)] - 1)
    BY EarlierAre
  <2>2. QED
    BY <2>1
<1>5. IsFiniteSet(Earlier(w, p)) /\ Cardinality(Earlier(w, p)) = k - 1
  <2>1. PICK d \in Nat : d = k - 1
    BY <1>2
  <2>2. Apart(h, d)
    BY <1>2, <1>3, <2>1 DEF Apart
  <2>3. QED
    BY <1>4, <2>1, <2>2, ThroughCount
<1>6. PICK E, P : E = Earlier(w, p) /\ P = EarlierPeers(w, p)
  OBVIOUS
<1>7. ASSUME NEW q \in E \cup P PROVE q \in {h[i] : i \in 1..(at - 1)}
  <2>1. /\ q \in 1..L /\ Same(w, p, q)
        /\ Cmp(w, q, p) < 0 \/ (Cmp(w, q, p) = 0 /\ q < p)
    BY <1>1, <1>6 DEF Earlier, EarlierPeers
  <2>2. PICK i \in 1..n : h[i] = q
    BY <1>3, <2>1
  <2>3. i # at
    <3>1. i = at => q = p
      BY <1>3, <2>2
    <3>2. Cmp(w, p, p) = 0
      <4>1. Cmp(w, h[at], h[at]) = 0
        BY <1>2 DEF Told
      <4>2. QED
        BY <1>3, <4>1
    <3>3. QED
      BY <1>1, <2>1, <3>1, <3>2
  <2>4. ~(at < i)
    <3> SUFFICES ASSUME at < i PROVE FALSE
      OBVIOUS
    <3>1. Cmp(w, p, q) < 0 \/ (Cmp(w, p, q) = 0 /\ p < q)
      BY <1>2, <1>3, <2>2
    <3>2. /\ Cmp(w, h[i], h[at]) < 0 <=> GroupOf(st, i) < GroupOf(st, at)
          /\ Cmp(w, h[i], h[at]) = 0 <=> GroupOf(st, i) = GroupOf(st, at)
          /\ Cmp(w, h[at], h[i]) < 0 <=> GroupOf(st, at) < GroupOf(st, i)
          /\ Cmp(w, h[at], h[i]) = 0 <=> GroupOf(st, at) = GroupOf(st, i)
      BY <1>2 DEF Told
    <3>3. GroupOf(st, i) \in Nat /\ GroupOf(st, at) \in Nat
      BY <1>2, GroupOfIs
    <3>4. /\ Cmp(w, q, p) < 0 <=> GroupOf(st, i) < GroupOf(st, at)
          /\ Cmp(w, q, p) = 0 <=> GroupOf(st, i) = GroupOf(st, at)
          /\ Cmp(w, p, q) < 0 <=> GroupOf(st, at) < GroupOf(st, i)
          /\ Cmp(w, p, q) = 0 <=> GroupOf(st, at) = GroupOf(st, i)
      BY <1>3, <2>2, <3>2
    <3>5. Cmp(w, q, p) = 0 /\ Cmp(w, p, q) = 0
      BY <2>1, <3>1, <3>3, <3>4
    <3>6. q < p /\ p < q
      BY <2>1, <3>1, <3>5
    <3>7. QED
      BY <1>1, <2>1, <3>6
  <2>5. i \in 1..(at - 1)
    BY <1>2, <2>3, <2>4
  <2>6. QED
    BY <2>2, <2>5
<1>8. ASSUME NEW i \in 1..(at - 1) PROVE h[i] \in E \cup P
  <2>1. i \in 1..n /\ i < at
    BY <1>2
  <2>2. Cmp(w, h[i], p) < 0 \/ (Cmp(w, h[i], p) = 0 /\ h[i] < p)
    BY <1>2, <1>3, <2>1
  <2>3. h[i] \in 1..L /\ Same(w, p, h[i])
    BY <1>3, <2>1
  <2>4. CASE Cmp(w, h[i], p) < 0
    BY <1>1, <1>6, <2>3, <2>4 DEF Earlier
  <2>5. CASE Cmp(w, h[i], p) = 0 /\ h[i] < p
    <3>1. h[i] \in 1..(p - 1)
      BY <1>1, <2>3, <2>5
    <3>2. QED
      BY <1>6, <2>3, <2>5, <3>1 DEF EarlierPeers
  <2>6. QED
    BY <2>2, <2>4, <2>5
<1>9. PICK X : X = E \cup P
  OBVIOUS
<1>10. X = {h[i] : i \in 1..(at - 1)}
  BY <1>7, <1>8, <1>9
<1>11. Cardinality(X) = at - 1
  <2>1. PICK d \in Nat : d = at - 1
    BY <1>2
  <2>2. Apart(h, d)
    BY <1>2, <1>3, <2>1 DEF Apart
  <2>3. X = Through(h, d)
    BY <1>10, <2>1 DEF Through
  <2>4. QED
    BY <2>1, <2>2, <2>3, ThroughCount
<1>12. IsFiniteSet(P)
  <2>1. P \subseteq 1..p /\ p \in Int
    BY <1>1, <1>6 DEF EarlierPeers
  <2>2. IsFiniteSet(1..p)
    BY <2>1, FS_Interval
  <2>3. QED
    BY <2>1, <2>2, FS_Subset
<1>13. E \cap P = {}
  BY <1>6 DEF Earlier, EarlierPeers
<1>14. Cardinality(X) = Cardinality(E) + Cardinality(P)
  <2>1. Cardinality(E \cup P) = Cardinality(E) + Cardinality(P) - Cardinality(E \cap P)
    BY <1>5, <1>6, <1>12, FS_Union
  <2>2. Cardinality(E \cap P) = 0
    BY <1>13, FS_EmptySet
  <2>3. Cardinality(E) \in Nat /\ Cardinality(P) \in Nat
    BY <1>5, <1>6, <1>12, FS_CardinalityType
  <2>4. QED
    BY <1>9, <2>1, <2>2, <2>3
<1>15. QED
  BY <1>4, <1>5, <1>6, <1>11, <1>14

LEMMA EarlierGrouped ==
  ASSUME NEW c \in Nat, NEW w, Windowed(w, c), NEW p \in 1..Len(rows),
         NEW s, NEW V, NEW h, NEW st, NEW at, Watched(s, V, h, st, at, w, p, c)
  PROVE  Cardinality(EarlierGroups(w, p)) = GroupOf(st, at) - 1
<1> USE DEF Watched
<1>1. PICK L \in Nat : L = Len(rows) /\ DOMAIN rows = 1..L
  BY DEF Windowed
<1>2. PICK n \in Nat : n = Len(s) /\ at \in 1..n
  OBVIOUS
<1>3. /\ h \in [1..n -> 1..L] /\ \A i, j \in 1..n : h[i] = h[j] => i = j
      /\ \A i \in 1..n : Same(w, p, h[i])
  BY <1>1, <1>2 DEF Placed
<1>4. PICK m \in Nat : m = Len(st) /\ \A i \in 1..m : st[i] \in 1..n
  <2>1. Grouped(st, s, w.keys, n)
    BY <1>2
  <2> HIDE DEF Watched
  <2>2. Len(st) \in Nat /\ \A i \in 1..Len(st) : st[i] \in 1..n
    BY <2>1 DEF Grouped
  <2>3. QED
    BY <2>2
<1>5. PICK g \in 1..m : g = GroupOf(st, at)
  BY <1>2, <1>4, GroupOfIs
<1>6. PICK k \in 1..at : k = st[g] /\ Earlier(w, p) = {h[i] : i \in 1..(k - 1)}
  <2> HIDE DEF Watched
  <2>1. /\ st[GroupOf(st, at)] \in 1..at
        /\ Earlier(w, p) = Through(h, st[GroupOf(st, at)] - 1)
    BY EarlierAre
  <2>2. QED
    BY <1>5, <2>1 DEF Through
<1>7. PICK E : E = Earlier(w, p)
  OBVIOUS
<1>8. \A i \in 1..n : GroupOf(st, i) \in 1..m /\ (i < k <=> GroupOf(st, i) < g)
  BY <1>2, <1>4, <1>6, GroupOfIs, StartsSplit
<1>9. PICK X : X = [x \in 1..(g - 1) |-> {h[i] : i \in {i \in 1..(k - 1) : GroupOf(st, i) = x}}]
  OBVIOUS
<1>10. ASSUME NEW x \in 1..(g - 1)
       PROVE  st[x] \in 1..(k - 1) /\ GroupOf(st, st[x]) = x
  <2>1. x \in 1..m /\ x + 1 \in 1..m /\ st[x] \in 1..n
    BY <1>4, <1>5
  <2>2. st[x] < st[x + 1]
    BY <1>4, <2>1 DEF Grouped
  <2>3. st[x] < st[x + 1] <=> GroupOf(st, st[x]) < x + 1
    BY <1>2, <1>4, <2>1, StartsSplit
  <2>4. st[x] < st[x] <=> GroupOf(st, st[x]) < x
    BY <1>2, <1>4, <2>1, StartsSplit
  <2>5. GroupOf(st, st[x]) \in Nat
    BY <1>8, <2>1
  <2>6. GroupOf(st, st[x]) = x
    BY <2>1, <2>2, <2>3, <2>4, <2>5
  <2>7. st[x] < k
    BY <1>5, <1>8, <2>1, <2>6
  <2>8. QED
    BY <1>6, <2>1, <2>6, <2>7
<1>11. ASSUME NEW i \in 1..(k - 1)
       PROVE  /\ GroupOf(st, i) \in 1..(g - 1)
              /\ {r \in E : Cmp(w, h[i], r) = 0} = X[GroupOf(st, i)]
  <2>1. i \in 1..n /\ i < k
    BY <1>2, <1>6
  <2>2. GroupOf(st, i) \in 1..(g - 1)
    BY <1>5, <1>8, <2>1
  <2>3. \A j \in 1..(k - 1) : Cmp(w, h[i], h[j]) = 0 <=> GroupOf(st, j) = GroupOf(st, i)
    <3>1. ASSUME NEW j \in 1..(k - 1)
          PROVE  Cmp(w, h[i], h[j]) = 0 <=> GroupOf(st, j) = GroupOf(st, i)
      <4>1. j \in 1..n
        BY <1>2, <1>6
      <4>2. QED
        BY <1>2, <2>1, <4>1 DEF Told
    <3>2. QED
      BY <3>1
  <2>4. X[GroupOf(st, i)] = {h[j] : j \in {j \in 1..(k - 1) : GroupOf(st, j) = GroupOf(st, i)}}
    BY <1>9, <2>2
  <2>5. E = {h[j] : j \in 1..(k - 1)}
    BY <1>6, <1>7
  <2>6. QED
    BY <2>2, <2>3, <2>4, <2>5
<1>12. EarlierGroups(w, p) = {X[x] : x \in 1..(g - 1)}
  <2>1. ASSUME NEW G \in EarlierGroups(w, p) PROVE G \in {X[x] : x \in 1..(g - 1)}
    <3>1. PICK q \in E : G = {r \in E : Cmp(w, q, r) = 0}
      BY <1>7 DEF EarlierGroups
    <3>2. PICK i \in 1..(k - 1) : q = h[i]
      BY <1>6, <1>7
    <3>3. QED
      BY <1>11, <3>1, <3>2
  <2>2. ASSUME NEW x \in 1..(g - 1) PROVE X[x] \in EarlierGroups(w, p)
    <3>1. PICK i \in 1..(k - 1) : GroupOf(st, i) = x
      BY <1>10
    <3>2. X[x] = {r \in E : Cmp(w, h[i], r) = 0}
      BY <1>11, <3>1
    <3>3. h[i] \in E
      BY <1>6, <1>7
    <3>4. QED
      BY <1>7, <3>2, <3>3 DEF EarlierGroups
  <2>3. QED
    BY <2>1, <2>2
<1>13. \A x, y \in 1..(g - 1) : X[x] = X[y] => x = y
  <2>1. ASSUME NEW x \in 1..(g - 1), NEW y \in 1..(g - 1), X[x] = X[y] PROVE x = y
    <3>1. PICK i \in 1..(k - 1) : GroupOf(st, i) = x
      BY <1>10
    <3>2. h[i] \in X[x]
      BY <1>9, <3>1
    <3>3. PICK j \in 1..(k - 1) : GroupOf(st, j) = y /\ h[i] = h[j]
      <4>1. h[i] \in X[y]
        BY <2>1, <3>2
      <4>2. X[y] = {h[j] : j \in {j \in 1..(k - 1) : GroupOf(st, j) = y}}
        BY <1>9
      <4>3. QED
        BY <4>1, <4>2
    <3>4. i \in 1..n /\ j \in 1..n
      BY <1>2, <1>6
    <3>5. i = j
      BY <1>3, <3>3, <3>4
    <3>6. QED
      BY <3>1, <3>3, <3>5
  <2>2. QED
    BY <2>1
<1>14. g - 1 \in Nat
  BY <1>4, <1>5
<1>15. Cardinality(Through(X, g - 1)) = g - 1
  <2>1. PICK d \in Nat : d = g - 1
    BY <1>14
  <2>2. Apart(X, d)
    BY <1>13, <2>1 DEF Apart
  <2>3. QED
    BY <2>1, <2>2, ThroughCount
<1>16. QED
  BY <1>5, <1>12, <1>15 DEF Through

\* ROW_NUMBER, RANK and DENSE_RANK.
LEMMA RanksMean ==
  ASSUME NEW c \in Nat, NEW w, Windowed(w, c), w.fn \in Ranking
  PROVE  RanksCount(w)
<1>1. DOMAIN rows = 1..Len(rows)
  BY DEF Windowed
<1>2. ASSUME NEW p \in 1..Len(rows)
      PROVE  EvalWindow(w, rows)[p].num
               = 1 + CASE w.fn = "RANK" -> Cardinality(Earlier(w, p))
                       [] w.fn = "DENSE_RANK" -> Cardinality(EarlierGroups(w, p))
                       [] OTHER -> Cardinality(Earlier(w, p)) + Cardinality(EarlierPeers(w, p))
  <2>1. PICK s, V, h, st, at : Watched(s, V, h, st, at, w, p, c)
    BY RowIsSeen
  <2>2. PICK x \in Int, y \in Int, z \in Int :
           x = st[GroupOf(st, at)] /\ y = GroupOf(st, at) /\ z = at
    <3>1. st[GroupOf(st, at)] \in Int /\ at \in Int /\ GroupOf(st, at) \in Int
      <4>1. Len(s) \in Nat /\ at \in 1..Len(s) /\ Grouped(st, s, w.keys, Len(s))
        BY <2>1 DEF Watched
      <4>2. GroupOf(st, at) \in 1..Len(st) /\ st[GroupOf(st, at)] \in 1..at
        BY <4>1, GroupOfIs
      <4>3. QED
        BY <4>1, <4>2
    <3>2. QED
      BY <3>1
  <2>3. Cardinality(Earlier(w, p)) = x - 1
    BY <2>1, <2>2, EarlierCounted
  <2>4. Cardinality(Earlier(w, p)) + Cardinality(EarlierPeers(w, p)) = z - 1
    BY <2>1, <2>2, EarlierCounted
  <2>5. Cardinality(EarlierGroups(w, p)) = y - 1
    BY <2>1, <2>2, EarlierGrouped
  <2>6. EvalWindow(w, rows)[p] = CASE w.fn = "ROW_NUMBER" -> Number(z)
                                   [] w.fn = "RANK" -> Number(x)
                                   [] w.fn = "DENSE_RANK" -> Number(y)
                                   [] OTHER -> Null
    <3>1. at \in DOMAIN s /\ EvalWindow(w, rows)[p] = WindowValues(w, s)[at]
          /\ st = Starts(s, w.keys)
      BY <2>1 DEF Watched
    <3>2. CASE w.fn = "ROW_NUMBER"
      BY <2>2, <3>1, <3>2, WindowValueIs
    <3>3. CASE w.fn = "RANK"
      BY <2>2, <3>1, <3>3, WindowValueIs
    <3>4. CASE w.fn = "DENSE_RANK"
      BY <2>2, <3>1, <3>4, WindowValueIs
    <3>5. QED
      BY <3>2, <3>3, <3>4 DEF Ranking
  <2>7. CASE w.fn = "ROW_NUMBER"
    <3>1. EvalWindow(w, rows)[p].num = z
      BY <2>6, <2>7 DEF Number
    <3>2. QED
      BY <2>4, <2>7, <3>1
  <2>8. CASE w.fn = "RANK"
    <3>1. EvalWindow(w, rows)[p].num = x
      BY <2>6, <2>8 DEF Number
    <3>2. QED
      BY <2>3, <2>8, <3>1
  <2>9. CASE w.fn = "DENSE_RANK"
    <3>1. EvalWindow(w, rows)[p].num = y
      BY <2>6, <2>9 DEF Number
    <3>2. QED
      BY <2>5, <2>9, <3>1
  <2>10. QED
    BY <2>7, <2>8, <2>9 DEF Ranking
<1>3. QED
  BY <1>1, <1>2 DEF RanksCount, Earlier, EarlierPeers, EarlierGroups

----------------------------------------------------------------------------
(* Running aggregates                                                      *)

LEMMA WeightInt ==
  ASSUME NEW V, NEW s \in Seq(V), NEW wt \in [V -> Int] PROVE Weight(s, wt) \in Int
<1>1. Weights(s, wt) \in [1..Len(s) -> Int] /\ Len(s) \in Nat
  BY WeightsType
<1>2. QED
  BY <1>1, TotalInt DEF Weight

WeighAsOne(s, t, wt) == Weight(s \o t, wt) = Weight(s, wt) + Weight(t, wt)

LEMMA WeightConcat ==
  ASSUME NEW V, NEW s \in Seq(V), NEW t \in Seq(V), NEW wt \in [V -> Int]
  PROVE  WeighAsOne(s, t, wt)
<1>1. PICK n \in Nat : n = Len(t)
  OBVIOUS
<1> DEFINE T == {i \in Nat : i <= n => WeighAsOne(s, SubSeq(t, 1, i), wt)}
<1>2. 0 \in T
  <2>1. SubSeq(t, 1, 0) = <<>> /\ s \o <<>> = s
    OBVIOUS
  <2>2. PICK a \in Int : a = Weight(s, wt) /\ a + 0 = a
    <3>1. Weight(s, wt) \in Int
      BY WeightInt
    <3>2. QED
      BY <3>1
  <2>3. Weight(<<>>, wt) = 0
    BY WeightNone
  <2>4. PICK z : z = <<>> /\ s \o z = s /\ Weight(z, wt) = 0 /\ SubSeq(t, 1, 0) = z
    BY <2>1, <2>3
  <2>5. WeighAsOne(s, z, wt)
    BY <2>2, <2>4 DEF WeighAsOne
  <2>6. QED
    BY <2>4, <2>5
<1>3. ASSUME NEW i \in Nat, i \in T PROVE i + 1 \in T
  <2> SUFFICES ASSUME i + 1 <= n PROVE WeighAsOne(s, SubSeq(t, 1, i + 1), wt)
    OBVIOUS
  <2>1. i + 1 \in 1..Len(t) /\ (i + 1) - 1 = i /\ WeighAsOne(s, SubSeq(t, 1, i), wt)
    BY <1>1, <1>3
  <2>2. PICK z \in Seq(V), x \in V : z = SubSeq(t, 1, i) /\ x = t[i + 1]
                                     /\ SubSeq(t, 1, i + 1) = Append(z, x)
    <3>1. OneMoreOf(t, i, V)
      BY <2>1, OneMore
    <3>2. QED
      BY <3>1, Zenon DEF OneMoreOf
  <2>3. PICK y \in Seq(V) : y = s \o z
    <3>1. s \o z \in Seq(V)
      OBVIOUS
    <3>2. QED
      BY <3>1
  <2>4. s \o Append(z, x) = Append(y, x)
    BY <2>3
  <2>5. Weight(Append(y, x), wt) = Weight(y, wt) + wt[x]
    BY WeightAppend
  <2>6. Weight(Append(z, x), wt) = Weight(z, wt) + wt[x]
    BY WeightAppend
  <2>7. PICK a \in Int, b \in Int, c \in Int :
          a = Weight(s, wt) /\ b = Weight(z, wt) /\ c = wt[x]
    <3>1. Weight(s, wt) \in Int /\ Weight(z, wt) \in Int
      BY WeightInt
    <3>2. QED
      BY <3>1
  <2>8. Weight(y, wt) = a + b
    BY <2>1, <2>2, <2>3, <2>7 DEF WeighAsOne
  <2>9. Weight(s \o Append(z, x), wt) = a + (b + c)
    <3>1. Weight(Append(y, x), wt) = (a + b) + c
      BY <2>5, <2>7, <2>8
    <3>2. (a + b) + c = a + (b + c)
      OBVIOUS
    <3>3. QED
      BY <2>4, <3>1, <3>2
  <2>10. QED
    BY <2>2, <2>6, <2>7, <2>9 DEF WeighAsOne
<1> HIDE DEF T
<1>4. n \in T
  BY <1>2, <1>3, Induction
<1>5. WeighAsOne(s, SubSeq(t, 1, n), wt)
  BY <1>4 DEF T
<1>6. SubSeq(t, 1, n) = t
  BY <1>1
<1>7. QED
  BY <1>5, <1>6

LEMMA InsertedWeights ==
  ASSUME NEW V, NEW s \in Seq(V), NEW r \in V, NEW keys, NEW wt \in [V -> Int]
  PROVE  Weight(Inserted(s, r, keys), wt) = Weight(s, wt) + wt[r]
<1>1. PICK p : /\ Place(s, r, keys, p)
               /\ Inserted(s, r, keys) = SubSeq(s, 1, p) \o <<r>> \o SubSeq(s, p + 1, Len(s))
  BY InsertedIs
<1>2. p \in 0..Len(s)
  BY <1>1 DEF Place
<1>3. PICK a \in Seq(V), b \in Seq(V) :
        a = SubSeq(s, 1, p) /\ b = SubSeq(s, p + 1, Len(s)) /\ s = a \o b
  <2>1. /\ SubSeq(s, 1, p) \in Seq(V) /\ SubSeq(s, p + 1, Len(s)) \in Seq(V)
        /\ s = SubSeq(s, 1, p) \o SubSeq(s, p + 1, Len(s))
    BY <1>2, Cut
  <2>2. PICK a \in Seq(V), b \in Seq(V) : a = SubSeq(s, 1, p) /\ b = SubSeq(s, p + 1, Len(s))
    BY <2>1
  <2>3. QED
    BY <2>1, <2>2
<1>4. PICK c \in Seq(V) : c = Append(a, r)
  <2>1. Append(a, r) \in Seq(V)
    OBVIOUS
  <2>2. QED
    BY <2>1
<1>5. a \o <<r>> = c
  BY <1>4
<1>6. Inserted(s, r, keys) = c \o b
  BY <1>1, <1>3, <1>5
<1>7. Weight(c \o b, wt) = Weight(c, wt) + Weight(b, wt)
  BY WeightConcat DEF WeighAsOne
<1>8. Weight(a \o b, wt) = Weight(a, wt) + Weight(b, wt)
  BY WeightConcat DEF WeighAsOne
<1>9. Weight(Append(a, r), wt) = Weight(a, wt) + wt[r]
  BY WeightAppend
<1>10. PICK x \in Int, y \in Int, z \in Int :
         x = Weight(a, wt) /\ y = Weight(b, wt) /\ z = wt[r]
  <2>1. Weight(a, wt) \in Int /\ Weight(b, wt) \in Int
    BY WeightInt
  <2>2. QED
    BY <2>1
<1>11. Weight(s, wt) = x + y /\ Weight(Inserted(s, r, keys), wt) = (x + z) + y
  BY <1>3, <1>4, <1>6, <1>7, <1>8, <1>9, <1>10
<1>12. QED
  BY <1>10, <1>11

LEMMA SortedWeights ==
  ASSUME NEW V, NEW rs \in Seq(V), NEW keys, NEW wt \in [V -> Int]
  PROVE  Weight(SortRows(rs, keys), wt) = Weight(rs, wt)
<1>1. PICK n \in Nat : n = Len(rs)
  OBVIOUS
<1>2. PICK f : Sorting(f, rs, keys, n, V) /\ SortRows(rs, keys) = f[n]
  BY <1>1, SortRowsIs
<1> DEFINE T == {i \in Nat : i <= n => Weight(f[i], wt) = Weight(SubSeq(rs, 1, i), wt)}
<1>3. 0 \in T
  <2>1. SubSeq(rs, 1, 0) = <<>> /\ f[0] = <<>>
    BY <1>2 DEF Sorting
  <2>2. QED
    BY <2>1
<1>4. ASSUME NEW i \in Nat, i \in T PROVE i + 1 \in T
  <2> SUFFICES ASSUME i + 1 <= n
               PROVE  Weight(f[i + 1], wt) = Weight(SubSeq(rs, 1, i + 1), wt)
    OBVIOUS
  <2>1. i + 1 \in 1..n /\ (i + 1) - 1 = i /\ i \in 0..n
    OBVIOUS
  <2>2. PICK z \in Seq(V), x \in V : /\ z = SubSeq(rs, 1, i) /\ x = rs[i + 1]
                                     /\ SubSeq(rs, 1, i + 1) = Append(z, x)
    <3>1. OneMoreOf(rs, i, V)
      BY <1>1, <2>1, OneMore
    <3>2. QED
      BY <3>1, Zenon DEF OneMoreOf
  <2>3. PICK s \in Seq(V) : s = f[i]
    BY <1>2, <2>1 DEF Sorting
  <2>4. f[i + 1] = Inserted(s, x, keys)
    BY <1>2, <2>1, <2>2, <2>3 DEF Sorting
  <2>5. Weight(Inserted(s, x, keys), wt) = Weight(s, wt) + wt[x]
    BY InsertedWeights
  <2>6. Weight(Append(z, x), wt) = Weight(z, wt) + wt[x]
    BY WeightAppend
  <2>7. Weight(s, wt) = Weight(z, wt)
    BY <1>4, <2>1, <2>2, <2>3
  <2>8. QED
    BY <2>2, <2>4, <2>5, <2>6, <2>7
<1> HIDE DEF T
<1>5. n \in T
  BY <1>3, <1>4, Induction
<1>6. SubSeq(rs, 1, n) = rs
  BY <1>1
<1>7. Weight(f[n], wt) = Weight(SubSeq(rs, 1, n), wt)
  BY <1>5 DEF T
<1>8. QED
  BY <1>2, <1>6, <1>7

\* What counts of a sequence is in front.
FrontCounts(V, s, e, wt, wf) ==
  /\ s \in Seq(V) /\ wt \in [V -> Int] /\ wf \in [V -> Int] /\ e \in 0..Len(s)
  /\ \A i \in 1..Len(s) : wf[s[i]] = IF i <= e THEN wt[s[i]] ELSE 0

LEMMA FrontWeight ==
  ASSUME NEW V, NEW s, NEW e, NEW wt, NEW wf, FrontCounts(V, s, e, wt, wf)
  PROVE  Weight(SubSeq(s, 1, e), wt) = Weight(s, wf)
<1>0. s \in Seq(V) /\ wt \in [V -> Int] /\ wf \in [V -> Int] /\ e \in 0..Len(s)
  BY DEF FrontCounts
<1>1. PICK n \in Nat : n = Len(s) /\ e \in 0..n
  BY <1>0
<1>2. PICK a \in Seq(V), b \in Seq(V) :
        a = SubSeq(s, 1, e) /\ b = SubSeq(s, e + 1, Len(s)) /\ s = a \o b
  <2>1. /\ SubSeq(s, 1, e) \in Seq(V) /\ SubSeq(s, e + 1, Len(s)) \in Seq(V)
        /\ s = SubSeq(s, 1, e) \o SubSeq(s, e + 1, Len(s))
    BY <1>0, Cut
  <2>2. PICK a \in Seq(V), b \in Seq(V) : a = SubSeq(s, 1, e) /\ b = SubSeq(s, e + 1, Len(s))
    BY <2>1
  <2>3. QED
    BY <2>1, <2>2
<1>3. /\ Len(a) = e /\ Len(b) = n - e
      /\ \A i \in 1..e : a[i] = s[i]
      /\ \A i \in 1..(n - e) : b[i] = s[e + i]
  <2>1. /\ Len(SubSeq(s, 1, e)) = e /\ Len(SubSeq(s, e + 1, Len(s))) = Len(s) - e
        /\ \A i \in 1..e : SubSeq(s, 1, e)[i] = s[i]
        /\ \A i \in 1..(Len(s) - e) : SubSeq(s, e + 1, Len(s))[i] = s[e + i]
    BY <1>0, Cut
  <2>2. Len(a) = e /\ Len(b) = n - e /\ \A i \in 1..e : a[i] = s[i]
    BY <1>1, <1>2, <2>1
  <2>3. \A i \in 1..(n - e) : b[i] = s[e + i]
    BY <1>1, <1>2, <2>1
  <2>4. QED
    BY <2>2, <2>3
<1>4. Weight(a, wf) = Weight(a, wt)
  <2>1. DOMAIN a = 1..e
    BY <1>3
  <2>2. ASSUME NEW i \in 1..e PROVE wf[a[i]] = wt[a[i]]
    <3>1. i \in 1..n /\ i <= e
      BY <1>1
    <3>2. QED
      BY <1>1, <1>3, <3>1 DEF FrontCounts
  <2>3. Weights(a, wf) = Weights(a, wt)
    BY <2>1, <2>2 DEF Weights
  <2>4. QED
    BY <2>3 DEF Weight
<1>5. Weight(b, wf) = 0
  <2>1. PICK m \in Nat : m = Len(b) /\ m = n - e
    BY <1>3
  <2>2. PICK g \in [1..m -> Int] : g = Weights(b, wf)
    BY <1>0, <2>1, WeightsType
  <2>3. ASSUME NEW i \in 1..m PROVE g[i] = 0
    <3>1. g[i] = wf[b[i]]
      BY <2>1, <2>2 DEF Weights
    <3>2. e + i \in 1..n /\ ~(e + i <= e)
      BY <1>1, <2>1
    <3>3. wf[s[e + i]] = 0
      BY <1>1, <3>2 DEF FrontCounts
    <3>4. QED
      BY <1>3, <2>1, <3>1, <3>3
  <2>4. Total(g) = 0
    BY <2>3, TotalZero
  <2>5. QED
    BY <2>2, <2>4 DEF Weight
<1>6. Weight(a \o b, wf) = Weight(a, wf) + Weight(b, wf)
  BY <1>0, WeightConcat DEF WeighAsOne
<1>7. PICK x \in Int : x = Weight(a, wf) /\ x + 0 = x
  <2>1. Weight(a, wf) \in Int
    BY <1>0, WeightInt
  <2>2. QED
    BY <2>1
<1>8. Weight(s, wf) = x
  BY <1>2, <1>5, <1>6, <1>7
<1>9. QED
  BY <1>2, <1>4, <1>7, <1>8

\* What a running COUNT or SUM amounts to.
Carried(fn, arg, acc) ==
  IF fn = "COUNT" THEN IF arg = 0 THEN acc.rows ELSE acc.some ELSE acc.sum

LEMMA RunningAdds ==
  ASSUME NEW w, w.fn \in {"COUNT", "SUM"}, NEW V, Readable(V, w.arg), NEW rs \in Seq(V),
         NEW n \in 0..Len(rs), NEW wt, wt = Adds(w.fn, w.arg, V)
  PROVE  ValueOf(w.fn, Accumulated(w, rs, n), w.arg = 0) = Number(Weight(SubSeq(rs, 1, n), wt))
<1>0. wt \in [V -> Int]
  BY AddsType
<1>1. PICK L \in Nat : L = Len(rs) /\ n \in 0..L /\ \A i \in 1..L : rs[i] \in V
  OBVIOUS
<1>2. \A i \in 1..n : Read(w, rs, i) \in Cell
  <2>1. ASSUME NEW i \in 1..n PROVE Read(w, rs, i) \in Cell
    <3>1. rs[i] \in V
      BY <1>1
    <3>2. CASE w.arg = 0
      BY <3>2 DEF Read, Cell
    <3>3. CASE w.arg # 0
      BY <3>1, <3>3 DEF Read, Readable
    <3>4. QED
      BY <3>2, <3>3
  <2>2. QED
    BY <2>1
<1>3. PICK f : /\ Accumulating(f, w, rs, n) /\ \A i \in 0..n : f[i] \in Running
               /\ Accumulated(w, rs, n) = f[n]
  BY <1>1, <1>2, AccumulatedIs
<1> DEFINE T == {i \in Nat : i <= n => Carried(w.fn, w.arg, f[i]) = Weight(SubSeq(rs, 1, i), wt)}
<1>4. 0 \in T
  <2>1. SubSeq(rs, 1, 0) = <<>> /\ f[0] = NewAccumulator
    BY <1>3 DEF Accumulating
  <2>2. Carried(w.fn, w.arg, NewAccumulator) = 0
    BY DEF Carried, NewAccumulator
  <2>3. Carried(w.fn, w.arg, f[0]) = Weight(SubSeq(rs, 1, 0), wt)
    BY <2>1, <2>2, WeightNone
  <2>4. QED
    BY <2>3
<1>5. ASSUME NEW i \in Nat, i \in T PROVE i + 1 \in T
  <2> SUFFICES ASSUME i + 1 <= n
               PROVE  Carried(w.fn, w.arg, f[i + 1]) = Weight(SubSeq(rs, 1, i + 1), wt)
    OBVIOUS
  <2>1. i + 1 \in 1..n /\ i + 1 \in 1..L /\ (i + 1) - 1 = i /\ i \in 0..n
    BY <1>1
  <2>2. PICK z \in Seq(V), r \in V : z = SubSeq(rs, 1, i) /\ r = rs[i + 1]
                                     /\ SubSeq(rs, 1, i + 1) = Append(z, r)
    <3>1. OneMoreOf(rs, i, V)
      BY <1>1, <2>1, OneMore
    <3>2. QED
      BY <3>1, Zenon DEF OneMoreOf
  <2>3. Weight(Append(z, r), wt) = Weight(z, wt) + wt[r]
    BY <1>0, WeightAppend
  <2>4. PICK acc \in Running, v \in Cell : acc = f[i] /\ v = Read(w, rs, i + 1)
    BY <1>2, <1>3, <2>1
  <2>5. PICK x : x = f[i + 1] /\ x = Add(w.fn, acc, v, w.arg = 0)
    BY <1>3, <2>1, <2>4 DEF Accumulating
  <2>6. Added(x, w.fn, acc, v, w.arg = 0)
    <3>1. PICK counted \in BOOLEAN : counted = (w.arg = 0)
      OBVIOUS
    <3>2. Added(Add(w.fn, acc, v, counted), w.fn, acc, v, counted)
      BY AddIs
    <3>3. QED
      BY <2>5, <3>1, <3>2
  <2>7. w.arg # 0 => v = r[w.arg]
    BY <2>2, <2>4 DEF Read
  <2>8. Carried(w.fn, w.arg, x) = Carried(w.fn, w.arg, acc) + wt[r]
    <3>1. acc.rows \in Int /\ acc.some \in Int /\ acc.sum \in Int
      BY DEF Running
    <3>2. CASE w.fn = "COUNT"
      <4>1. wt[r] = IF w.arg = 0 \/ r[w.arg] # Null THEN 1 ELSE 0
        BY <3>2 DEF Adds
      <4>2. CASE w.arg = 0
        BY <2>6, <3>1, <3>2, <4>1, <4>2 DEF Added, Carried
      <4>3. CASE w.arg # 0
        BY <2>6, <2>7, <3>1, <3>2, <4>1, <4>3 DEF Added, Carried
      <4>4. QED
        BY <4>2, <4>3
    <3>3. CASE w.fn = "SUM"
      <4>1. wt[r] = IF w.arg = 0 \/ Num(r[w.arg]) = NoNumber THEN 0 ELSE Num(r[w.arg])
        BY <3>3 DEF Adds
      <4>2. x.sum = acc.sum + wt[r]
        <5>1. CASE w.arg = 0
          BY <2>6, <3>1, <4>1, <5>1 DEF Added
        <5>2. CASE w.arg # 0
          BY <2>6, <2>7, <3>1, <4>1, <5>2 DEF Added
        <5>3. QED
          BY <5>1, <5>2
      <4>3. QED
        BY <3>3, <4>2 DEF Carried
    <3>4. QED
      BY <3>2, <3>3
  <2>9. Carried(w.fn, w.arg, acc) = Weight(z, wt)
    BY <1>5, <2>1, <2>2, <2>4
  <2>10. QED
    BY <2>2, <2>3, <2>5, <2>8, <2>9
<1> HIDE DEF T
<1>6. n \in T
  BY <1>4, <1>5, Induction
<1>7. Carried(w.fn, w.arg, f[n]) = Weight(SubSeq(rs, 1, n), wt)
  BY <1>6 DEF T
<1>8. ValueOf(w.fn, f[n], w.arg = 0) = Number(Carried(w.fn, w.arg, f[n]))
  BY DEF ValueOf, Carried
<1>9. QED
  BY <1>3, <1>7, <1>8

\* The cells a MIN or a MAX is taken of, and what it is of them.
CellsRead(w, rs, n) == {Read(w, rs, i) : i \in 1..n} \ {Null}

Extreme(fn, b, C) ==
  \/ C = {} /\ b = Null
  \/ b \in C /\ \A v \in C : ~Better(fn, v, b)

OneKind(C) == /\ C \subseteq Cell /\ Null \notin C
              /\ \A a, b \in C : Num(a) = NoNumber <=> Num(b) = NoNumber

LEMMA BetterHolds ==
  ASSUME NEW fn, NEW C, OneKind(C), NEW a \in C, NEW b \in C, NEW v \in C
  PROVE  /\ ~Better(fn, v, v)
         /\ ~Better(fn, a, b) /\ Better(fn, v, b) => ~Better(fn, a, v)
         /\ ~Better(fn, a, b) /\ ~Better(fn, b, a) => CompareCells(a, b) = 0
<1>1. a \in Cell /\ b \in Cell /\ v \in Cell
  BY DEF OneKind
<1>2. \A x, y \in C : Num(x) = NoNumber <=> Num(y) = NoNumber
  BY DEF OneKind
<1>3. PICK ab \in {-1, 0, 1}, ba \in {-1, 0, 1} :
        ab = CompareCells(a, b) /\ ba = CompareCells(b, a) /\ ba = -ab
  <2>1. /\ CompareCells(a, b) \in {-1, 0, 1} /\ CompareCells(b, a) \in {-1, 0, 1}
        /\ CompareCells(b, a) = -CompareCells(a, b)
    BY <1>1, CellsOrder
  <2>2. QED
    BY <2>1
<1>4. PICK vb \in {-1, 0, 1}, bv \in {-1, 0, 1} :
        vb = CompareCells(v, b) /\ bv = CompareCells(b, v) /\ bv = -vb
  <2>1. /\ CompareCells(v, b) \in {-1, 0, 1} /\ CompareCells(b, v) \in {-1, 0, 1}
        /\ CompareCells(b, v) = -CompareCells(v, b)
    BY <1>1, CellsOrder
  <2>2. QED
    BY <2>1
<1>5. PICK av \in {-1, 0, 1}, va \in {-1, 0, 1} :
        av = CompareCells(a, v) /\ va = CompareCells(v, a) /\ va = -av
  <2>1. /\ CompareCells(a, v) \in {-1, 0, 1} /\ CompareCells(v, a) \in {-1, 0, 1}
        /\ CompareCells(v, a) = -CompareCells(a, v)
    BY <1>1, CellsOrder
  <2>2. QED
    BY <2>1
<1>6. CompareCells(v, v) = 0
  <2>1. CompareCells(v, v) \in {-1, 0, 1} /\ CompareCells(v, v) = -CompareCells(v, v)
    BY <1>1, CellsOrder
  <2>2. QED
    BY <2>1
<1>7. vb <= 0 /\ ba <= 0 => va <= 0
  BY <1>1, <1>2, <1>3, <1>4, <1>5, CellsOrder
<1>8. ab <= 0 /\ bv <= 0 => av <= 0
  BY <1>1, <1>2, <1>3, <1>4, <1>5, CellsOrder
<1>9. CASE fn = "MIN"
  <2>1. /\ Better(fn, a, b) <=> ab < 0
        /\ Better(fn, b, a) <=> ba < 0
        /\ Better(fn, v, b) <=> vb < 0
        /\ Better(fn, a, v) <=> av < 0
        /\ ~Better(fn, v, v)
    BY <1>3, <1>4, <1>5, <1>6, <1>9 DEF Better
  <2>2. QED
    BY <1>3, <1>4, <1>5, <1>7, <2>1
<1>10. CASE fn # "MIN"
  <2>1. /\ Better(fn, a, b) <=> ab > 0
        /\ Better(fn, b, a) <=> ba > 0
        /\ Better(fn, v, b) <=> vb > 0
        /\ Better(fn, a, v) <=> av > 0
        /\ ~Better(fn, v, v)
    BY <1>3, <1>4, <1>5, <1>6, <1>10 DEF Better
  <2>2. QED
    BY <1>3, <1>4, <1>5, <1>8, <2>1
<1>11. QED
  BY <1>9, <1>10

LEMMA ExtremeStep ==
  ASSUME NEW fn, NEW b, NEW C, NEW v, Extreme(fn, b, C), OneKind(C \cup {v}),
         NEW x, x = IF b = Null \/ Better(fn, v, b) THEN v ELSE b
  PROVE  Extreme(fn, x, C \cup {v})
<1>1. PICK D : D = C \cup {v}
  OBVIOUS
<1>2. OneKind(D) /\ v \in D /\ Null \notin D
  BY <1>1 DEF OneKind
<1>3. CASE b = Null
  <2>1. C = {} /\ x = v /\ D = {v}
    BY <1>1, <1>2, <1>3 DEF Extreme
  <2>2. ~Better(fn, v, v)
    BY <1>2, BetterHolds
  <2>3. QED
    BY <1>1, <2>1, <2>2 DEF Extreme
<1>4. CASE b # Null
  <2>1. b \in C /\ b \in D /\ \A u \in C : ~Better(fn, u, b)
    BY <1>1, <1>4 DEF Extreme
  <2>2. CASE Better(fn, v, b)
    <3>1. x = v
      BY <2>2
    <3>2. ASSUME NEW u \in D PROVE ~Better(fn, u, v)
      <4>1. CASE u = v
        BY <1>2, <4>1, BetterHolds
      <4>2. CASE u # v
        <5>1. ~Better(fn, u, b)
          BY <1>1, <2>1, <4>2
        <5>2. QED
          BY <1>2, <2>1, <2>2, <5>1, BetterHolds
      <4>3. QED
        BY <4>1, <4>2
    <3>3. QED
      BY <1>1, <1>2, <3>1, <3>2 DEF Extreme
  <2>3. CASE ~Better(fn, v, b)
    <3>1. x = b
      BY <1>4, <2>3
    <3>2. QED
      BY <1>1, <2>1, <2>3, <3>1 DEF Extreme
  <2>4. QED
    BY <2>2, <2>3
<1>5. QED
  BY <1>3, <1>4

LEMMA ExtremesTie ==
  ASSUME NEW fn, NEW C, OneKind(C), NEW a, NEW b, Extreme(fn, a, C), Extreme(fn, b, C)
  PROVE  CompareTerm(a, b, FALSE) = 0
<1>1. CASE C = {}
  <2>1. a = Null /\ b = Null
    BY <1>1 DEF Extreme
  <2>2. Rising(a, b) = 0
    BY <2>1 DEF Rising
  <2>3. QED
    BY <2>2, TermIs
<1>2. CASE C # {}
  <2>1. a \in C /\ b \in C /\ ~Better(fn, a, b) /\ ~Better(fn, b, a)
    BY <1>2 DEF Extreme
  <2>2. CompareCells(a, b) = 0
    BY <2>1, BetterHolds
  <2>3. a # Null /\ b # Null
    BY <2>1 DEF OneKind
  <2>4. Rising(a, b) = 0
    BY <2>2, <2>3 DEF Rising
  <2>5. QED
    BY <2>4, TermIs
<1>3. QED
  BY <1>1, <1>2

LEMMA BestOfTwo ==
  ASSUME NEW fn, NEW a \in Cell, NEW b \in Cell, a # Null
  PROVE  Best(fn, <<a, b>>) = IF Better(fn, b, a) THEN b ELSE a
<1>1. PICK vs \in Seq(Cell) : vs = <<a, b>> /\ Len(vs) = 2 /\ vs[1] = a /\ vs[2] = b
  <2>1. <<a, b>> \in Seq(Cell) /\ Len(<<a, b>>) = 2 /\ <<a, b>>[1] = a /\ <<a, b>>[2] = b
    OBVIOUS
  <2>2. QED
    BY <2>1
<1>2. PICK f : Choosing(f, fn, vs, Len(vs)) /\ Best(fn, vs) = f[Len(vs)]
  BY BestIs
<1>3. 1 \in 1..2 /\ 2 \in 1..2 /\ 1 - 1 = 0 /\ 2 - 1 = 1
  OBVIOUS
<1>4. f[0] = Null /\ f[1] = IF f[0] = Null \/ Better(fn, vs[1], f[0]) THEN vs[1] ELSE f[0]
  BY <1>1, <1>2, <1>3 DEF Choosing
<1>5. f[2] = IF f[1] = Null \/ Better(fn, vs[2], f[1]) THEN vs[2] ELSE f[1]
  BY <1>1, <1>2, <1>3 DEF Choosing
<1>6. QED
  BY <1>1, <1>2, <1>4, <1>5

LEMMA RunningBest ==
  ASSUME NEW w, w.fn \in {"MIN", "MAX"}, NEW V, Readable(V, w.arg), NEW rs \in Seq(V),
         NEW n \in 0..Len(rs), OneKind(CellsRead(w, rs, n))
  PROVE  Extreme(w.fn, ValueOf(w.fn, Accumulated(w, rs, n), w.arg = 0), CellsRead(w, rs, n))
<1>1. PICK L \in Nat : L = Len(rs) /\ n \in 0..L /\ \A i \in 1..L : rs[i] \in V
  OBVIOUS
<1>2. \A i \in 1..n : Read(w, rs, i) \in Cell
  <2>1. ASSUME NEW i \in 1..n PROVE Read(w, rs, i) \in Cell
    <3>1. rs[i] \in V
      BY <1>1
    <3>2. CASE w.arg = 0
      BY <3>2 DEF Read, Cell
    <3>3. CASE w.arg # 0
      BY <3>1, <3>3 DEF Read, Readable
    <3>4. QED
      BY <3>2, <3>3
  <2>2. QED
    BY <2>1
<1>3. PICK f : /\ Accumulating(f, w, rs, n) /\ \A i \in 0..n : f[i] \in Running
               /\ Accumulated(w, rs, n) = f[n]
  BY <1>1, <1>2, AccumulatedIs
<1> DEFINE T == {i \in Nat : i <= n => Extreme(w.fn, f[i].best, CellsRead(w, rs, i))}
<1>4. 0 \in T
  <2>1. f[0].best = Null
    BY <1>3 DEF Accumulating, NewAccumulator
  <2>2. CellsRead(w, rs, 0) = {}
    BY DEF CellsRead
  <2>3. Extreme(w.fn, f[0].best, CellsRead(w, rs, 0))
    BY <2>1, <2>2 DEF Extreme
  <2>4. QED
    BY <2>3
<1>5. ASSUME NEW i \in Nat, i \in T PROVE i + 1 \in T
  <2> SUFFICES ASSUME i + 1 <= n
               PROVE  Extreme(w.fn, f[i + 1].best, CellsRead(w, rs, i + 1))
    OBVIOUS
  <2>1. i + 1 \in 1..n /\ (i + 1) - 1 = i /\ i \in 0..n
    BY <1>1
  <2>2. PICK acc \in Running, v \in Cell : acc = f[i] /\ v = Read(w, rs, i + 1)
    BY <1>2, <1>3, <2>1
  <2>3. PICK x : x = f[i + 1] /\ x = Add(w.fn, acc, v, w.arg = 0)
    BY <1>3, <2>1, <2>2 DEF Accumulating
  <2>4. Added(x, w.fn, acc, v, w.arg = 0)
    <3>1. PICK counted \in BOOLEAN : counted = (w.arg = 0)
      OBVIOUS
    <3>2. Added(Add(w.fn, acc, v, counted), w.fn, acc, v, counted)
      BY AddIs
    <3>3. QED
      BY <2>3, <3>1, <3>2
  <2>5. w.arg = 0 => v = Null
    BY <2>2 DEF Read
  <2>6. PICK C : C = CellsRead(w, rs, i)
    OBVIOUS
  <2>7. Extreme(w.fn, acc.best, C)
    BY <1>5, <2>1, <2>2, <2>6
  <2>8. 1..(i + 1) = (1..i) \cup {i + 1}
    OBVIOUS
  <2>9. CASE v = Null
    <3>1. x.best = acc.best
      BY <2>4, <2>9 DEF Added
    <3>2. CellsRead(w, rs, i + 1) = C
      BY <2>2, <2>6, <2>8, <2>9 DEF CellsRead
    <3>3. QED
      BY <2>3, <2>7, <3>1, <3>2
  <2>10. CASE v # Null
    <3>1. CellsRead(w, rs, i + 1) = C \cup {v}
      BY <2>2, <2>6, <2>8, <2>10 DEF CellsRead
    <3>2. OneKind(C \cup {v})
      <4>1. CellsRead(w, rs, i + 1) \subseteq CellsRead(w, rs, n)
        <5>1. 1..(i + 1) \subseteq 1..n
          BY <2>1
        <5>2. QED
          BY <5>1 DEF CellsRead
      <4>2. QED
        BY <3>1, <4>1 DEF OneKind
    <3>3. acc.best \in Cell
      BY DEF Running
    <3>4. x.best = IF acc.best = Null \/ Better(w.fn, v, acc.best) THEN v ELSE acc.best
      <4>1. x.best = IF acc.best = Null THEN v ELSE Best(w.fn, <<acc.best, v>>)
        BY <2>4, <2>5, <2>10 DEF Added
      <4>2. acc.best # Null =>
              Best(w.fn, <<acc.best, v>>) = IF Better(w.fn, v, acc.best) THEN v ELSE acc.best
        BY <3>3, BestOfTwo
      <4>3. QED
        BY <4>1, <4>2
    <3>5. Extreme(w.fn, x.best, C \cup {v})
      BY <2>7, <3>2, <3>4, ExtremeStep
    <3>6. QED
      BY <2>3, <3>1, <3>5
  <2>11. QED
    BY <2>9, <2>10
<1> HIDE DEF T
<1>6. n \in T
  BY <1>4, <1>5, Induction
<1>7. Extreme(w.fn, f[n].best, CellsRead(w, rs, n))
  BY <1>6 DEF T
<1>8. ValueOf(w.fn, f[n], w.arg = 0) = f[n].best
  BY DEF ValueOf
<1>9. QED
  BY <1>3, <1>7, <1>8

Items(vs, n) == {vs[k] : k \in 1..n}

LEMMA BestIsExtreme ==
  ASSUME NEW fn, NEW vs \in Seq(Cell), NEW n, n = Len(vs), OneKind(Items(vs, n))
  PROVE  Extreme(fn, Best(fn, vs), Items(vs, n))
<1>1. n \in Nat
  OBVIOUS
<1>2. PICK f : Choosing(f, fn, vs, n) /\ Best(fn, vs) = f[n]
  BY BestIs
<1> DEFINE T == {i \in Nat : i <= n => Extreme(fn, f[i], Items(vs, i))}
<1>3. 0 \in T
  <2>1. f[0] = Null
    BY <1>2 DEF Choosing
  <2>2. Items(vs, 0) = {}
    BY DEF Items
  <2>3. Extreme(fn, f[0], Items(vs, 0))
    BY <2>1, <2>2 DEF Extreme
  <2>4. QED
    BY <2>3
<1>4. ASSUME NEW i \in Nat, i \in T PROVE i + 1 \in T
  <2> SUFFICES ASSUME i + 1 <= n PROVE Extreme(fn, f[i + 1], Items(vs, i + 1))
    OBVIOUS
  <2>1. i + 1 \in 1..n /\ (i + 1) - 1 = i
    BY <1>1
  <2>2. PICK C, v, b : C = Items(vs, i) /\ v = vs[i + 1] /\ b = f[i]
    OBVIOUS
  <2>3. Extreme(fn, b, C)
    BY <1>4, <2>1, <2>2
  <2>4. f[i + 1] = IF b = Null \/ Better(fn, v, b) THEN v ELSE b
    BY <1>2, <2>1, <2>2 DEF Choosing
  <2>5. Items(vs, i + 1) = C \cup {v}
    <3>1. 1..(i + 1) = (1..i) \cup {i + 1}
      OBVIOUS
    <3>2. QED
      BY <2>2, <3>1 DEF Items
  <2>6. OneKind(C \cup {v})
    <3>1. Items(vs, i + 1) \subseteq Items(vs, n)
      <4>1. 1..(i + 1) \subseteq 1..n
        BY <2>1
      <4>2. QED
        BY <4>1 DEF Items
    <3>2. QED
      BY <2>5, <3>1 DEF OneKind
  <2>7. PICK x : x = f[i + 1]
    OBVIOUS
  <2>8. x = IF b = Null \/ Better(fn, v, b) THEN v ELSE b
    BY <2>4, <2>7
  <2>9. Extreme(fn, x, C \cup {v})
    BY <2>3, <2>6, <2>8, ExtremeStep
  <2>10. QED
    BY <2>5, <2>7, <2>9
<1> HIDE DEF T
<1>5. n \in T
  BY <1>1, <1>3, <1>4, Induction
<1>6. QED
  BY <1>2, <1>5 DEF T

\* Only has every element that is in the set.
LEMMA OnlyHas ==
  ASSUME NEW V, NEW rs \in Seq(V), NEW S, NEW p \in 1..Len(rs), rs[p] \in S
  PROVE  \E q \in 1..Len(Only(rs, S)) : Only(rs, S)[q] = rs[p]
<1>1. PICK t \in Seq(V) : t = Only(rs, S)
  BY OnlyCounts
<1>2. PICK x \in V : x = rs[p]
  OBVIOUS
<1>3. CountIn(t, {x}) = CountIn(rs, S \cap {x}) /\ S \cap {x} = {x}
  <2>1. CountIn(t, {x}) = CountIn(rs, S \cap {x})
    BY <1>1, OnlyCounts
  <2>2. S \cap {x} = {x}
    BY <1>2
  <2>3. QED
    BY <2>1, <2>2
<1>4. PICK D : D = {q \in DOMAIN rs : rs[q] \in {x}}
  OBVIOUS
<1>5. IsFiniteSet(D) /\ p \in D
  <2>1. IsFiniteSet(D)
    BY <1>4, CountType
  <2>2. QED
    BY <1>2, <1>4, <2>1
<1>6. Cardinality(D) # 0
  BY <1>5, FS_EmptySet
<1>7. PICK E : E = {q \in DOMAIN t : t[q] \in {x}}
  OBVIOUS
<1>8. E # {}
  BY <1>3, <1>4, <1>6, <1>7, FS_EmptySet DEF CountIn
<1>9. QED
  BY <1>1, <1>2, <1>7, <1>8

LEMMA AggregateBest ==
  ASSUME NEW w, w.fn \in {"MIN", "MAX"}, NEW V, Readable(V, w.arg), NEW rs \in Seq(V),
         NEW n, n = Len(rs), OneKind(CellsRead(w, rs, n))
  PROVE  Extreme(w.fn, Aggregate(w.fn, rs, w.arg), CellsRead(w, rs, n))
<1>1. n \in Nat /\ DOMAIN rs = 1..n /\ \A i \in 1..n : rs[i] \in V
  OBVIOUS
<1>2. PICK arg : arg = w.arg
  OBVIOUS
<1>3. PICK S : S = {r \in ToSet(rs) : arg = 0 \/ r[arg] # Null}
  OBVIOUS
<1>4. PICK some \in Seq(V) : some = Only(rs, S) /\ \A i \in DOMAIN some : some[i] \in S
  BY OnlyCounts, OnlyMembers
<1>5. PICK vs : vs = IF arg = 0 THEN <<>> ELSE [i \in DOMAIN some |-> some[i][arg]]
  OBVIOUS
<1>6. Aggregate(w.fn, rs, arg) = Best(w.fn, vs)
  <2>1. w.fn # "COUNT" /\ w.fn # "SUM"
    OBVIOUS
  <2>2. QED
    BY <1>3, <1>4, <1>5, <2>1, Zenon DEF Aggregate
<1>7. PICK k \in Nat : k = Len(some) /\ DOMAIN some = 1..k
  OBVIOUS
<1>8. PICK us \in Seq(Cell) : us = vs /\ Items(us, Len(us)) = CellsRead(w, rs, n)
  <2>1. CASE arg = 0
    <3>1. vs = <<>>
      BY <1>5, <2>1
    <3>2. <<>> \in Seq(Cell) /\ Len(<<>>) = 0 /\ 1..0 = {}
      OBVIOUS
    <3>3. Items(vs, Len(vs)) = {}
      BY <3>1, <3>2 DEF Items
    <3>4. CellsRead(w, rs, n) = {}
      BY <1>2, <2>1 DEF CellsRead, Read
    <3>5. QED
      BY <3>1, <3>2, <3>3, <3>4
  <2>2. CASE arg # 0
    <3>1. vs = [i \in 1..k |-> some[i][arg]]
      BY <1>5, <1>7, <2>2
    <3>2. \A r \in V : r[arg] \in Cell
      BY <1>2, <2>2 DEF Readable
    <3>3. vs \in [1..k -> Cell]
      BY <1>7, <3>1, <3>2
    <3>4. vs \in Seq(Cell) /\ Len(vs) = k
      BY <3>3
    <3>5. CellsRead(w, rs, n) = {rs[i][arg] : i \in 1..n} \ {Null}
      BY <1>2, <2>2 DEF CellsRead, Read
    <3>6. ASSUME NEW x \in Items(vs, k) PROVE x \in {rs[i][arg] : i \in 1..n} \ {Null}
      <4>1. PICK i \in 1..k : x = some[i][arg]
        BY <3>1 DEF Items
      <4>2. some[i] \in ToSet(rs) /\ some[i][arg] # Null
        BY <1>3, <1>4, <1>7, <2>2
      <4>3. PICK q \in 1..n : some[i] = rs[q]
        BY <1>1, <4>2 DEF ToSet
      <4>4. QED
        BY <4>1, <4>2, <4>3
    <3>7. ASSUME NEW x \in {rs[i][arg] : i \in 1..n} \ {Null} PROVE x \in Items(vs, k)
      <4>1. PICK i \in 1..n : x = rs[i][arg] /\ x # Null
        OBVIOUS
      <4>2. rs[i] \in S
        BY <1>1, <1>3, <4>1 DEF ToSet
      <4>3. i \in 1..Len(rs)
        OBVIOUS
      <4>4. PICK q \in 1..k : some[q] = rs[i]
        BY <1>4, <1>7, <4>2, <4>3, OnlyHas
      <4>5. QED
        BY <3>1, <4>1, <4>4 DEF Items
    <3>8. QED
      BY <3>4, <3>5, <3>6, <3>7
  <2>3. QED
    BY <2>1, <2>2
<1>9. Extreme(w.fn, Best(w.fn, us), Items(us, Len(us)))
  BY <1>8, BestIsExtreme
<1>10. QED
  BY <1>2, <1>6, <1>8, <1>9

\* The rows up to the peers of the row at p.
FrameSet(w, p) ==
  {r \in ToSet(Numbered(rows)) : Same(w, p, Last(r)) /\ Cmp(w, Last(r), p) <= 0}
Frame(w, p) == Only(Numbered(rows), FrameSet(w, p))

\* The first e rows of a partition are those of the frame.
Framed(w, p, s, e) ==
  /\ \A i \in 1..Len(s) : s[i] \in FrameSet(w, p) <=> i <= e
  /\ \A r \in FrameSet(w, p) : \E i \in 1..e : r = s[i]

LEMMA FrameSplits ==
  ASSUME NEW c \in Nat, NEW w, Windowed(w, c), NEW p \in 1..Len(rows),
         NEW s, NEW V, NEW h, NEW st, NEW at, Watched(s, V, h, st, at, w, p, c),
         NEW e, e = EndOf(st, GroupOf(st, at), Len(s))
  PROVE  e \in 0..Len(s) /\ Framed(w, p, s, e)
<1> USE DEF Watched
<1>1. PICK L \in Nat : L = Len(rows) /\ DOMAIN rows = 1..L
  BY DEF Windowed
<1>2. PICK n \in Nat : n = Len(s) /\ at \in 1..n
  OBVIOUS
<1>3. Grouped(st, s, w.keys, n)
  BY <1>2
<1>4. PICK g \in 1..Len(st) : g = GroupOf(st, at)
  BY <1>2, <1>3, GroupOfIs
<1>5. e \in at..n
  BY <1>2, <1>3, EndIs
<1>6. \A i \in 1..n : i <= e <=> GroupOf(st, i) <= g
  BY <1>2, <1>3, <1>4, EndSplits
<1>7. PICK N : N = Numbered(rows)
  OBVIOUS
<1>8. DOMAIN N = 1..L /\ \A q \in 1..L : Last(N[q]) = q
  <2>1. rows \in Seq(Wide(c))
    BY DEF Windowed
  <2>2. \A q \in 1..Len(rows) : Last(Numbered(rows)[q]) = q
    BY <2>1, NumberedType
  <2>3. DOMAIN N = DOMAIN rows
    BY <1>7 DEF Numbered
  <2>4. QED
    BY <1>1, <1>7, <2>2, <2>3
<1>9. ASSUME NEW i \in 1..n
      PROVE  /\ h[i] \in 1..L /\ s[i] = N[h[i]] /\ Same(w, p, h[i])
             /\ Cmp(w, h[i], p) <= 0 <=> i <= e
  <2>1. h[i] \in 1..L /\ s[i] = N[h[i]] /\ Same(w, p, h[i])
    BY <1>1, <1>2, <1>7 DEF Placed
  <2>2. /\ Cmp(w, h[i], p) < 0 <=> GroupOf(st, i) < GroupOf(st, at)
        /\ Cmp(w, h[i], p) = 0 <=> GroupOf(st, i) = GroupOf(st, at)
    BY <1>2 DEF Told
  <2>3. GroupOf(st, i) \in Int /\ g \in Int
    <3>1. GroupOf(st, i) \in 1..Len(st) /\ Len(st) \in Nat
      <4>1. GroupOf(st, i) \in 1..Len(st)
        BY <1>2, <1>3, GroupOfIs
      <4>2. Len(st) \in Nat
        BY <1>3 DEF Grouped
      <4>3. QED
        BY <4>1, <4>2
    <3>2. QED
      BY <3>1
  <2>4. PICK x \in {-1, 0, 1} : x = Cmp(w, h[i], p)
    BY CompareIs DEF Cmp
  <2>5. x <= 0 <=> GroupOf(st, i) <= g
    BY <1>4, <2>2, <2>3, <2>4
  <2>6. QED
    BY <1>6, <2>1, <2>4, <2>5
<1>10. ASSUME NEW i \in 1..n PROVE s[i] \in FrameSet(w, p) <=> i <= e
  <2>1. s[i] \in ToSet(N) /\ Last(s[i]) = h[i]
    BY <1>8, <1>9 DEF ToSet
  <2>2. QED
    BY <1>7, <1>9, <2>1 DEF FrameSet
<1>11. ASSUME NEW r \in FrameSet(w, p) PROVE \E i \in 1..e : r = s[i]
  <2>1. r \in ToSet(N) /\ Same(w, p, Last(r)) /\ Cmp(w, Last(r), p) <= 0
    BY <1>7 DEF FrameSet
  <2>2. PICK q \in 1..L : r = N[q] /\ Last(r) = q
    BY <1>8, <2>1 DEF ToSet
  <2>3. PICK i \in 1..n : h[i] = q
    BY <1>1, <1>2, <2>1, <2>2 DEF Placed
  <2>4. i <= e /\ r = s[i]
    BY <1>9, <2>1, <2>2, <2>3
  <2>5. i \in 1..e
    BY <1>5, <2>4
  <2>6. QED
    BY <2>4, <2>5
<1>12. QED
  BY <1>2, <1>5, <1>10, <1>11 DEF Framed

LEMMA FrameWeighs ==
  ASSUME NEW c \in Nat, NEW w, Windowed(w, c), NEW p \in 1..Len(rows), NEW s,
         s = Partition(w, rows, KeyOf(rows[p], w.part)), NEW e \in 0..Len(s), Framed(w, p, s, e),
         NEW wt \in [NumberedRows(c) -> Int]
  PROVE  Weight(SubSeq(s, 1, e), wt) = Weight(Frame(w, p), wt)
<1>1. PICK U : U = NumberedRows(c)
  OBVIOUS
<1>2. PICK N \in Seq(U) : N = Numbered(rows)
  BY <1>1, NumberedType DEF Windowed
<1>3. PICK F : F = FrameSet(w, p)
  OBVIOUS
<1>4. PICK S : S = {r \in ToSet(N) : KeyOf(r, w.part) = KeyOf(rows[p], w.part)}
  OBVIOUS
<1>5. PICK t \in Seq(U) : t = Only(N, S)
  BY OnlyCounts
<1>6. PICK x \in Seq(U) : x = SortRows(t, w.keys)
  BY SortedCounts
<1>7. x = s
  BY <1>2, <1>4, <1>5, <1>6 DEF Partition
<1>8. F \subseteq S
  <2>1. ASSUME NEW r \in F PROVE r \in S
    <3>1. r \in ToSet(N) /\ Same(w, p, Last(r))
      BY <1>2, <1>3 DEF FrameSet
    <3>2. PICK q \in 1..Len(rows) : r = N[q] /\ Last(N[q]) = q
      <4>1. rows \in Seq(Wide(c))
        BY DEF Windowed
      <4>2. Len(N) = Len(rows) /\ \A q \in 1..Len(rows) : Last(N[q]) = q
        BY <1>2, <4>1, NumberedType
      <4>3. DOMAIN N = 1..Len(rows)
        BY <4>2
      <4>4. QED
        BY <3>1, <4>2, <4>3 DEF ToSet
    <3>3. KeyOf(N[q], w.part) = KeyOf(rows[q], w.part)
      BY <1>2, NumberedRanks
    <3>4. KeyOf(rows[p], w.part) = KeyOf(rows[q], w.part)
      BY <3>1, <3>2 DEF Same
    <3>5. QED
      BY <1>4, <3>1, <3>2, <3>3, <3>4
  <2>2. QED
    BY <2>1
<1>9. PICK wf \in [U -> Int] : wf = [r \in U |-> IF r \in F THEN wt[r] ELSE 0]
  <2>1. [r \in U |-> IF r \in F THEN wt[r] ELSE 0] \in [U -> Int]
    BY <1>1
  <2>2. QED
    BY <2>1
<1>10. PICK wv \in [U -> Int] : wv = wt
  BY <1>1
<1>11. FrontCounts(U, x, e, wv, wf)
  <2>1. ASSUME NEW i \in 1..Len(x) PROVE wf[x[i]] = IF i <= e THEN wv[x[i]] ELSE 0
    <3>1. x[i] \in U /\ (x[i] \in F <=> i <= e)
      BY <1>3, <1>7 DEF Framed
    <3>2. QED
      BY <1>9, <1>10, <3>1
  <2>2. e \in 0..Len(x)
    BY <1>7
  <2>3. QED
    BY <2>1, <2>2 DEF FrontCounts
<1>12. Weight(SubSeq(x, 1, e), wv) = Weight(x, wf)
  BY <1>11, FrontWeight
<1>13. Weight(x, wf) = Weight(t, wf)
  BY <1>6, SortedWeights
<1>14. Weight(t, wf) = Total(Within(N, S, wf))
  BY <1>5, OnlyWeights
<1>15. Weight(Only(N, F), wv) = Total(Within(N, F, wv))
  BY OnlyWeights
<1>16. Within(N, S, wf) = Within(N, F, wv)
  <2>1. \A q \in DOMAIN N : N[q] \in U
    OBVIOUS
  <2>2. ASSUME NEW r \in U
        PROVE  (IF r \in S THEN wf[r] ELSE 0) = IF r \in F THEN wv[r] ELSE 0
    BY <1>8, <1>9, <1>10
  <2>3. QED
    BY <2>1, <2>2 DEF Within
<1>17. QED
  BY <1>2, <1>3, <1>7, <1>10, <1>12, <1>13, <1>14, <1>15, <1>16 DEF Frame

LEMMA FrameReads ==
  ASSUME NEW c \in Nat, NEW w, Windowed(w, c), w.arg # 0 => Uniform(w.arg),
         NEW p \in 1..Len(rows), NEW s, NEW V, NEW h, NEW st, NEW at,
         Watched(s, V, h, st, at, w, p, c), NEW e \in 0..Len(s), Framed(w, p, s, e),
         NEW m, m = Len(Frame(w, p))
  PROVE  CellsRead(w, s, e) = CellsRead(w, Frame(w, p), m) /\ OneKind(CellsRead(w, s, e))
<1>1. PICK U : U = NumberedRows(c)
  OBVIOUS
<1>2. PICK N \in Seq(U) : N = Numbered(rows)
  BY <1>1, NumberedType DEF Windowed
<1>3. PICK F : F = FrameSet(w, p) /\ F \subseteq ToSet(N)
  BY <1>2 DEF FrameSet
<1>4. PICK t \in Seq(U) : t = Only(N, F) /\ \A i \in DOMAIN t : t[i] \in F
  BY OnlyCounts, OnlyMembers
<1>5. t = Frame(w, p) /\ m = Len(t) /\ m \in Nat /\ DOMAIN t = 1..m
  <2>1. t = Frame(w, p)
    BY <1>2, <1>3, <1>4 DEF Frame
  <2>2. QED
    BY <2>1
<1>6. PICK n \in Nat : n = Len(s) /\ e \in 0..n
  BY DEF Watched
<1>7. PICK L \in Nat : L = Len(rows) /\ DOMAIN rows = 1..L /\ \A q \in 1..L : rows[q] \in Wide(c)
  BY DEF Windowed
<1>8. CASE w.arg = 0
  <2>1. CellsRead(w, s, e) = {} /\ CellsRead(w, t, m) = {}
    BY <1>8 DEF CellsRead, Read
  <2>2. QED
    BY <1>5, <2>1 DEF OneKind
<1>9. CASE w.arg # 0
  <2>1. PICK a \in 1..c : a = w.arg /\ Uniform(a)
    BY <1>9 DEF Windowed
  <2>2. PICK C : C = {s[i][a] : i \in 1..e} \ {Null} /\ C = CellsRead(w, s, e)
    BY <1>9, <2>1 DEF CellsRead, Read
  <2>3. PICK D : D = {t[i][a] : i \in 1..m} \ {Null} /\ D = CellsRead(w, t, m)
    BY <1>9, <2>1 DEF CellsRead, Read
  <2>4. ASSUME NEW i \in 1..e PROVE \E j \in 1..m : t[j] = s[i]
    <3>1. s[i] \in F
      <4>1. i \in 1..n /\ i <= e
        BY <1>6
      <4>2. QED
        BY <1>3, <1>6, <4>1 DEF Framed
    <3>2. PICK q \in 1..Len(N) : N[q] = s[i]
      <4>1. s[i] \in ToSet(N)
        BY <1>3, <3>1
      <4>2. QED
        BY <4>1 DEF ToSet
    <3>3. \E j \in 1..Len(Only(N, F)) : Only(N, F)[j] = N[q]
      BY <3>1, <3>2, OnlyHas
    <3>4. QED
      BY <1>4, <1>5, <3>2, <3>3
  <2>5. ASSUME NEW j \in 1..m PROVE \E i \in 1..e : t[j] = s[i]
    <3>1. t[j] \in F
      BY <1>4, <1>5
    <3>2. QED
      BY <1>3, <3>1 DEF Framed
  <2>6. C = D
    <3>1. ASSUME NEW x \in C PROVE x \in D
      <4>1. PICK i \in 1..e : x = s[i][a] /\ x # Null
        BY <2>2
      <4>2. PICK j \in 1..m : t[j] = s[i]
        BY <2>4
      <4>3. QED
        BY <2>3, <4>1, <4>2
    <3>2. ASSUME NEW x \in D PROVE x \in C
      <4>1. PICK j \in 1..m : x = t[j][a] /\ x # Null
        BY <2>3
      <4>2. PICK i \in 1..e : t[j] = s[i]
        BY <2>5
      <4>3. QED
        BY <2>2, <4>1, <4>2
    <3>3. QED
      BY <3>1, <3>2
  <2>7. ASSUME NEW x \in C PROVE \E q \in 1..L : x = rows[q][a] /\ x \in Cell /\ x # Null
    <3>1. PICK i \in 1..e : x = s[i][a] /\ x # Null
      BY <2>2
    <3>2. i \in 1..n
      BY <1>6
    <3>3. s[i][a] = rows[h[i]][a] /\ h[i] \in 1..L
      <4>1. \A k \in 1..c : s[i][k] = rows[h[i]][k]
        BY <1>6, <3>2 DEF Watched
      <4>2. Placed(h, w, p, n)
        BY <1>6 DEF Watched
      <4>3. h[i] \in 1..L
        BY <1>7, <3>2, <4>2 DEF Placed
      <4>4. QED
        BY <2>1, <4>1, <4>3
    <3>4. rows[h[i]][a] \in Cell
      BY <1>7, <2>1, <3>3 DEF Wide
    <3>5. QED
      BY <3>1, <3>3, <3>4
  <2>8. OneKind(C)
    <3>1. C \subseteq Cell /\ Null \notin C
      BY <2>7
    <3>2. ASSUME NEW x \in C, NEW y \in C PROVE Num(x) = NoNumber <=> Num(y) = NoNumber
      <4>1. PICK q \in 1..L : x = rows[q][a] /\ x # Null
        BY <2>7
      <4>2. PICK r \in 1..L : y = rows[r][a] /\ y # Null
        BY <2>7
      <4>3. q \in DOMAIN rows /\ r \in DOMAIN rows
        BY <1>7
      <4>4. QED
        BY <2>1, <4>1, <4>2, <4>3 DEF Uniform
    <3>3. QED
      BY <3>1, <3>2 DEF OneKind
  <2>9. QED
    BY <1>5, <2>2, <2>3, <2>6, <2>8
<1>10. QED
  BY <1>8, <1>9

LEMMA TieWithSelf == ASSUME NEW a \in Cell PROVE CompareTerm(a, a, FALSE) = 0
<1>1. PICK x \in {-1, 0, 1} : x = Rising(a, a) /\ x = -x
  <2>1. Rising(a, a) \in {-1, 0, 1} /\ Rising(a, a) = -Rising(a, a)
    BY RisingType, RisingFlips
  <2>2. QED
    BY <2>1
<1>2. x = 0
  BY <1>1
<1>3. QED
  BY <1>1, <1>2, TermIs

\* The aggregates over a growing frame.
LEMMA RunningMean ==
  ASSUME NEW c \in Nat, NEW w, Windowed(w, c), w.fn \in Aggregates,
         w.arg # 0 => Uniform(w.arg)
  PROVE  RunningAggregateAgrees(w)
<1>1. DOMAIN rows = 1..Len(rows) /\ rows \in Seq(Wide(c)) /\ w.arg \in 0..c
  BY DEF Windowed
<1>2. ASSUME NEW p \in 1..Len(rows)
      PROVE  CompareTerm(EvalWindow(w, rows)[p], Aggregate(w.fn, Frame(w, p), w.arg), FALSE) = 0
  <2>1. PICK s, V, h, st, at : Watched(s, V, h, st, at, w, p, c)
    BY RowIsSeen
  <2>2. PICK e : e = EndOf(st, GroupOf(st, at), Len(s))
    OBVIOUS
  <2>3. e \in 0..Len(s) /\ Framed(w, p, s, e)
    BY <2>1, <2>2, FrameSplits
  <2>4. PICK U : U = NumberedRows(c)
    OBVIOUS
  <2>5. PICK x \in Seq(U) : x = s
    <3>1. s \in Seq(V) /\ V \subseteq NumberedRows(c)
      BY <2>1 DEF Watched
    <3>2. s \in Seq(U)
      BY <2>4, <3>1
    <3>3. QED
      BY <3>2
  <2>6. PICK t \in Seq(U) : t = Frame(w, p)
    <3>1. Numbered(rows) \in Seq(U)
      BY <1>1, <2>4, NumberedType
    <3>2. Only(Numbered(rows), FrameSet(w, p)) \in Seq(U)
      BY <3>1, OnlyCounts
    <3>3. QED
      BY <3>2 DEF Frame
  <2>7. Readable(U, w.arg)
    <3>1. ASSUME NEW r \in U, w.arg # 0 PROVE r[w.arg] \in Cell
      <4>1. PICK k \in 1..c : k = w.arg
        BY <1>1, <3>1
      <4>2. QED
        BY <2>4, <4>1, NumberedRead
    <3>2. QED
      BY <3>1 DEF Readable
  <2>8. PICK d \in 0..Len(x) : d = e
    BY <2>3, <2>5
  <2>9. EvalWindow(w, rows)[p] = ValueOf(w.fn, Accumulated(w, x, d), w.arg = 0)
    <3>1. at \in DOMAIN s /\ EvalWindow(w, rows)[p] = WindowValues(w, s)[at]
          /\ st = Starts(s, w.keys)
      BY <2>1 DEF Watched
    <3>2. w.fn # "ROW_NUMBER" /\ w.fn # "RANK" /\ w.fn # "DENSE_RANK"
      BY DEF Aggregates
    <3>3. WindowValues(w, s)[at] = ValueOf(w.fn, Accumulated(w, s, e), w.arg = 0)
      BY <2>2, <3>1, <3>2, WindowValueIs
    <3>4. QED
      BY <2>5, <2>8, <3>1, <3>3
  <2>10. CASE w.fn \in {"COUNT", "SUM"}
    <3>1. PICK wt \in [U -> Int] : wt = Adds(w.fn, w.arg, U)
      BY <2>7, AddsType
    <3>2. PICK y \in Int : y = Weight(t, wt)
      BY WeightInt
    <3>3. Weight(SubSeq(s, 1, e), wt) = y
      <4>1. s = Partition(w, rows, KeyOf(rows[p], w.part))
        BY <2>1 DEF Watched
      <4>2. wt \in [NumberedRows(c) -> Int]
        BY <2>4
      <4>3. Weight(SubSeq(s, 1, e), wt) = Weight(Frame(w, p), wt)
        BY <2>3, <4>1, <4>2, FrameWeighs
      <4>4. QED
        BY <2>6, <3>2, <4>3
    <3>4. ValueOf(w.fn, Accumulated(w, x, d), w.arg = 0) = Number(Weight(SubSeq(x, 1, d), wt))
      BY <2>7, <2>10, <3>1, RunningAdds
    <3>5. Aggregate(w.fn, t, w.arg) = Number(y)
      <4>1. Aggregate(w.fn, t, w.arg) = Number(Weight(t, Adds(w.fn, w.arg, U)))
        BY <2>7, <2>10, AggregateIs
      <4>2. QED
        BY <3>1, <3>2, <4>1
    <3>6. EvalWindow(w, rows)[p] = Number(y)
      BY <2>5, <2>8, <2>9, <3>3, <3>4
    <3>7. PICK v \in Cell : v = Number(y)
      BY NumberType
    <3>8. CompareTerm(v, v, FALSE) = 0
      BY TieWithSelf
    <3>9. QED
      BY <2>6, <3>5, <3>6, <3>7, <3>8
  <2>11. CASE w.fn \in {"MIN", "MAX"}
    <3>1. PICK m : m = Len(t)
      OBVIOUS
    <3>2. CellsRead(w, s, e) = CellsRead(w, Frame(w, p), m) /\ OneKind(CellsRead(w, s, e))
      BY <2>1, <2>3, <2>6, <3>1, FrameReads
    <3>3. /\ CellsRead(w, x, d) = CellsRead(w, t, m) /\ OneKind(CellsRead(w, x, d))
          /\ OneKind(CellsRead(w, t, m))
      BY <2>5, <2>6, <2>8, <3>2
    <3>4. Extreme(w.fn, ValueOf(w.fn, Accumulated(w, x, d), w.arg = 0), CellsRead(w, x, d))
      BY <2>7, <2>11, <3>3, RunningBest
    <3>5. Extreme(w.fn, Aggregate(w.fn, t, w.arg), CellsRead(w, t, m))
      BY <2>7, <2>11, <3>1, <3>3, AggregateBest
    <3>6. PICK C, a, b : /\ C = CellsRead(w, t, m) /\ OneKind(C)
                         /\ a = ValueOf(w.fn, Accumulated(w, x, d), w.arg = 0)
                         /\ b = Aggregate(w.fn, t, w.arg)
                         /\ Extreme(w.fn, a, C) /\ Extreme(w.fn, b, C)
      BY <3>3, <3>4, <3>5
    <3>7. OneKind(C) /\ Extreme(w.fn, a, C) /\ Extreme(w.fn, b, C)
      BY <3>6
    <3>8. CompareTerm(a, b, FALSE) = 0
      BY <3>7, ExtremesTie
    <3>9. QED
      BY <2>6, <2>9, <3>6, <3>8
  <2>12. QED
    BY <2>10, <2>11 DEF Aggregates
<1>3. QED
  BY <1>1, <1>2 DEF RunningAggregateAgrees, Frame, FrameSet, Numbered

LEMMA WindowsMean == Rectangular => WindowsAgree
<1> SUFFICES ASSUME Rectangular, NEW w \in Windows, Applicable(w)
             PROVE  IF w.fn \in Ranking THEN RanksCount(w)
                    ELSE (w.arg # 0 => Uniform(w.arg)) => RunningAggregateAgrees(w)
  BY DEF WindowsAgree
<1>1. PICK c \in Nat : c = Len(cols) /\ DOMAIN cols = 1..c /\ rows \in Seq(Wide(c))
  BY DEF Rectangular, ToOrder, Applicable
<1>2. /\ w.fn \in Ranking \cup Aggregates /\ w.arg \in Nat
      /\ w.part \in Seq(Nat) /\ w.keys \in Keys
  BY ClausesAssumption
<1>3. ToSet(w.part) \subseteq 1..c /\ Places(w.keys) \subseteq 1..c /\ {w.arg} \ {0} \subseteq 1..c
  BY <1>1 DEF Applicable, Resolved, Resolve
<1>4. w.part \in Seq(1..c)
  <2>1. PICK n \in Nat : n = Len(w.part) /\ DOMAIN w.part = 1..n /\ w.part \in [1..n -> Nat]
    BY <1>2
  <2>2. \A i \in 1..n : w.part[i] \in 1..c
    BY <1>3, <2>1 DEF ToSet
  <2>3. PICK P : P = 1..c
    OBVIOUS
  <2>4. w.part \in [1..n -> P]
    BY <2>1, <2>2, <2>3
  <2>5. QED
    BY <2>3, <2>4
<1>5. Windowed(w, c)
  <2>1. w.arg \in 0..c
    BY <1>2, <1>3
  <2>2. \A at \in Places(w.keys) : Uniform(at)
    BY DEF Applicable
  <2>3. QED
    BY <1>1, <1>2, <1>3, <1>4, <2>1, <2>2 DEF Windowed
<1>6. CASE w.fn \in Ranking
  BY <1>5, <1>6, RanksMean
<1>7. CASE w.fn \notin Ranking
  <2>1. w.fn \in Aggregates
    BY <1>2, <1>7
  <2>2. (w.arg # 0 => Uniform(w.arg)) => RunningAggregateAgrees(w)
    BY <1>5, <2>1, RunningMean
  <2>3. QED
    BY <1>7, <2>2
<1>8. QED
  BY <1>6, <1>7

\* One pass over a sorted partition with running state gives every row its
\* number, its rank or the aggregate of the rows up to its peers.
THEOREM WindowsCountAndAggregate == SelectSpec => []WindowsAgree
  BY InitFresh, NextFresh, InitRectangular, NextRectangular, WindowsMean, PTL DEF SelectSpec
===============================================================================
