---------------------------- MODULE DataInduction ----------------------------
(***************************************************************************)
(* Induction over numbers and over the length of sequences, stated with    *)
(* sets: the theorems of the library are about operators, which no prover  *)
(* here can give.  A set of finite sets has a smallest one, so a set of    *)
(* numbers has a least one, and what holds for 0, and for n + 1 if it      *)
(* holds for n, holds for all.  With it: what the recursive functions of   *)
(* the community modules that the models are built from compute.           *)
(***************************************************************************)
EXTENDS Integers, Sequences, SequencesExt, FiniteSetTheorems, SequenceTheorems, TLAPS

-----------------------------------------------------------------------------
(* Numbers *)

LEMMA LeastSubset ==
  ASSUME NEW S, NEW T, T \subseteq FiniteSubsetsOf(S), T # {}
  PROVE  \E A \in T : \A B \in T : B \subseteq A => B = A
<1>1. \E A \in T : \A B \in T : ~(<<B, A>> \in StrictSubsetOrdering(S))
  BY FS_StrictSubsetOrderingWellFounded, WFMin
<1>2. PICK A \in T : \A B \in T : ~(<<B, A>> \in StrictSubsetOrdering(S))
  BY <1>1
<1>3. \A B \in T : B \in SUBSET S
  BY DEF FiniteSubsetsOf
<1>4. ASSUME NEW B \in T, B \subseteq A PROVE B = A
  <2>1. <<B, A>> \in (SUBSET S) \X (SUBSET S)
    BY <1>3
  <2> QED BY <1>2, <1>4, <2>1 DEF StrictSubsetOrdering
<1> QED BY <1>4

LEMMA LeastNumber ==
  ASSUME NEW P, P \subseteq Nat, P # {}
  PROVE  \E n \in P : \A m \in P : n <= m
<1> DEFINE T == {0..n : n \in P}
<1>1. \A n \in P : 0..n \in FiniteSubsetsOf(Nat)
  <2> TAKE n \in P
  <2>1. IsFiniteSet(0..n)
    BY FS_Interval
  <2> QED BY <2>1 DEF FiniteSubsetsOf
<1>2. T \subseteq FiniteSubsetsOf(Nat) /\ T # {}
  BY <1>1
<1>3. PICK A \in T : \A B \in T : B \subseteq A => B = A
  <2> HIDE DEF T
  <2> QED BY <1>2, LeastSubset
<1>4. PICK n \in P : A = 0..n
  BY <1>3
<1>5. ASSUME NEW m \in P, ~(n <= m) PROVE FALSE
  <2>1. 0..m \subseteq 0..n
    BY <1>5
  <2>2. 0..m = 0..n
    BY <1>3, <1>4, <2>1
  <2>3. n \in 0..m
    BY <2>2
  <2> QED BY <1>5, <2>3
<1> QED BY <1>5

LEMMA AllNumbers ==
  ASSUME NEW P, P \subseteq Nat, 0 \in P, \A n \in P : n + 1 \in P
  PROVE  P = Nat
<1> SUFFICES ASSUME Nat \ P # {} PROVE FALSE
  OBVIOUS
<1>1. PICK n \in Nat \ P : \A m \in Nat \ P : n <= m
  <2>1. Nat \ P \subseteq Nat
    OBVIOUS
  <2> QED BY <2>1, LeastNumber
<1>2. n # 0 /\ n - 1 \in Nat
  BY <1>1
<1>3. n - 1 \in P
  BY <1>1, <1>2
<1>4. (n - 1) + 1 \in P
  BY <1>3
<1> QED BY <1>1, <1>2, <1>4

(* What holds for 0 and, up to n, for m + 1 if for m, holds up to n        *)
LEMMA UpTo ==
  ASSUME NEW n \in Nat, NEW P, 0 \in P, \A m \in 0..n : m < n /\ m \in P => m + 1 \in P
  PROVE  0..n \subseteq P
<1> DEFINE Q == {m \in Nat : m <= n => m \in P}
<1>1. Q \subseteq Nat /\ 0 \in Q
  OBVIOUS
<1>2. \A m \in Q : m + 1 \in Q
  OBVIOUS
<1>3. Q = Nat
  <2> HIDE DEF Q
  <2> QED BY <1>1, <1>2, AllNumbers
<1> QED BY <1>3

-----------------------------------------------------------------------------
(* Recursion.  A function that is defined from 1 on by its predecessor,    *)
(* with the step as a function, exists and is the only one.                *)

RunsThrough(f, n, a, step) ==
  /\ DOMAIN f = 0..n /\ f[0] = a
  /\ \A i \in 1..n : f[i] = step[<<i, f[i - 1]>>]

LEMMA RecursionExists ==
  ASSUME NEW S, NEW n \in Nat, NEW a \in S, NEW step \in [(1..n) \X S -> S]
  PROVE  \E f \in [0..n -> S] : RunsThrough(f, n, a, step)
<1> DEFINE P == {m \in 0..n : \E f \in [0..m -> S] : RunsThrough(f, m, a, step)}
<1>1. 0 \in P
  <2> DEFINE f == [i \in 0..0 |-> a]
  <2>1. f \in [0..0 -> S] /\ RunsThrough(f, 0, a, step)
    BY DEF RunsThrough
  <2> QED BY <2>1
<1>2. ASSUME NEW m \in 0..n, m < n, m \in P PROVE m + 1 \in P
  <2>1. PICK f \in [0..m -> S] : RunsThrough(f, m, a, step)
    BY <1>2
  <2> DEFINE g == [i \in 0..(m + 1) |-> IF i <= m THEN f[i] ELSE step[<<m + 1, f[m]>>]]
  <2>2. f[m] \in S /\ <<m + 1, f[m]>> \in (1..n) \X S
    BY <1>2
  <2>3. g \in [0..(m + 1) -> S]
    BY <2>2
  <2>4. g[0] = a
    BY <2>1 DEF RunsThrough
  <2>5. ASSUME NEW i \in 1..(m + 1) PROVE g[i] = step[<<i, g[i - 1]>>]
    <3>1. CASE i <= m
      BY <3>1, <2>1 DEF RunsThrough
    <3>2. CASE i = m + 1
      BY <3>2
    <3> QED BY <3>1, <3>2
  <2>6. RunsThrough(g, m + 1, a, step)
    <3> HIDE DEF g
    <3> QED BY <2>3, <2>4, <2>5 DEF RunsThrough
  <2> HIDE DEF g
  <2> QED BY <1>2, <2>3, <2>6
<1>3. 0..n \subseteq P
  <2> HIDE DEF P
  <2> QED BY <1>1, <1>2, UpTo
<1> QED BY <1>3

-----------------------------------------------------------------------------
(* FlattenSeq, by what it makes of the first n sequences, for each n       *)

Flattens(f, q) ==
  /\ f[0] = <<>>
  /\ \A i \in 1..Len(q) : f[i] = f[i - 1] \o q[i]

AreAssociated(S) == \A a, b, c \in Seq(S) : (a \o b) \o c = a \o (b \o c)

LEMMA Associates ==
  ASSUME NEW S
  PROVE  AreAssociated(S)
<1>1. ASSUME NEW a \in Seq(S), NEW b \in Seq(S), NEW c \in Seq(S)
      PROVE  (a \o b) \o c = a \o (b \o c)
  BY ConcatAssociative
<1> QED BY <1>1 DEF AreAssociated

LEMMA FlatteningExists ==
  ASSUME NEW S, NEW q \in Seq(Seq(S))
  PROVE  \E f \in [0..Len(q) -> Seq(S)] : Flattens(f, q)
<1> DEFINE n == Len(q)
           Step(i, a) == a \o q[i]
           step == [p \in (1..n) \X Seq(S) |-> Step(p[1], p[2])]
<1>1. n \in Nat /\ <<>> \in Seq(S)
  OBVIOUS
<1>2. \A i \in 1..n, a \in Seq(S) : Step(i, a) \in Seq(S)
  OBVIOUS
<1> HIDE DEF n, Step
<1>3. step \in [(1..n) \X Seq(S) -> Seq(S)]
  BY <1>2
<1>4. PICK f \in [0..n -> Seq(S)] : RunsThrough(f, n, <<>>, step)
  <2> HIDE DEF step
  <2> QED BY <1>1, <1>3, RecursionExists
<1>5. f[0] = <<>> /\ \A i \in 1..n : f[i] = step[<<i, f[i - 1]>>]
  BY <1>4 DEF RunsThrough
<1>6. ASSUME NEW i \in 1..n PROVE f[i] = Step(i, f[i - 1])
  <2>1. i - 1 \in 0..n
    BY <1>1
  <2>2. <<i, f[i - 1]>> \in (1..n) \X Seq(S)
    BY <2>1
  <2> QED BY <1>5, <2>2
<1> QED BY <1>5, <1>6 DEF Flattens, Step, n

LEMMA FlattenIs ==
  ASSUME NEW S, NEW q \in Seq(Seq(S)), NEW f \in [0..Len(q) -> Seq(S)], Flattens(f, q)
  PROVE  FlattenSeq(q) = f[Len(q)]
<1> DEFINE n == Len(q)
           h == [i \in 1..n |-> f[i]]
           g == CHOOSE g : g = [i \in 1..Len(q) |-> IF i = 1 THEN q[i] ELSE g[i - 1] \o q[i]]
<1>1. n \in Nat /\ (n = 0 <=> q = <<>>) /\ \A i \in 1..n : q[i] \in Seq(S)
  OBVIOUS
<1>2. CASE q = <<>>
  BY <1>2 DEF FlattenSeq, Flattens
<1>3. CASE q # <<>>
  <2>1. ASSUME NEW i \in 1..n PROVE f[i] = IF i = 1 THEN q[i] ELSE f[i - 1] \o q[i]
    <3>1. f[i] = f[i - 1] \o q[i] /\ f[0] = <<>>
      BY DEF Flattens
    <3>2. <<>> \o q[i] = q[i]
      BY <1>1, ConcatEmptySeq
    <3>3. CASE i = 1
      <4>1. i - 1 = 0
        BY <3>3
      <4> QED BY <3>1, <3>2, <3>3, <4>1
    <3> QED BY <3>1, <3>3
  <2>2. h = [i \in 1..n |-> IF i = 1 THEN q[i] ELSE h[i - 1] \o q[i]]
    <3>1. ASSUME NEW i \in 1..n PROVE f[i] = IF i = 1 THEN q[i] ELSE h[i - 1] \o q[i]
      <4>1. CASE i = 1
        BY <2>1, <4>1
      <4>2. CASE i # 1
        <5>1. i - 1 \in 1..n
          BY <1>1, <4>2
        <5>2. h[i - 1] = f[i - 1]
          BY <5>1
        <5> HIDE DEF h
        <5> QED BY <2>1, <4>2, <5>2
      <4> QED BY <4>1, <4>2
    <3> QED BY <3>1
  <2>3. \E k : k = [i \in 1..Len(q) |-> IF i = 1 THEN q[i] ELSE k[i - 1] \o q[i]]
    <3> HIDE DEF h
    <3> QED BY <2>2 DEF n
  <2>4. g = [i \in 1..Len(q) |-> IF i = 1 THEN q[i] ELSE g[i - 1] \o q[i]]
    BY <2>3
  <2>5. FlattenSeq(q) = g[n]
    BY <1>1, <1>3 DEF FlattenSeq
  <2> HIDE DEF g, h
  <2>6. \A i \in 1..n : g[i] = IF i = 1 THEN q[i] ELSE g[i - 1] \o q[i]
    BY <2>4 DEF n
  <2> HIDE DEF n
  <2> DEFINE P == {m \in Nat : m = 0 \/ g[m] = f[m]}
  <2>7. 0 \in P
    OBVIOUS
  <2>8. ASSUME NEW m \in 0..n, m < n, m \in P PROVE m + 1 \in P
    <3>1. m + 1 \in 1..n /\ (m + 1) - 1 = m /\ m + 1 \in Nat
      BY <1>1, <2>8
    <3>2. CASE m = 0
      <4>1. g[m + 1] = q[m + 1] /\ f[m + 1] = q[m + 1]
        BY <2>1, <2>6, <3>1, <3>2
      <4> QED BY <3>1, <4>1
    <3>3. CASE m # 0
      <4>1. m + 1 # 1 /\ g[m] = f[m]
        BY <2>8, <3>3
      <4>2. g[m + 1] = g[m] \o q[m + 1] /\ f[m + 1] = f[m] \o q[m + 1]
        BY <2>1, <2>6, <3>1, <4>1
      <4>3. g[m + 1] = f[m + 1]
        BY <4>1, <4>2
      <4> QED BY <3>1, <4>3
    <3> QED BY <3>2, <3>3
  <2>9. 0..n \subseteq P
    <3> HIDE DEF P
    <3> QED BY <1>1, <2>7, <2>8, UpTo
  <2>10. n \in P /\ n # 0
    BY <1>1, <1>3, <2>9
  <2> QED BY <2>5, <2>10 DEF n
<1> QED BY <1>2, <1>3

LEMMA FlattenTypes ==
  ASSUME NEW S, NEW q \in Seq(Seq(S))
  PROVE  FlattenSeq(q) \in Seq(S) /\ FlattenSeq(<<>>) = <<>>
<1>1. FlattenSeq(<<>>) = <<>>
  BY DEF FlattenSeq
<1>2. PICK f \in [0..Len(q) -> Seq(S)] : Flattens(f, q)
  BY FlatteningExists
<1>3. Len(q) \in 0..Len(q)
  OBVIOUS
<1>4. FlattenSeq(q) = f[Len(q)]
  BY <1>2, FlattenIs
<1> QED BY <1>1, <1>3, <1>4

(* A sequence more at the end, or one less at the beginning                *)
LEMMA FlattenAppend ==
  ASSUME NEW S, NEW q \in Seq(Seq(S)), NEW s \in Seq(S)
  PROVE  FlattenSeq(Append(q, s)) = FlattenSeq(q) \o s
<1> DEFINE r == Append(q, s)
           n == Len(q)
<1>1. r \in Seq(Seq(S)) /\ n \in Nat
  OBVIOUS
<1>2. Len(r) = n + 1 /\ r[n + 1] = s /\ \A i \in 1..n : r[i] = q[i]
  OBVIOUS
<1>3. PICK f \in [0..Len(q) -> Seq(S)] : Flattens(f, q)
  BY FlatteningExists
<1>4. FlattenSeq(q) = f[n]
  BY <1>3, FlattenIs
<1>5. f[0] = <<>> /\ \A i \in 1..n : f[i] = f[i - 1] \o q[i]
  BY <1>3 DEF Flattens
<1>6. f \in [0..n -> Seq(S)]
  OBVIOUS
<1> HIDE DEF r, n
<1>7. f[n] \in Seq(S)
  BY <1>1, <1>6
<1> DEFINE e == f[n] \o s
           g == [i \in 0..(n + 1) |-> IF i <= n THEN f[i] ELSE e]
<1>8. e \in Seq(S)
  BY <1>7
<1> HIDE DEF e
<1>9. g \in [0..(n + 1) -> Seq(S)]
  BY <1>1, <1>6, <1>8
<1>10. /\ g[0] = f[0] /\ g[n] = f[n] /\ g[n + 1] = e
       /\ \A i \in 1..n : g[i] = f[i] /\ g[i - 1] = f[i - 1]
  BY <1>1
<1> HIDE DEF g
<1>11. ASSUME NEW i \in 1..Len(r) PROVE g[i] = g[i - 1] \o r[i]
  <2>1. i \in 1..(n + 1)
    BY <1>2
  <2>2. CASE i \in 1..n
    BY <1>2, <1>5, <1>10, <2>2
  <2>3. CASE i = n + 1
    <3>1. i - 1 = n
      BY <1>1, <2>3
    <3> QED BY <1>2, <1>10, <2>3, <3>1 DEF e
  <2>4. i \in 1..n \/ i = n + 1
    BY <1>1, <2>1
  <2> QED BY <2>2, <2>3, <2>4
<1>12. Flattens(g, r)
  BY <1>5, <1>10, <1>11 DEF Flattens
<1>13. FlattenSeq(r) = g[n + 1]
  <2>1. g \in [0..Len(r) -> Seq(S)]
    BY <1>2, <1>9
  <2> QED BY <1>1, <1>2, <1>12, <2>1, FlattenIs
<1> QED BY <1>4, <1>10, <1>13 DEF r, e

LEMMA FlattenHead ==
  ASSUME NEW S, NEW q \in Seq(Seq(S)), q # <<>>
  PROVE  FlattenSeq(q) = Head(q) \o FlattenSeq(Tail(q))
<1>0. \A a, b, c \in Seq(S) : (a \o b) \o c = a \o (b \o c)
  <2>1. AreAssociated(S)
    BY Associates
  <2> QED BY <2>1 DEF AreAssociated
<1> DEFINE t == Tail(q)
           n == Len(t)
<1>1. t \in Seq(Seq(S)) /\ Len(t) = Len(q) - 1 /\ Len(q) \in Nat
  BY HeadTailProperties
<1>2. Head(q) = q[1] /\ q[1] \in Seq(S) /\ q[1] \o <<>> = q[1]
  <2>1. Head(q) = q[1] /\ q[1] \in Seq(S)
    OBVIOUS
  <2> QED BY <2>1, ConcatEmptySeq
<1>3. n \in Nat /\ Len(q) = n + 1
  BY <1>1
<1>4. \A i \in 1..n : t[i] = q[i + 1] /\ t[i] \in Seq(S)
  BY <1>1, HeadTailProperties
<1>5. PICK f \in [0..Len(q) -> Seq(S)] : Flattens(f, q)
  BY FlatteningExists
<1>6. PICK g \in [0..Len(t) -> Seq(S)] : Flattens(g, t)
  BY <1>1, FlatteningExists
<1>7. FlattenSeq(q) = f[n + 1] /\ FlattenSeq(t) = g[n]
  <2>1. FlattenSeq(q) = f[Len(q)]
    BY <1>5, FlattenIs
  <2>2. FlattenSeq(t) = g[Len(t)]
    BY <1>1, <1>6, FlattenIs
  <2> QED BY <1>3, <2>1, <2>2
<1>8. f[0] = <<>> /\ \A i \in 1..(n + 1) : f[i] = f[i - 1] \o q[i]
  BY <1>3, <1>5 DEF Flattens
<1>9. g[0] = <<>> /\ \A i \in 1..n : g[i] = g[i - 1] \o t[i] /\ g[i - 1] \in Seq(S)
  <2>1. g[0] = <<>> /\ \A i \in 1..n : g[i] = g[i - 1] \o t[i]
    BY <1>6 DEF Flattens
  <2>2. \A i \in 1..n : i - 1 \in 0..Len(t)
    BY <1>3
  <2> QED BY <2>1, <2>2
<1> HIDE DEF n, t
<1> DEFINE P == {m \in Nat : f[m + 1] = q[1] \o g[m]}
<1>10. 0 \in P
  <2>1. 1 \in 1..(n + 1) /\ 1 - 1 = 0 /\ 0 + 1 = 1
    BY <1>3
  <2>2. f[1] = <<>> \o q[1]
    BY <1>8, <2>1
  <2>3. <<>> \o q[1] = q[1]
    BY <1>2, ConcatEmptySeq
  <2>4. f[0 + 1] = q[1] \o g[0]
    BY <1>2, <1>9, <2>1, <2>2, <2>3
  <2> QED BY <2>4
<1>11. ASSUME NEW m \in 0..n, m < n, m \in P PROVE m + 1 \in P
  <2>1. /\ m + 1 \in 1..n /\ m + 2 \in 1..(n + 1) /\ m + 1 \in Nat
        /\ (m + 1) - 1 = m /\ (m + 2) - 1 = m + 1 /\ (m + 1) + 1 = m + 2
    BY <1>3, <1>11
  <2>2. f[m + 2] = f[m + 1] \o q[m + 2]
    BY <1>8, <2>1
  <2>3. g[m + 1] = g[m] \o t[m + 1] /\ g[m] \in Seq(S)
    BY <1>9, <2>1
  <2>4. t[m + 1] = q[m + 2] /\ t[m + 1] \in Seq(S)
    BY <1>4, <2>1
  <2>5. f[m + 1] = q[1] \o g[m]
    BY <1>11
  <2>6. (q[1] \o g[m]) \o t[m + 1] = q[1] \o (g[m] \o t[m + 1])
    BY <1>0, <1>2, <2>3, <2>4
  <2>7. f[(m + 1) + 1] = q[1] \o g[m + 1]
    BY <2>1, <2>2, <2>3, <2>4, <2>5, <2>6
  <2> QED BY <2>1, <2>7
<1>12. 0..n \subseteq P
  <2> HIDE DEF P
  <2> QED BY <1>3, <1>10, <1>11, UpTo
<1>13. f[n + 1] = q[1] \o g[n]
  <2>1. n \in 0..n
    BY <1>3
  <2>2. n \in P
    BY <1>12, <2>1
  <2> QED BY <2>2
<1> QED BY <1>2, <1>7, <1>13 DEF t

-----------------------------------------------------------------------------
(* The elements of a sequence, and sequences of numbers that increase      *)

LEMMA ElementsOf ==
  ASSUME NEW S, NEW a \in Seq(S)
  PROVE  /\ ToSet(a) = {a[i] : i \in 1..Len(a)} /\ ToSet(a) \subseteq S
         /\ ToSet(<<>>) = {} /\ Len(a) \in Nat /\ DOMAIN a = 1..Len(a)
  BY DEF ToSet

LEMMA ElementsOfBoth ==
  ASSUME NEW S, NEW a \in Seq(S), NEW b \in Seq(S)
  PROVE  ToSet(a \o b) = ToSet(a) \cup ToSet(b)
<1> DEFINE c == a \o b
           m == Len(a)
           n == Len(b)
<1>1. /\ c \in Seq(S) /\ Len(c) = m + n
      /\ \A i \in 1..(m + n) : c[i] = IF i <= m THEN a[i] ELSE b[i - m]
  BY ConcatProperties
<1>2. m \in Nat /\ n \in Nat
  OBVIOUS
<1> HIDE DEF c
<1>3. /\ ToSet(c) = {c[i] : i \in 1..Len(c)} /\ ToSet(a) = {a[i] : i \in 1..Len(a)}
      /\ ToSet(b) = {b[i] : i \in 1..Len(b)}
  <2>0. c \in Seq(S)
    BY <1>1
  <2>1. ToSet(c) = {c[i] : i \in 1..Len(c)}
    BY <2>0, ElementsOf
  <2>2. ToSet(a) = {a[i] : i \in 1..Len(a)}
    BY ElementsOf
  <2>3. ToSet(b) = {b[i] : i \in 1..Len(b)}
    BY ElementsOf
  <2> QED BY <2>1, <2>2, <2>3
<1>4. ToSet(c) = {c[i] : i \in 1..(m + n)} /\ ToSet(a) = {a[i] : i \in 1..m}
      /\ ToSet(b) = {b[i] : i \in 1..n}
  BY <1>1, <1>3
<1> HIDE DEF m, n
<1>5. ToSet(a) \subseteq ToSet(c)
  <2>1. \A i \in 1..m : i \in 1..(m + n) /\ c[i] = a[i]
    BY <1>1, <1>2
  <2> QED BY <1>4, <2>1
<1>6. ToSet(b) \subseteq ToSet(c)
  <2>1. \A i \in 1..n : i + m \in 1..(m + n) /\ c[i + m] = b[i]
    <3> TAKE i \in 1..n
    <3>1. i + m \in 1..(m + n) /\ ~(i + m <= m) /\ (i + m) - m = i
      BY <1>2
    <3> QED BY <1>1, <3>1
  <2> QED BY <1>4, <2>1
<1>7. ToSet(c) \subseteq ToSet(a) \cup ToSet(b)
  <2>1. ASSUME NEW i \in 1..(m + n) PROVE c[i] \in ToSet(a) \cup ToSet(b)
    <3>1. CASE i <= m
      <4>1. i \in 1..m
        BY <1>2, <3>1
      <4> QED BY <1>1, <1>4, <3>1, <4>1
    <3>2. CASE ~(i <= m)
      <4>1. i - m \in 1..n
        BY <1>2, <3>2
      <4> QED BY <1>1, <1>4, <3>2, <4>1
    <3> QED BY <3>1, <3>2
  <2> QED BY <1>4, <2>1
<1> QED BY <1>5, <1>6, <1>7 DEF c

LEMMA ElementsWith ==
  ASSUME NEW S, NEW a \in Seq(S), NEW x \in S
  PROVE  ToSet(Append(a, x)) = ToSet(a) \cup {x}
<1> DEFINE u == <<x>>
<1>1. u \in Seq(S) /\ Append(a, x) = a \o u
  BY AppendIsConcat
<1>2. ToSet(u) = {x}
  BY DEF ToSet
<1> HIDE DEF u
<1>3. ToSet(a \o u) = ToSet(a) \cup ToSet(u)
  BY <1>1, ElementsOfBoth
<1> QED BY <1>1, <1>2, <1>3

InOrder(s) == \A i, j \in DOMAIN s : i < j => s[i] < s[j]

LEMMA BothInOrder ==
  ASSUME NEW S, S \subseteq Nat, NEW a \in Seq(S), NEW b \in Seq(S)
  PROVE  InOrder(a \o b) <=> /\ InOrder(a) /\ InOrder(b)
                             /\ \A x \in ToSet(a), y \in ToSet(b) : x < y
<1> DEFINE c == a \o b
           m == Len(a)
           n == Len(b)
<1>1. /\ c \in Seq(S) /\ Len(c) = m + n
      /\ \A i \in 1..(m + n) : c[i] = IF i <= m THEN a[i] ELSE b[i - m]
  BY ConcatProperties
<1>2. m \in Nat /\ n \in Nat
  OBVIOUS
<1>3. /\ ToSet(a) = {a[i] : i \in 1..Len(a)} /\ ToSet(b) = {b[i] : i \in 1..Len(b)}
      /\ DOMAIN c = 1..Len(c) /\ DOMAIN a = 1..Len(a) /\ DOMAIN b = 1..Len(b)
  BY <1>1, ElementsOf
<1> HIDE DEF c
<1>4. /\ ToSet(a) = {a[i] : i \in 1..m} /\ ToSet(b) = {b[i] : i \in 1..n}
      /\ DOMAIN c = 1..(m + n) /\ DOMAIN a = 1..m /\ DOMAIN b = 1..n
  BY <1>1, <1>3
<1> HIDE DEF m, n
<1>5. \A i \in 1..m : i \in 1..(m + n) /\ c[i] = a[i]
  BY <1>1, <1>2
<1>6. \A i \in 1..n : i + m \in 1..(m + n) /\ c[i + m] = b[i]
  <2> TAKE i \in 1..n
  <2>1. i + m \in 1..(m + n) /\ ~(i + m <= m) /\ (i + m) - m = i
    BY <1>2
  <2> QED BY <1>1, <2>1
<1>7. ASSUME InOrder(c)
      PROVE  InOrder(a) /\ InOrder(b) /\ \A x \in ToSet(a), y \in ToSet(b) : x < y
  <2>0. \A i, j \in 1..(m + n) : i < j => c[i] < c[j]
    BY <1>4, <1>7 DEF InOrder
  <2>1. InOrder(a)
    BY <1>4, <1>5, <2>0 DEF InOrder
  <2>2. InOrder(b)
    <3>1. ASSUME NEW i \in 1..n, NEW j \in 1..n, i < j PROVE b[i] < b[j]
      <4>1. i + m < j + m
        BY <1>2, <3>1
      <4> QED BY <1>6, <2>0, <4>1
    <3> QED BY <1>4, <3>1 DEF InOrder
  <2>3. ASSUME NEW i \in 1..m, NEW j \in 1..n PROVE a[i] < b[j]
    <3>1. i < j + m
      BY <1>2
    <3> QED BY <1>5, <1>6, <2>0, <3>1
  <2> QED BY <1>4, <2>1, <2>2, <2>3
<1>8. ASSUME InOrder(a), InOrder(b), \A x \in ToSet(a), y \in ToSet(b) : x < y
      PROVE  InOrder(c)
  <2>1. ASSUME NEW i \in 1..(m + n), NEW j \in 1..(m + n), i < j PROVE c[i] < c[j]
    <3>1. CASE j <= m
      <4>1. i \in 1..m /\ j \in 1..m
        BY <1>2, <2>1, <3>1
      <4>2. a[i] < a[j]
        BY <1>4, <1>8, <2>1, <4>1 DEF InOrder
      <4> QED BY <1>5, <4>1, <4>2
    <3>2. CASE i <= m /\ ~(j <= m)
      <4>1. i \in 1..m /\ j - m \in 1..n
        BY <1>2, <3>2
      <4>2. a[i] < b[j - m]
        BY <1>4, <1>8, <4>1
      <4> QED BY <1>1, <3>2, <4>2
    <3>3. CASE ~(i <= m) /\ ~(j <= m)
      <4>1. i - m \in 1..n /\ j - m \in 1..n /\ i - m < j - m
        BY <1>2, <2>1, <3>3
      <4>2. b[i - m] < b[j - m]
        BY <1>4, <1>8, <4>1 DEF InOrder
      <4> QED BY <1>1, <3>3, <4>2
    <3>4. ~(i <= m) => ~(j <= m)
      BY <1>2, <2>1
    <3> QED BY <3>1, <3>2, <3>3, <3>4
  <2> QED BY <1>4, <2>1 DEF InOrder
<1> QED BY <1>7, <1>8 DEF c

-----------------------------------------------------------------------------
(* Concatenation as an operation of which only the laws are known          *)

Lists(S) == Seq(S)
Join(a, b) == a \o b
Nothing == <<>>

LEMMA Joins ==
  ASSUME NEW S
  PROVE  /\ \A a, b \in Lists(S) : Join(a, b) \in Lists(S)
         /\ \A a, b, c \in Lists(S) : Join(Join(a, b), c) = Join(a, Join(b, c))
         /\ Nothing \in Lists(S)
         /\ \A a \in Lists(S) : Join(a, Nothing) = a /\ Join(Nothing, a) = a
<1>1. \A a, b \in Seq(S) : a \o b \in Seq(S)
  OBVIOUS
<1>2. \A a, b, c \in Seq(S) : (a \o b) \o c = a \o (b \o c)
  <2>1. AreAssociated(S)
    BY Associates
  <2> QED BY <2>1 DEF AreAssociated
<1>3. <<>> \in Seq(S)
  OBVIOUS
<1>4. ASSUME NEW a \in Seq(S) PROVE a \o <<>> = a /\ <<>> \o a = a
  BY ConcatEmptySeq
<1> QED BY <1>1, <1>2, <1>3, <1>4, Zenon DEF Lists, Join, Nothing

-----------------------------------------------------------------------------
(* The last word in a sequence of messages: those of B say something, and  *)
(* the last of them is one of G, or there is none and the rest holds       *)

Silent(q, B) == \A i \in DOMAIN q : q[i] \notin B

Ends(q, B, G, rest) ==
  /\ \A i \in DOMAIN q :
       q[i] \in B /\ (\A j \in DOMAIN q : j > i => q[j] \notin B) => q[i] \in G
  /\ Silent(q, B) => rest

LEMMA SilentElements ==
  ASSUME NEW S, NEW q \in Seq(S), NEW B
  PROVE  Silent(q, B) <=> \A x \in ToSet(q) : x \notin B
BY ElementsOf DEF Silent

LEMMA HeadAndTail ==
  ASSUME NEW S, NEW q \in Seq(S), q # <<>>
  PROVE  /\ Head(q) \in S /\ Head(q) \in ToSet(q) /\ Tail(q) \in Seq(S)
         /\ q = <<Head(q)>> \o Tail(q)
         /\ ToSet(q) = {Head(q)} \cup ToSet(Tail(q))
<1>1. /\ Head(q) \in S /\ Tail(q) \in Seq(S) /\ Len(Tail(q)) = Len(q) - 1
      /\ \A i \in 1..Len(Tail(q)) : Tail(q)[i] = q[i + 1]
  BY HeadTailProperties
<1> DEFINE u == <<Head(q)>>
           t == Tail(q)
<1>2. /\ u \in Seq(S) /\ Len(u) = 1 /\ u[1] = Head(q) /\ ToSet(u) = {Head(q)}
      /\ Head(q) = q[1]
  BY <1>1 DEF ToSet
<1>3. u \in Seq(S) /\ t \in Seq(S) /\ Len(q) \in Nat
  BY <1>1, <1>2
<1> HIDE DEF u, t
<1>4. /\ u \o t \in Seq(S) /\ Len(u \o t) = Len(u) + Len(t)
      /\ \A i \in 1..(Len(u) + Len(t)) : (u \o t)[i] = IF i <= Len(u) THEN u[i] ELSE t[i - Len(u)]
  BY <1>3, ConcatProperties
<1>5. q = u \o t
  <2>1. Len(t) = Len(q) - 1 /\ \A i \in 1..Len(t) : t[i] = q[i + 1]
    BY <1>1 DEF t
  <2>2. Len(u \o t) = Len(q)
    BY <1>2, <1>3, <1>4, <2>1
  <2>3. ASSUME NEW i \in 1..Len(q) PROVE q[i] = (u \o t)[i]
    <3>1. CASE i = 1
      BY <1>2, <1>3, <1>4, <2>1, <3>1
    <3>2. CASE i # 1
      <4>1. i - 1 \in 1..Len(t) /\ ~(i <= 1) /\ (i - 1) + 1 = i /\ i \in 1..(1 + Len(t))
        BY <1>3, <2>1, <3>2
      <4> QED BY <1>2, <1>4, <2>1, <4>1
    <3> QED BY <3>1, <3>2
  <2>4. q \in Seq(S) /\ u \o t \in Seq(S)
    BY <1>4
  <2> QED BY <2>2, <2>3, <2>4, SeqEqual
<1>6. ToSet(u \o t) = ToSet(u) \cup ToSet(t)
  BY <1>3, ElementsOfBoth
<1>7. ToSet(q) = {Head(q)} \cup ToSet(t)
  BY <1>2, <1>5, <1>6
<1> QED BY <1>1, <1>5, <1>7 DEF u, t

LEMMA EndsBoth ==
  ASSUME NEW S, NEW a \in Seq(S), NEW b \in Seq(S), NEW B, NEW G, NEW rest
  PROVE  Ends(b, B, G, Ends(a, B, G, rest)) <=> Ends(a \o b, B, G, rest)
<1> DEFINE c == a \o b
           m == Len(a)
           n == Len(b)
<1>1. /\ c \in Seq(S) /\ Len(c) = m + n
      /\ \A i \in 1..(m + n) : c[i] = IF i <= m THEN a[i] ELSE b[i - m]
  BY ConcatProperties
<1>2. m \in Nat /\ n \in Nat
  OBVIOUS
<1>3. DOMAIN c = 1..Len(c) /\ DOMAIN a = 1..Len(a) /\ DOMAIN b = 1..Len(b)
  BY <1>1
<1> HIDE DEF c
<1>4. DOMAIN c = 1..(m + n) /\ DOMAIN a = 1..m /\ DOMAIN b = 1..n
  BY <1>1, <1>3
<1> HIDE DEF m, n
<1>5. \A i \in 1..m : i \in 1..(m + n) /\ c[i] = a[i]
  BY <1>1, <1>2
<1>6. \A i \in 1..n : i + m \in 1..(m + n) /\ c[i + m] = b[i]
  <2> TAKE i \in 1..n
  <2>1. i + m \in 1..(m + n) /\ ~(i + m <= m) /\ (i + m) - m = i
    BY <1>2
  <2> QED BY <1>1, <2>1
<1>7. \A i \in 1..(m + n) : i \in 1..m \/ (i - m \in 1..n /\ (i - m) + m = i /\ i > m)
  BY <1>2
<1> DEFINE LastIn(q, i) == q[i] \in B /\ (\A j \in DOMAIN q : j > i => q[j] \notin B)
<1>8. Silent(c, B) <=> Silent(a, B) /\ Silent(b, B)
  <2>1. ASSUME Silent(c, B) PROVE Silent(a, B) /\ Silent(b, B)
    BY <1>4, <1>5, <1>6, <2>1 DEF Silent
  <2>2. ASSUME Silent(a, B), Silent(b, B), NEW i \in 1..(m + n) PROVE c[i] \notin B
    <3>1. CASE i \in 1..m
      BY <1>4, <1>5, <2>2, <3>1 DEF Silent
    <3>2. CASE i - m \in 1..n /\ (i - m) + m = i
      BY <1>4, <1>6, <2>2, <3>2 DEF Silent
    <3> QED BY <1>7, <3>1, <3>2
  <2> QED BY <1>4, <2>1, <2>2 DEF Silent
<1>9. \A i \in 1..n : LastIn(c, i + m) <=> LastIn(b, i)
  <2> TAKE i \in 1..n
  <2>1. ASSUME LastIn(c, i + m), NEW j \in 1..n, j > i PROVE b[j] \notin B
    <3>1. j + m > i + m
      BY <1>2, <2>1
    <3>2. j + m \in DOMAIN c /\ c[j + m] = b[j]
      BY <1>4, <1>6
    <3> QED BY <2>1, <3>1, <3>2
  <2>2. ASSUME LastIn(b, i), NEW j \in 1..(m + n), j > i + m PROVE c[j] \notin B
    <3>1. j - m \in 1..n /\ (j - m) + m = j /\ j - m > i
      BY <1>2, <2>2
    <3> QED BY <1>4, <1>6, <2>2, <3>1
  <2> QED BY <1>4, <1>6, <2>1, <2>2
<1>10. \A i \in 1..m : LastIn(c, i) <=> Silent(b, B) /\ LastIn(a, i)
  <2> TAKE i \in 1..m
  <2>1. ASSUME LastIn(c, i), NEW j \in 1..m, j > i PROVE a[j] \notin B
    BY <1>4, <1>5, <2>1
  <2>2. ASSUME LastIn(c, i), NEW j \in 1..n PROVE b[j] \notin B
    <3>1. j + m > i
      BY <1>2
    <3> QED BY <1>4, <1>6, <2>2, <3>1
  <2>3. ASSUME Silent(b, B), LastIn(a, i), NEW j \in 1..(m + n), j > i PROVE c[j] \notin B
    <3>1. CASE j \in 1..m
      BY <1>4, <1>5, <2>3, <3>1
    <3>2. CASE j - m \in 1..n /\ (j - m) + m = j
      BY <1>4, <1>6, <2>3, <3>2 DEF Silent
    <3> QED BY <1>7, <3>1, <3>2
  <2> QED BY <1>4, <1>5, <2>1, <2>2, <2>3 DEF Silent
<1> HIDE DEF LastIn
<1> DEFINE Good(q) == \A i \in DOMAIN q : LastIn(q, i) => q[i] \in G
<1>11. \A q, r : Ends(q, B, G, r) <=> Good(q) /\ (Silent(q, B) => r)
  BY DEF Ends, LastIn
<1>12. Good(c) <=> Good(b) /\ (Silent(b, B) => Good(a))
  <2>1. ASSUME Good(c) PROVE Good(b)
    BY <1>4, <1>6, <1>9, <2>1
  <2>2. ASSUME Good(c), Silent(b, B) PROVE Good(a)
    BY <1>4, <1>5, <1>10, <2>2
  <2>3. ASSUME Good(b), Silent(b, B) => Good(a), NEW i \in 1..(m + n), LastIn(c, i)
        PROVE  c[i] \in G
    <3>1. CASE i \in 1..m
      BY <1>4, <1>5, <1>10, <2>3, <3>1
    <3>2. CASE i - m \in 1..n /\ (i - m) + m = i
      BY <1>4, <1>6, <1>9, <2>3, <3>2
    <3> QED BY <1>7, <3>1, <3>2
  <2> QED BY <1>4, <2>1, <2>2, <2>3
<1> HIDE DEF Good
<1>13. Ends(c, B, G, rest) <=> Good(c) /\ (Silent(c, B) => rest)
  BY <1>11
<1>14. Ends(a, B, G, rest) <=> Good(a) /\ (Silent(a, B) => rest)
  BY <1>11
<1>15. Ends(b, B, G, Ends(a, B, G, rest)) <=> Good(b) /\ (Silent(b, B) => Ends(a, B, G, rest))
  BY <1>11
<1>16. Ends(b, B, G, Ends(a, B, G, rest)) <=> Ends(c, B, G, rest)
  BY <1>8, <1>12, <1>13, <1>14, <1>15, Zenon
<1> QED BY <1>16 DEF c

LEMMA EndsOne ==
  ASSUME NEW x, NEW B, NEW G, NEW rest
  PROVE  /\ Ends(<<x>>, B, G, rest) <=> IF x \in B THEN x \in G ELSE (rest <=> TRUE)
         /\ Ends(<<>>, B, G, rest) <=> (rest <=> TRUE)
  BY DEF Ends, Silent

LEMMA EndsTail ==
  ASSUME NEW S, NEW q \in Seq(S), q # <<>>, NEW B, NEW G, NEW rest, NEW then,
         Ends(q, B, G, rest),
         Head(q) \in B /\ Head(q) \in G => then,
         Head(q) \notin B /\ rest => then
  PROVE  Ends(Tail(q), B, G, then)
<1> DEFINE u == <<Head(q)>>
           t == Tail(q)
<1>1. u \in Seq(S) /\ t \in Seq(S) /\ q = u \o t
  BY HeadAndTail
<1>2. Ends(u, B, G, rest) => then
  BY EndsOne
<1> HIDE DEF u, t
<1>3. u \in Seq(S) /\ t \in Seq(S)
  BY <1>1
<1>4. Ends(t, B, G, Ends(u, B, G, rest)) <=> Ends(u \o t, B, G, rest)
  BY <1>3, EndsBoth
<1>5. Ends(t, B, G, Ends(u, B, G, rest))
  BY <1>1, <1>4
<1>6. Ends(t, B, G, then)
  BY <1>2, <1>5, Zenon DEF Ends
<1> QED BY <1>6 DEF t

(* Of messages that all are of G if they say something, at least one or    *)
(* the rest                                                                *)
LEMMA EndsAlike ==
  ASSUME NEW S, NEW q \in Seq(S), NEW B, NEW G, NEW rest,
         \A x \in ToSet(q) : x \in B => x \in G,
         (\A x \in ToSet(q) : x \notin B) => rest
  PROVE  Ends(q, B, G, rest)
<1>1. \A i \in DOMAIN q : q[i] \in ToSet(q)
  BY ElementsOf
<1>2. Silent(q, B) => rest
  BY SilentElements
<1> QED BY <1>1, <1>2 DEF Ends

LEMMA EndsWeaker ==
  ASSUME NEW q, NEW B, NEW G, NEW rest, NEW then, Ends(q, B, G, rest), rest => then
  PROVE  Ends(q, B, G, then)
  BY Zenon DEF Ends

LEMMA ElementsOfOne ==
  ASSUME NEW S, NEW x \in S
  PROVE  <<x>> \in Seq(S) /\ ToSet(<<x>>) = {x}
  BY DEF ToSet

LEMMA EndsThree ==
  ASSUME NEW S, NEW a \in Seq(S), NEW b \in Seq(S), NEW c \in Seq(S), NEW B, NEW G, NEW rest
  PROVE  /\ (a \o b) \o c \in Seq(S) /\ ToSet((a \o b) \o c) = ToSet(a) \cup ToSet(b) \cup ToSet(c)
         /\ Ends((a \o b) \o c, B, G, rest)
              <=> Ends(c, B, G, Ends(b, B, G, Ends(a, B, G, rest)))
<1>1. PICK d : d = a \o b
  OBVIOUS
<1>2. d \in Seq(S)
  BY <1>1
<1>3. Ends(d, B, G, rest) <=> Ends(b, B, G, Ends(a, B, G, rest))
  <2>1. Ends(b, B, G, Ends(a, B, G, rest)) <=> Ends(a \o b, B, G, rest)
    BY EndsBoth
  <2> QED BY <1>1, <2>1, Zenon
<1>4. Ends(c, B, G, Ends(d, B, G, rest)) <=> Ends(d \o c, B, G, rest)
  BY <1>2, EndsBoth
<1>5. Ends(c, B, G, Ends(d, B, G, rest)) <=> Ends(c, B, G, Ends(b, B, G, Ends(a, B, G, rest)))
  BY <1>3, Zenon DEF Ends
<1>6. ToSet(d) = ToSet(a) \cup ToSet(b)
  <2>1. ToSet(a \o b) = ToSet(a) \cup ToSet(b)
    BY ElementsOfBoth
  <2> QED BY <1>1, <2>1
<1>7. d \o c \in Seq(S) /\ ToSet(d \o c) = ToSet(d) \cup ToSet(c)
  BY <1>2, ElementsOfBoth, ConcatProperties
<1> QED BY <1>1, <1>4, <1>5, <1>6, <1>7

-----------------------------------------------------------------------------
(* How many messages of B there are in a sequence                          *)

HowMany(q, B) == Cardinality({i \in DOMAIN q : q[i] \in B})

LEMMA CountBoth ==
  ASSUME NEW S, NEW a \in Seq(S), NEW b \in Seq(S), NEW B
  PROVE  /\ HowMany(a, B) \in Nat /\ HowMany(b, B) \in Nat
         /\ HowMany(a \o b, B) = HowMany(a, B) + HowMany(b, B)
<1> DEFINE c == a \o b
           m == Len(a)
           n == Len(b)
           A == {i \in 1..m : a[i] \in B}
           D == {i \in 1..n : b[i] \in B}
           C == {i \in 1..(m + n) : c[i] \in B}
           E == {i \in (m + 1)..(m + n) : c[i] \in B}
<1>1. /\ c \in Seq(S) /\ Len(c) = m + n
      /\ \A i \in 1..(m + n) : c[i] = IF i <= m THEN a[i] ELSE b[i - m]
  BY ConcatProperties
<1>2. m \in Nat /\ n \in Nat
  OBVIOUS
<1>3. DOMAIN c = 1..Len(c) /\ DOMAIN a = 1..Len(a) /\ DOMAIN b = 1..Len(b)
  BY <1>1
<1> HIDE DEF c
<1>4. DOMAIN c = 1..(m + n) /\ DOMAIN a = 1..m /\ DOMAIN b = 1..n
  BY <1>1, <1>3
<1> HIDE DEF m, n
<1>5. HowMany(c, B) = Cardinality(C) /\ HowMany(a, B) = Cardinality(A) /\ HowMany(b, B) = Cardinality(D)
  BY <1>4 DEF HowMany
<1>6. \A i \in 1..m : i \in 1..(m + n) /\ c[i] = a[i]
  BY <1>1, <1>2
<1>7. \A i \in 1..n : i + m \in (m + 1)..(m + n) /\ i + m \in 1..(m + n) /\ c[i + m] = b[i]
  <2> TAKE i \in 1..n
  <2>1. i + m \in 1..(m + n) /\ ~(i + m <= m) /\ (i + m) - m = i /\ i + m \in (m + 1)..(m + n)
    BY <1>2
  <2> QED BY <1>1, <2>1
<1>8. \A i \in 1..(m + n) : i \in 1..m \/ (i - m \in 1..n /\ (i - m) + m = i /\ i \in (m + 1)..(m + n))
  BY <1>2
<1>81. \A i \in (m + 1)..(m + n) : i \in 1..(m + n) /\ i \notin 1..m /\ i - m \in 1..n /\ (i - m) + m = i
  BY <1>2
<1>9. C = A \cup E /\ A \cap E = {}
  <2>1. C \subseteq A \cup E
    BY <1>6, <1>8
  <2>2. A \subseteq C
    BY <1>6
  <2>3. E \subseteq C /\ A \cap E = {}
    BY <1>81
  <2> QED BY <2>1, <2>2, <2>3
<1>10. IsFiniteSet(A) /\ IsFiniteSet(D) /\ IsFiniteSet(E)
  <2>1. IsFiniteSet(1..m) /\ IsFiniteSet(1..n) /\ IsFiniteSet((m + 1)..(m + n))
    BY <1>2, FS_Interval
  <2>2. A \in SUBSET (1..m) /\ D \in SUBSET (1..n) /\ E \in SUBSET ((m + 1)..(m + n))
    OBVIOUS
  <2> HIDE DEF A, D, E
  <2> QED BY <2>1, <2>2, FS_Subset
<1>11. ExistsBijection(D, E)
  <2> DEFINE shift == [i \in D |-> i + m]
  <2>1. \A i \in D : i + m \in E
    BY <1>7
  <2>2. shift \in [D -> E]
    BY <2>1
  <2>3. \A i, j \in D : shift[i] = shift[j] => i = j
    BY <1>2
  <2>4. \A k \in E : \E i \in D : shift[i] = k
    <3> TAKE k \in E
    <3>1. k - m \in D /\ (k - m) + m = k
      BY <1>7, <1>81
    <3> QED BY <3>1
  <2> HIDE DEF shift, D, E
  <2>5. shift \in Bijection(D, E)
    BY <2>2, <2>3, <2>4 DEF Bijection, Injection, Surjection, IsInjective
  <2> QED BY <2>5 DEF ExistsBijection
<1> HIDE DEF A, D, C, E
<1>12. Cardinality(D) = Cardinality(E)
  BY <1>10, <1>11, FS_Bijection
<1>13. Cardinality(C) = Cardinality(A) + Cardinality(E) - Cardinality(A \cap E)
  BY <1>9, <1>10, FS_Union
<1>14. Cardinality(A) \in Nat /\ Cardinality(D) \in Nat /\ Cardinality({}) = 0
  BY <1>10, FS_CardinalityType, FS_EmptySet
<1>15. Cardinality(A \cap E) = 0
  BY <1>9, <1>14, Zenon
<1>16. PICK x, y, z, w : /\ x = Cardinality(A) /\ y = Cardinality(D) /\ z = Cardinality(C)
                         /\ w = Cardinality(A \cap E)
  OBVIOUS
<1>17. z = x + y
  <2>1. z = x + y - w /\ w = 0 /\ x \in Nat /\ y \in Nat
    BY <1>12, <1>13, <1>14, <1>15, <1>16, Zenon
  <2> QED BY <2>1
<1>18. HowMany(c, B) = z /\ HowMany(a, B) = x /\ HowMany(b, B) = y
  BY <1>5, <1>16, Zenon
<1>19. HowMany(c, B) = HowMany(a, B) + HowMany(b, B)
  BY <1>17, <1>18
<1> QED BY <1>5, <1>14, <1>19 DEF c

LEMMA CountOne ==
  ASSUME NEW x, NEW B
  PROVE  HowMany(<<x>>, B) = (IF x \in B THEN 1 ELSE 0) /\ HowMany(<<>>, B) = 0
<1> DEFINE P == {i \in DOMAIN <<x>> : <<x>>[i] \in B}
           N == {i \in DOMAIN <<>> : <<>>[i] \in B}
<1>1. N = {} /\ P = IF x \in B THEN {1} ELSE {}
  OBVIOUS
<1>2. Cardinality({}) = 0 /\ Cardinality({1}) = 1
  BY FS_EmptySet, FS_Singleton
<1> HIDE DEF P, N
<1>3. Cardinality(P) = (IF x \in B THEN 1 ELSE 0) /\ Cardinality(N) = 0
  BY <1>1, <1>2
<1> QED BY <1>3 DEF P, N, HowMany

LEMMA CountTail ==
  ASSUME NEW S, NEW q \in Seq(S), q # <<>>, NEW B
  PROVE  /\ HowMany(q, B) \in Nat /\ HowMany(Tail(q), B) \in Nat
         /\ HowMany(q, B) = (IF Head(q) \in B THEN 1 ELSE 0) + HowMany(Tail(q), B)
<1> DEFINE u == <<Head(q)>>
           t == Tail(q)
<1>1. u \in Seq(S) /\ t \in Seq(S) /\ q = u \o t
  BY HeadAndTail
<1>2. HowMany(u, B) = IF Head(q) \in B THEN 1 ELSE 0
  BY CountOne
<1> HIDE DEF u, t
<1>3. u \in Seq(S) /\ t \in Seq(S)
  BY <1>1
<1>4. HowMany(t, B) \in Nat /\ HowMany(u \o t, B) = HowMany(u, B) + HowMany(t, B)
  BY <1>3, CountBoth
<1>5. HowMany(q, B) = (IF Head(q) \in B THEN 1 ELSE 0) + HowMany(t, B)
  BY <1>1, <1>2, <1>4
<1> QED BY <1>4, <1>5 DEF t

LEMMA CountAppend ==
  ASSUME NEW S, NEW q \in Seq(S), NEW x \in S, NEW B
  PROVE  /\ HowMany(q, B) \in Nat
         /\ HowMany(Append(q, x), B) = HowMany(q, B) + (IF x \in B THEN 1 ELSE 0)
<1> DEFINE u == <<x>>
<1>1. u \in Seq(S) /\ Append(q, x) = q \o u
  BY AppendIsConcat
<1>2. HowMany(u, B) = IF x \in B THEN 1 ELSE 0
  BY CountOne
<1> HIDE DEF u
<1>3. u \in Seq(S)
  BY <1>1
<1>4. HowMany(q, B) \in Nat /\ HowMany(q \o u, B) = HowMany(q, B) + HowMany(u, B)
  BY <1>3, CountBoth
<1> QED BY <1>1, <1>2, <1>4

(* The sequence of a finite set has its elements *)
LEMMA SequenceOfSet ==
  ASSUME NEW T, IsFiniteSet(T)
  PROVE  SetToSeq(T) \in Seq(T) /\ ToSet(SetToSeq(T)) = T
<1> DEFINE n == Cardinality(T)
<1>1. n \in Nat /\ ExistsBijection(1..n, T)
  BY FS_CardinalityType
<1>2. PICK g : g \in Bijection(1..n, T)
  BY <1>1 DEF ExistsBijection
<1>3. g \in [1..n -> T] /\ IsInjective(g)
  BY <1>2 DEF Bijection, Injection, IsInjective
<1> DEFINE f == SetToSeq(T)
<1>4. f \in [1..n -> T] /\ IsInjective(f)
  BY <1>3 DEF SetToSeq
<1>5. IsFiniteSet(1..n) /\ Cardinality(1..n) = n
  BY <1>1, FS_Interval
<1> HIDE DEF f
<1>6. f \in Injection(1..n, T)
  BY <1>4 DEF Injection, IsInjective
<1>7. f \in Surjection(1..n, T)
  <2>1. (Cardinality(1..n) = Cardinality(T)) <=> f \in Surjection(1..n, T)
    BY <1>6, FS_Injection
  <2> QED BY <1>5, <2>1
<1>8. f \in Seq(T) /\ Len(f) = n
  BY <1>1, <1>4
<1>9. ToSet(f) = {f[i] : i \in 1..n}
  BY <1>8, ElementsOf
<1>10. ToSet(f) = T
  BY <1>4, <1>7, <1>9 DEF Surjection
<1> QED BY <1>8, <1>10 DEF f

LEMMA CountZero ==
  ASSUME NEW S, NEW q \in Seq(S), NEW B
  PROVE  HowMany(q, B) = 0 <=> Silent(q, B)
<1> DEFINE P == {i \in DOMAIN q : q[i] \in B}
<1>1. IsFiniteSet(P)
  <2>1. DOMAIN q = 1..Len(q) /\ Len(q) \in Int
    OBVIOUS
  <2>2. IsFiniteSet(1..Len(q))
    BY <2>1, FS_Interval
  <2>3. P \in SUBSET (1..Len(q))
    BY <2>1
  <2> HIDE DEF P
  <2> QED BY <2>2, <2>3, FS_Subset
<1>2. Cardinality(P) = 0 <=> P = {}
  BY <1>1, FS_EmptySet
<1>3. P = {} <=> Silent(q, B)
  BY DEF Silent
<1> QED BY <1>2, <1>3 DEF HowMany

=============================================================================
