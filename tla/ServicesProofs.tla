---------------------------- MODULE ServicesProofs ----------------------------
(***************************************************************************)
(* Proofs about what the other parts build on: the message queues, the     *)
(* messages between processes and the clients of LocationAPI, as parts of  *)
(* MCServices, and the observer of data items.                             *)
(*                                                                         *)
(* The linked list of a message queue is two chains of pointers, so what   *)
(* holds of it is said of the sequence that both of them go through.       *)
(***************************************************************************)
EXTENDS MCServices, OsObserver, DataInduction

-----------------------------------------------------------------------------
(* Sequences without repetitions *)

Distinct(q) == \A i, j \in DOMAIN q : q[i] = q[j] => i = j

LEMMA DistinctFits ==
  ASSUME NEW S, IsFiniteSet(S), NEW q \in Seq(S), Distinct(q)
  PROVE  Len(q) <= Cardinality(S)
<1>1. Len(q) \in Nat /\ DOMAIN q = 1..Len(q) /\ q \in [1..Len(q) -> S]
  OBVIOUS
<1>4. Cardinality(1..Len(q)) = Len(q)
  BY <1>1, FS_Interval
<1> QED BY <1>1, <1>4, FS_Injection DEF Distinct, Injection, IsInjective

LEMMA DistinctEmpty == Distinct(<<>>)
  BY DEF Distinct

LEMMA DistinctAppend ==
  ASSUME NEW S, NEW q \in Seq(S), NEW m \in S, Distinct(q), m \notin ToSet(q)
  PROVE  Distinct(Append(q, m))
<1>1. /\ Append(q, m) \in Seq(S) /\ Len(Append(q, m)) = Len(q) + 1
      /\ \A i \in 1..Len(q) : Append(q, m)[i] = q[i]
      /\ Append(q, m)[Len(q) + 1] = m
  OBVIOUS
<1>2. DOMAIN Append(q, m) = 1..(Len(q) + 1) /\ DOMAIN q = 1..Len(q) /\ Len(q) \in Nat
  BY <1>1
<1>3. \A i \in 1..Len(q) : q[i] # m
  BY <1>2 DEF ToSet
<1> DEFINE a == Append(q, m)
<1> HIDE DEF a
<1>4. ASSUME NEW i \in 1..(Len(q) + 1), NEW j \in 1..(Len(q) + 1), a[i] = a[j]
      PROVE  i = j
  <2>1. CASE i \in 1..Len(q) /\ j \in 1..Len(q)
    BY <1>1, <1>2, <1>4, <2>1 DEF a, Distinct
  <2>2. CASE i = Len(q) + 1
    BY <1>1, <1>2, <1>3, <1>4, <2>2 DEF a
  <2>3. CASE j = Len(q) + 1
    BY <1>1, <1>2, <1>3, <1>4, <2>3 DEF a
  <2> QED BY <1>2, <2>1, <2>2, <2>3
<1> QED BY <1>2, <1>4 DEF Distinct, a

LEMMA DistinctTail ==
  ASSUME NEW S, NEW q \in Seq(S), q # <<>>, Distinct(q)
  PROVE  Distinct(Tail(q)) /\ ToSet(Tail(q)) = ToSet(q) \ {Head(q)}
<1>1. /\ Tail(q) \in Seq(S) /\ Len(Tail(q)) = Len(q) - 1 /\ Len(q) \in Nat \ {0}
      /\ \A i \in 1..Len(Tail(q)) : Tail(q)[i] = q[i + 1]
      /\ Head(q) = q[1]
  BY HeadTailProperties
<1>2. DOMAIN Tail(q) = 1..(Len(q) - 1) /\ DOMAIN q = 1..Len(q)
  BY <1>1
<1>3. Distinct(Tail(q))
  <2> SUFFICES ASSUME NEW i \in 1..(Len(q) - 1), NEW j \in 1..(Len(q) - 1),
                      Tail(q)[i] = Tail(q)[j]
               PROVE  i = j
    BY <1>2 DEF Distinct
  <2> QED BY <1>1, <1>2 DEF Distinct
<1>4. ToSet(q) = {Head(q)} \cup ToSet(Tail(q))
  BY HeadAndTail
<1>5. Head(q) \notin ToSet(Tail(q))
  <2> SUFFICES ASSUME NEW i \in 1..(Len(q) - 1), Tail(q)[i] = q[1] PROVE FALSE
    BY <1>1, <1>2 DEF ToSet
  <2> QED BY <1>1, <1>2 DEF Distinct
<1> QED BY <1>3, <1>4, <1>5

-----------------------------------------------------------------------------
(* The linked list of a queue                                              *)

(* The links from m go through q and end *)
Leads(link, m, q) ==
  /\ m = IF q = <<>> THEN MqNull ELSE q[1]
  /\ \A i \in 1..Len(q) : link[q[i]] = IF i = Len(q) THEN MqNull ELSE q[i + 1]

LEMMA MqMessages ==
  /\ MqNull \notin MqMessage /\ IsFiniteSet(MqMessage)
  /\ Cardinality(MqMessage) \in Nat
  BY MqNullAssumption, MqFiniteAssumption, FS_CardinalityType

LEMMA WalkIs ==
  ASSUME NEW link, NEW q \in Seq(MqMessage), NEW m, Distinct(q), Leads(link, m, q)
  PROVE  MqWalk(link, m) = q
<1> DEFINE last == Cardinality(MqMessage)
           w == [n \in 0..last |-> IF n < Len(q) THEN q[n + 1] ELSE MqNull]
           at == CHOOSE at : at = [n \in 0..last |->
                   IF n = 0 THEN m ELSE IF at[n - 1] = MqNull THEN MqNull ELSE link[at[n - 1]]]
<1>1. last \in Nat /\ Len(q) \in Nat /\ Len(q) <= last /\ MqNull \notin MqMessage
  BY MqMessages, DistinctFits
<1>2. /\ (q = <<>> <=> Len(q) = 0) /\ DOMAIN q = 1..Len(q)
      /\ \A i \in 1..Len(q) : q[i] \in MqMessage
  OBVIOUS
<1> HIDE DEF last
<1>3. ASSUME NEW n \in 0..last
      PROVE  w[n] = IF n = 0 THEN m
                    ELSE IF w[n - 1] = MqNull THEN MqNull ELSE link[w[n - 1]]
  <2>1. CASE n = 0
    <3>1. w[0] = IF 0 < Len(q) THEN q[0 + 1] ELSE MqNull
      BY <1>1
    <3>2. CASE q = <<>>
      <4> HIDE DEF w
      <4> QED BY <1>2, <2>1, <3>1, <3>2 DEF Leads
    <3>3. CASE q # <<>>
      <4>1. m = q[1]
        BY <3>3 DEF Leads
      <4> HIDE DEF w
      <4> QED BY <1>1, <1>2, <2>1, <3>1, <3>3, <4>1
    <3> QED BY <3>2, <3>3
  <2>2. CASE n # 0
    <3>2. /\ w[n - 1] = IF n - 1 < Len(q) THEN q[n] ELSE MqNull
          /\ w[n] = IF n < Len(q) THEN q[n + 1] ELSE MqNull
      BY <1>1, <2>2
    <3>3. CASE n - 1 < Len(q)
      <4>1. n \in 1..Len(q) /\ (n = Len(q) <=> ~(n < Len(q)))
        BY <1>1, <2>2, <3>3
      <4> HIDE DEF w
      <4> QED BY <1>1, <1>2, <2>2, <3>2, <3>3, <4>1 DEF Leads
    <3>4. CASE ~(n - 1 < Len(q))
      BY <1>1, <2>2, <3>2, <3>4
    <3> QED BY <3>3, <3>4
  <2> QED BY <2>1, <2>2
<1>4. w = [n \in 0..last |->
             IF n = 0 THEN m ELSE IF w[n - 1] = MqNull THEN MqNull ELSE link[w[n - 1]]]
  <2> DEFINE v == [n \in 0..last |-> IF n = 0 THEN m
                    ELSE IF w[n - 1] = MqNull THEN MqNull ELSE link[w[n - 1]]]
  <2>1. DOMAIN w = 0..last /\ DOMAIN v = 0..last
    OBVIOUS
  <2>2. \A n \in 0..last : w[n] = v[n]
    <3> HIDE DEF w
    <3> QED BY <1>3
  <2>3. w = [n \in 0..last |-> w[n]] /\ v = [n \in 0..last |-> v[n]]
    OBVIOUS
  <2> HIDE DEF w, v
  <2> QED BY <2>2, <2>3 DEF v
<1>5. at = [n \in 0..last |->
              IF n = 0 THEN m ELSE IF at[n - 1] = MqNull THEN MqNull ELSE link[at[n - 1]]]
  <2> HIDE DEF w
  <2> QED BY <1>4
<1>6. MqWalk(link, m) = [n \in {k \in 1..(last + 1) : at[k - 1] # MqNull} |-> at[n - 1]]
  BY DEF MqWalk, last
<1> HIDE DEF at
<1>7. 0..last \subseteq {n \in 0..last : at[n] = w[n]}
  <2> DEFINE P == {n \in 0..last : at[n] = w[n]}
  <2>1. at[0] = m /\ w[0] = m
    <3> HIDE DEF w
    <3> QED BY <1>1, <1>3, <1>5
  <2>2. ASSUME NEW n \in 0..last, n < last, n \in P PROVE n + 1 \in P
    <3>1. n + 1 \in 0..last /\ n + 1 # 0 /\ (n + 1) - 1 = n
      BY <1>1, <2>2
    <3>3. w[n + 1] = IF w[n] = MqNull THEN MqNull ELSE link[w[n]]
      <4> HIDE DEF w
      <4> QED BY <1>3, <3>1
    <3> HIDE DEF w
    <3> QED BY <1>5, <2>2, <3>1, <3>3
  <2>3. 0 \in P
    <3> HIDE DEF w
    <3> QED BY <1>1, <2>1
  <2> HIDE DEF P, w
  <2> QED BY <1>1, <2>2, <2>3, UpTo DEF P
<1>8. ASSUME NEW k \in 1..(last + 1)
      PROVE  at[k - 1] = IF k <= Len(q) THEN q[k] ELSE MqNull
  <2>1. k - 1 \in 0..last /\ (k - 1) + 1 = k /\ (k - 1 < Len(q) <=> k <= Len(q))
    BY <1>1
  <2>2. at[k - 1] = w[k - 1]
    <3> HIDE DEF w
    <3> QED BY <1>7, <2>1
  <2> QED BY <2>1, <2>2
<1> HIDE DEF w
<1>9. {k \in 1..(last + 1) : at[k - 1] # MqNull} = 1..Len(q)
  <2>1. ASSUME NEW k \in 1..(last + 1) PROVE at[k - 1] # MqNull <=> k \in 1..Len(q)
    BY <1>1, <1>2, <1>8
  <2> QED BY <1>1, <2>1
<1>11. \A k \in 1..Len(q) : at[k - 1] = q[k]
  <2> TAKE k \in 1..Len(q)
  <2> QED BY <1>1, <1>8
<1> QED BY <1>6, <1>9, <1>11

(* The two chains of a list go through q, in both directions *)
Chained(l, q) ==
  /\ l.tail = IF q = <<>> THEN MqNull ELSE q[1]
  /\ l.head = IF q = <<>> THEN MqNull ELSE q[Len(q)]
  /\ \A i \in 1..Len(q) : /\ l.prev[q[i]] = IF i = Len(q) THEN MqNull ELSE q[i + 1]
                          /\ l.next[q[i]] = IF i = 1 THEN MqNull ELSE q[i - 1]

MqListType == [head: MqPointer, tail: MqPointer,
               next: [MqMessage -> MqPointer], prev: [MqMessage -> MqPointer]]

LEMMA ReverseIs ==
  ASSUME NEW S, NEW q \in Seq(S), Distinct(q)
  PROVE  /\ Reverse(q) \in Seq(S) /\ Len(Reverse(q)) = Len(q)
         /\ \A i \in 1..Len(q) : Reverse(q)[i] = q[(Len(q) - i) + 1]
         /\ Distinct(Reverse(q)) /\ ToSet(Reverse(q)) = ToSet(q)
<1>1. /\ Len(q) \in Nat /\ DOMAIN q = 1..Len(q)
      /\ \A i \in 1..Len(q) : /\ (Len(q) - i) + 1 \in 1..Len(q)
                              /\ (Len(q) - ((Len(q) - i) + 1)) + 1 = i
  OBVIOUS
<1> DEFINE r == Reverse(q)
<1>2. r = [i \in 1..Len(q) |-> q[(Len(q) - i) + 1]]
  BY DEF Reverse
<1> HIDE DEF r
<1>3. r \in Seq(S) /\ Len(r) = Len(q) /\ DOMAIN r = 1..Len(q)
  BY <1>1, <1>2
<1>4. \A i \in 1..Len(q) : r[i] = q[(Len(q) - i) + 1]
  BY <1>2
<1>5. Distinct(r)
  <2> SUFFICES ASSUME NEW i \in 1..Len(q), NEW j \in 1..Len(q), r[i] = r[j] PROVE i = j
    BY <1>3 DEF Distinct
  <2> QED BY <1>1, <1>4 DEF Distinct
<1>6. ToSet(r) = ToSet(q)
  <2>1. ToSet(r) = {r[i] : i \in 1..Len(q)} /\ ToSet(q) = {q[i] : i \in 1..Len(q)}
    BY <1>1, <1>3 DEF ToSet
  <2>2. \A i \in 1..Len(q) : r[i] \in ToSet(q)
    BY <1>1, <1>4, <2>1
  <2>3. ASSUME NEW i \in 1..Len(q) PROVE q[i] \in ToSet(r)
    BY <1>1, <1>4, <2>1
  <2> QED BY <2>1, <2>2, <2>3
<1> QED BY <1>3, <1>4, <1>5, <1>6 DEF r

LEMMA ChainRead ==
  ASSUME NEW l, NEW q \in Seq(MqMessage), Distinct(q), Chained(l, q)
  PROVE  MqFromTail(l) = q /\ MqFromHead(l) = Reverse(q)
<1>1. Leads(l.prev, l.tail, q)
  BY DEF Leads, Chained
<1> DEFINE r == Reverse(q)
<1>3. /\ r \in Seq(MqMessage) /\ Len(r) = Len(q) /\ Distinct(r)
      /\ \A i \in 1..Len(q) : r[i] = q[(Len(q) - i) + 1]
  BY ReverseIs
<1>4. Len(q) \in Nat /\ (q = <<>> <=> Len(q) = 0) /\ (r = <<>> <=> Len(r) = 0)
  BY <1>3
<1> HIDE DEF r
<1>5. Leads(l.next, l.head, r)
  <2>2. ASSUME NEW i \in 1..Len(r)
        PROVE  l.next[r[i]] = IF i = Len(r) THEN MqNull ELSE r[i + 1]
    <3>1. PICK k \in 1..Len(q) : k = (Len(q) - i) + 1
      BY <1>3, <1>4
    <3>2. r[i] = q[k] /\ (k = 1 <=> i = Len(r))
      BY <1>3, <1>4, <3>1
    <3>3. l.next[q[k]] = IF k = 1 THEN MqNull ELSE q[k - 1]
      BY DEF Chained
    <3>4. CASE i = Len(r)
      BY <3>2, <3>3, <3>4
    <3>5. CASE i # Len(r)
      BY <1>3, <1>4, <3>1, <3>2, <3>3, <3>5
    <3> QED BY <3>4, <3>5
  <2> QED BY <1>3, <1>4, <2>2 DEF Leads, Chained
<1> QED BY <1>1, <1>3, <1>5, WalkIs DEF r, MqFromHead, MqFromTail

LEMMA ChainEmpty == MqEmptyList \in MqListType /\ Chained(MqEmptyList, <<>>)
  BY DEF MqListType, MqEmptyList, MqPointer, Chained

(* linked_list_add *)
LEMMA ChainAdded ==
  ASSUME NEW l \in MqListType, NEW q \in Seq(MqMessage), Distinct(q), Chained(l, q),
         NEW m \in MqMessage, m \notin ToSet(q)
  PROVE  MqAdded(l, m) \in MqListType /\ Chained(MqAdded(l, m), Append(q, m))
<1> DEFINE k == MqAdded(l, m)
           a == Append(q, m)
<1>1. /\ k.head = m /\ k.tail = (IF l.head = MqNull THEN m ELSE l.tail)
      /\ k.next = [l.next EXCEPT ![m] = l.head]
      /\ k.prev = [e \in MqMessage |-> CASE e = m -> MqNull
                                        [] e = l.head -> m
                                        [] OTHER -> l.prev[e]]
  BY DEF MqAdded
<1>2. /\ l.head \in MqPointer /\ l.tail \in MqPointer /\ MqNull \notin MqMessage
      /\ l.next \in [MqMessage -> MqPointer] /\ l.prev \in [MqMessage -> MqPointer]
      /\ m \in MqPointer /\ MqNull \in MqPointer
  BY MqMessages DEF MqListType, MqPointer
<1>4. PICK n \in Nat : n = Len(q)
  OBVIOUS
<1>5. /\ a \in Seq(MqMessage) /\ Len(a) = n + 1 /\ a # <<>>
      /\ \A i \in 1..n : a[i] = q[i]
      /\ a[n + 1] = m
  BY <1>4
<1>6. /\ DOMAIN q = 1..n /\ (q = <<>> <=> n = 0)
      /\ \A i \in 1..n : q[i] \in MqMessage /\ q[i] # m
  BY <1>4 DEF ToSet
<1>7. /\ l.tail = IF n = 0 THEN MqNull ELSE q[1]
      /\ l.head = IF n = 0 THEN MqNull ELSE q[n]
  BY <1>4, <1>6 DEF Chained
<1>8. \A i \in 1..n : /\ l.prev[q[i]] = IF i = n THEN MqNull ELSE q[i + 1]
                      /\ l.next[q[i]] = IF i = 1 THEN MqNull ELSE q[i - 1]
  BY <1>4 DEF Chained
<1>10. l.head = MqNull <=> n = 0
  BY <1>2, <1>6, <1>7
<1> HIDE DEF k, a
<1>11. k.tail = a[1]
  <2>1. CASE n = 0
    BY <1>1, <1>5, <1>10, <2>1
  <2>2. CASE n # 0
    BY <1>1, <1>5, <1>7, <1>10, <2>2
  <2> QED BY <2>1, <2>2
<1>12. ASSUME NEW i \in 1..n
       PROVE  /\ k.prev[a[i]] = a[i + 1]
              /\ k.next[a[i]] = IF i = 1 THEN MqNull ELSE a[i - 1]
  <2>1. a[i] = q[i] /\ q[i] \in MqMessage /\ q[i] # m /\ n # 0 /\ n \in 1..n
    BY <1>5, <1>6
  <2>3. k.prev[a[i]] = a[i + 1]
    BY <1>1, <1>5, <1>6, <1>7, <1>8, <2>1 DEF Distinct
  <2>5. i # 1 => a[i - 1] = q[i - 1]
    <3> SUFFICES ASSUME i # 1 PROVE a[i - 1] = q[i - 1]
      OBVIOUS
    <3> QED BY <1>5
  <2> QED BY <1>1, <1>2, <1>8, <2>1, <2>3, <2>5
<1>13. k.prev[m] = MqNull
  BY <1>1, <1>2, <1>6, <1>7
<1>14. k.next[m] = l.head
  BY <1>1, <1>2
<1>15. k.next[m] = IF n + 1 = 1 THEN MqNull ELSE a[n]
  <2>1. CASE n = 0
    BY <1>10, <1>14, <2>1
  <2>2. CASE n # 0
    BY <1>5, <1>7, <1>14, <2>2
  <2> QED BY <2>1, <2>2
<1>16. ASSUME NEW i \in 1..(n + 1)
       PROVE  /\ k.prev[a[i]] = IF i = n + 1 THEN MqNull ELSE a[i + 1]
              /\ k.next[a[i]] = IF i = 1 THEN MqNull ELSE a[i - 1]
  <2>1. CASE i \in 1..n
    BY <1>12, <2>1
  <2>2. CASE i = n + 1
    BY <1>5, <1>13, <1>15, <2>2
  <2> QED BY <2>1, <2>2
<1>17. Chained(k, a)
  BY <1>1, <1>5, <1>11, <1>16 DEF Chained
<1> QED BY <1>2, <1>17 DEF k, a, MqAdded, MqListType

(* linked_list_remove *)
LEMMA ChainRemoved ==
  ASSUME NEW l \in MqListType, NEW q \in Seq(MqMessage), Distinct(q), Chained(l, q),
         q # <<>>
  PROVE  /\ l.tail = Head(q) /\ l.head # MqNull
         /\ MqRemoved(l) \in MqListType /\ Chained(MqRemoved(l), Tail(q))
<1> DEFINE k == MqRemoved(l)
           t == Tail(q)
           rest == l.prev[l.tail]
<1>1. PICK n \in Nat : n + 1 = Len(q)
  OBVIOUS
<1>2. /\ t \in Seq(MqMessage) /\ Len(t) = n /\ (t = <<>> <=> n = 0)
      /\ \A i \in 1..n : t[i] = q[i + 1]
      /\ Head(q) = q[1]
  <2>1. /\ t \in Seq(MqMessage) /\ Len(t) = Len(q) - 1
        /\ \A i \in 1..Len(t) : t[i] = q[i + 1]
    BY HeadTailProperties
  <2> HIDE DEF t
  <2> QED BY <1>1, <2>1
<1>3. DOMAIN q = 1..(n + 1) /\ \A i \in 1..(n + 1) : q[i] \in MqMessage
  BY <1>1
<1>4. \A i, j \in 1..(n + 1) : q[i] = q[j] => i = j
  BY <1>3 DEF Distinct
<1>5. l.tail = q[1] /\ l.head = q[n + 1]
  BY <1>1 DEF Chained
<1>6. \A i \in 1..(n + 1) : /\ l.prev[q[i]] = IF i = n + 1 THEN MqNull ELSE q[i + 1]
                            /\ l.next[q[i]] = IF i = 1 THEN MqNull ELSE q[i - 1]
  BY <1>1 DEF Chained
<1>7. 1 \in 1..(n + 1) /\ n + 1 \in 1..(n + 1) /\ 1 + 1 = 2 /\ (n # 0 => 2 \in 1..(n + 1))
  OBVIOUS
<1>8. rest = IF n = 0 THEN MqNull ELSE q[2]
  BY <1>5, <1>6, <1>7
<1>9. /\ l.head \in MqPointer /\ MqNull \notin MqMessage /\ MqNull \in MqPointer
      /\ l.next \in [MqMessage -> MqPointer] /\ l.prev \in [MqMessage -> MqPointer]
      /\ MqMessage \subseteq MqPointer
  BY MqMessages DEF MqListType, MqPointer
<1>10. rest \in MqPointer /\ l.head # MqNull
  <2> HIDE DEF rest
  <2> QED BY <1>3, <1>5, <1>7, <1>8, <1>9
<1>11. k = [l EXCEPT !.tail = rest,
                     !.head = IF rest = MqNull THEN MqNull ELSE @,
                     !.next = [e \in MqMessage |-> IF e = rest THEN MqNull ELSE @[e]]]
  BY DEF MqRemoved
<1> HIDE DEF k, rest
<1>13. k \in MqListType
  BY <1>9, <1>10, <1>11 DEF MqListType
<1>14. /\ k.tail = rest /\ k.head = (IF rest = MqNull THEN MqNull ELSE l.head)
       /\ k.next = [e \in MqMessage |-> IF e = rest THEN MqNull ELSE l.next[e]]
       /\ k.prev = l.prev
  BY <1>11 DEF MqListType
<1> HIDE DEF t
<1>15. rest = MqNull <=> n = 0
  BY <1>3, <1>7, <1>8, <1>9
<1>16. k.tail = IF n = 0 THEN MqNull ELSE t[1]
  BY <1>2, <1>7, <1>8, <1>14
<1>17. k.head = IF n = 0 THEN MqNull ELSE t[n]
  BY <1>2, <1>5, <1>14, <1>15
<1>18. ASSUME NEW i \in 1..n
       PROVE  /\ k.prev[t[i]] = IF i = n THEN MqNull ELSE t[i + 1]
              /\ k.next[t[i]] = IF i = 1 THEN MqNull ELSE t[i - 1]
  <2>1. PICK j \in 1..(n + 1) : j = i + 1
    OBVIOUS
  <2>2. t[i] = q[j] /\ q[j] \in MqMessage /\ j # 1 /\ j - 1 = i /\ n # 0
    BY <1>2, <1>3, <2>1
  <2>3. k.prev[t[i]] = IF i = n THEN MqNull ELSE t[i + 1]
    BY <1>2, <1>6, <1>14, <2>1, <2>2
  <2>4. k.next[q[j]] = IF q[j] = q[2] THEN MqNull ELSE l.next[q[j]]
    BY <1>8, <1>14, <2>2
  <2>6. CASE i = 1
    BY <1>7, <2>1, <2>2, <2>3, <2>4, <2>6
  <2>7. CASE i # 1
    <3>2. q[j] # q[2] /\ t[i - 1] = q[i]
      BY <1>2, <1>4, <2>1, <2>7
    <3> QED BY <1>6, <2>2, <2>3, <2>4, <2>7, <3>2
  <2> QED BY <2>6, <2>7
<1>19. Chained(k, t)
  BY <1>2, <1>16, <1>17, <1>18 DEF Chained
<1> QED BY <1>2, <1>5, <1>10, <1>13, <1>19 DEF k, t

-----------------------------------------------------------------------------
(* A queue, its thread and its timers                                      *)

(* The messages of the list, in the order in which they will be received   *)
MqListed(q) ==
  /\ Distinct(q) /\ Chained(mqList, q)
  /\ ToSet(q) = {m \in MqMessage : mqLife[m] = "listed"}

(* A message is held by the thread or by a timer whose callback has not    *)
(* begun, and it is known by which one                                     *)
MqOwned ==
  /\ mqThread.pc = "proc" => mqThread.message \in MqMessage
  /\ \A m \in MqMessage :
       /\ mqLife[m] = "held" <=> (mqThread.pc = "proc" /\ mqThread.message = m)
       /\ mqLife[m] = "delayed" <=> m \in mqTimers \ mqCallback
       /\ mqLife[m] = "new" => m \notin mqTimers
  /\ mqCallback \subseteq mqTimers

(* How far the end of the task and that of the thread have come            *)
MqEndsWell ==
  /\ mqTask # "alive" => mqTimers = {}
  /\ mqUnblocked <=> mqTask \in {"interrupting", "gone"}
  /\ mqFreed <=> (mqThread.pc = "ended" /\ mqTask = "gone")
  /\ mqThread.pc = "ended" => mqUnblocked
  /\ mqFreed => mqList = MqEmptyList

MqDone == \A i \in DOMAIN mqHandled : mqLife[mqHandled[i]] = "deleted"

MqInv ==
  /\ MqTypeOK
  /\ \E q \in Seq(MqMessage) : MqListed(q)
  /\ MqOwned /\ MqEndsWell /\ MqDone

FifoStep == [Fifo!Next]_<<MqInbox, mqHandled, mqFreed>>

MqHolds == IF mqThread.pc = "proc" THEN <<mqThread.message>> ELSE <<>>

InboxReads == \A q \in Seq(MqMessage) : MqListed(q) => MqInbox = MqHolds \o q

LEMMA InboxIs == InboxReads
  BY ChainRead DEF InboxReads, MqInbox, MqHolds, MqListed

LEMMA MqStates ==
  /\ \A s \in {"new", "delayed", "listed", "held", "lost", "deleted"} :
       s \in {"new", "delayed", "listed", "held", "lost", "deleted"}
  /\ MqTypeOK => /\ mqList \in MqListType /\ mqUnblocked \in BOOLEAN /\ mqFreed \in BOOLEAN
                 /\ mqThread = [pc |-> mqThread.pc, message |-> mqThread.message]
                 /\ mqThread.pc \in {"enter", "asleep", "woken", "proc", "ended"}
                 /\ mqThread.message \in MqPointer
  BY DEF MqTypeOK, MqListType

MqLives == {"new", "delayed", "listed", "held", "lost", "deleted"}

LEMMA MqLivesType == MqTypeOK => mqLife \in [MqMessage -> MqLives]
  BY DEF MqTypeOK, MqLives

(* msg_q_snd, for a message that is new or whose timer calls back          *)
LEMMA SndAdds ==
  ASSUME MqTypeOK, NEW q \in Seq(MqMessage), MqListed(q), NEW m \in MqMessage,
         mqLife[m] \in {"new", "delayed"}, MqSnd(m)
  PROVE  /\ mqLife' = [mqLife EXCEPT ![m] = IF mqUnblocked THEN "lost" ELSE "listed"]
         /\ mqList' \in MqListType
         /\ mqThread'.message = mqThread.message
         /\ mqThread' \in [pc: {"enter", "asleep", "woken", "proc", "ended"}, message: MqPointer]
         /\ mqThread'.pc = "proc" <=> mqThread.pc = "proc"
         /\ mqThread'.pc = "ended" <=> mqThread.pc = "ended"
         /\ mqUnblocked => mqList' = mqList /\ MqListed(q)'
         /\ ~mqUnblocked => MqListed(Append(q, m))'
<1>1. mqLife \in [MqMessage -> MqLives] /\ mqList \in MqListType
  BY MqLivesType, MqStates
<1>2. mqThread \in [pc: {"enter", "asleep", "woken", "proc", "ended"}, message: MqPointer]
  BY DEF MqTypeOK
<1>3. m \notin ToSet(q)
  BY DEF MqListed
<1>4. CASE mqUnblocked
  BY <1>1, <1>2, <1>4 DEF MqSnd, MqListed
<1>5. CASE ~mqUnblocked
  <2>2. Distinct(q) /\ Chained(mqList, q)
    BY DEF MqListed
  <2>3. MqAdded(mqList, m) \in MqListType /\ Chained(MqAdded(mqList, m), Append(q, m))
    BY <1>1, <1>3, <2>2, ChainAdded
  <2>4. Distinct(Append(q, m)) /\ ToSet(Append(q, m)) = ToSet(q) \cup {m}
    BY <1>3, <2>2, DistinctAppend, ElementsWith
  <2> DEFINE a == Append(q, m)
  <2> HIDE DEF a
  <2> QED BY <1>1, <1>2, <1>5, <2>3, <2>4 DEF a, MqListed, MqSnd
<1> QED BY <1>4, <1>5

(* msg_q_flush and the end of the queue                                    *)
LEMMA FreeEmpties ==
  ASSUME MqTypeOK, NEW q \in Seq(MqMessage), MqListed(q), MqFree(mqLife)
  PROVE  /\ mqLife' = [m \in MqMessage |-> IF mqLife[m] = "listed" THEN "deleted" ELSE mqLife[m]]
         /\ mqList' = MqEmptyList /\ mqList' \in MqListType /\ mqFreed' = TRUE
         /\ MqListed(<<>>)'
<1>1. MqFromHead(mqList) = Reverse(q) /\ Distinct(q)
  BY ChainRead DEF MqListed
<1>2. ToSet(Reverse(q)) = ToSet(q)
  BY <1>1, ReverseIs
<1>5. mqLife' = [m \in MqMessage |-> IF mqLife[m] = "listed" THEN "deleted" ELSE mqLife[m]]
  BY <1>1, <1>2 DEF MqFree, MqListed, ToSet, Range
<1> DEFINE none == <<>>
<1> HIDE DEF none
<1> QED BY <1>5, ChainEmpty, DistinctEmpty DEF none, MqListed, ToSet, MqFree

LEMMA AppendJoins ==
  ASSUME NEW S, NEW p \in Seq(S), NEW q \in Seq(S), NEW x \in S
  PROVE  p \o Append(q, x) = Append(p \o q, x)
<1> DEFINE u == <<x>>
<1>1. u \in Seq(S) /\ Append(q, x) = q \o u
  BY AppendIsConcat
<1>3. Append(p \o q, x) = (p \o q) \o u
  BY AppendIsConcat
<1> HIDE DEF u
<1>4. (p \o q) \o u = p \o (q \o u)
  <2>1. AreAssociated(S)
    BY Associates
  <2> QED BY <1>1, <2>1 DEF AreAssociated
<1> QED BY <1>1, <1>3, <1>4

LEMMA HoldsType ==
  ASSUME MqTypeOK, MqOwned
  PROVE  MqHolds \in Seq(MqMessage) /\ \A m \in ToSet(MqHolds) : mqLife[m] = "held"
<1>1. CASE mqThread.pc = "proc"
  BY <1>1 DEF MqOwned, MqHolds, ToSet
<1>2. CASE mqThread.pc # "proc"
  BY <1>2 DEF MqHolds, ToSet
<1> QED BY <1>1, <1>2

LEMMA FifoMoves ==
  /\ \A m \in MqMessage : Fifo!Take(m) => FifoStep
  /\ Fifo!Handle => FifoStep
  /\ Fifo!End => FifoStep
  /\ MqInbox' = MqInbox /\ mqHandled' = mqHandled /\ mqFreed' = mqFreed => FifoStep
  BY DEF FifoStep, Fifo!Next

(* A message that is sent is taken                                         *)
LEMMA SndTakes ==
  ASSUME MqInv, NEW m \in MqMessage, mqLife[m] \in {"new", "delayed"}, MqSnd(m),
         mqHandled' = mqHandled, mqFreed' = mqFreed
  PROVE  FifoStep
<1>1. PICK q \in Seq(MqMessage) : MqListed(q)
  BY DEF MqInv
<1>2. MqTypeOK /\ MqOwned /\ MqEndsWell /\ MqDone
  BY DEF MqInv
<1>3. MqHolds' = MqHolds
  BY <1>1, <1>2, SndAdds DEF MqHolds
<1>4. MqInbox = MqHolds \o q
  BY <1>1, InboxIs DEF InboxReads
<1>5. InboxReads'
  BY InboxIs, PTL
<1>6. CASE mqUnblocked
  <2>1. MqListed(q)'
    BY <1>1, <1>2, <1>6, SndAdds
  <2> QED BY <1>1, <1>3, <1>4, <1>5, <2>1, FifoMoves DEF InboxReads
<1>7. CASE ~mqUnblocked
  <2> DEFINE a == Append(q, m)
  <2>1. MqListed(a)' /\ a \in Seq(MqMessage)
    BY <1>1, <1>2, <1>7, SndAdds
  <2> HIDE DEF a
  <2>2. MqInbox' = MqHolds' \o a
    BY <1>5, <2>1 DEF InboxReads
  <2>3. MqHolds \in Seq(MqMessage) /\ \A e \in ToSet(MqHolds) : mqLife[e] = "held"
    BY <1>2, HoldsType
  <2>4. MqInbox' = Append(MqInbox, m)
    BY <1>3, <1>4, <2>2, <2>3, AppendJoins DEF a
  <2>7. m \notin ToSet(MqInbox)
    BY <1>1, <1>4, <2>3, ElementsOfBoth DEF MqListed
  <2> QED BY <1>2, <1>7, <2>4, <2>7, FifoMoves DEF Fifo!Take, Fifo!Range, ToSet, MqDone,
    MqEndsWell
<1> QED BY <1>6, <1>7

LEMMA MqInvParts ==
  ASSUME MqInv
  PROVE  /\ MqTypeOK /\ MqOwned /\ MqEndsWell /\ MqDone
         /\ mqLife \in [MqMessage -> MqLives]
         /\ mqThread \in [pc: {"enter", "asleep", "woken", "proc", "ended"}, message: MqPointer]
         /\ mqTask \in {"alive", "cleared", "interrupting", "gone"}
         /\ mqHandled \in Seq(MqMessage) /\ mqTimers \subseteq MqMessage
  BY MqLivesType DEF MqInv, MqTypeOK

(* A message of which something is known again: what was handled stays     *)
LEMMA DoneStays ==
  ASSUME MqInv, mqHandled' = mqHandled,
         \A m \in MqMessage : mqLife[m] = "deleted" => mqLife'[m] = "deleted"
  PROVE  MqDone'
  BY MqInvParts DEF MqDone

(* sendMsg and the callback of a timer                                     *)
LEMMA SndStays ==
  ASSUME MqInv, NEW m \in MqMessage, MqSnd(m),
         \/ mqLife[m] = "new" /\ mqCallback' = mqCallback
         \/ m \in mqTimers \ mqCallback /\ mqCallback' = mqCallback \cup {m},
         UNCHANGED <<mqUnblocked, mqFreed, mqHandled, mqTimers, mqTask>>
  PROVE  MqInv' /\ FifoStep
<1>1. PICK q \in Seq(MqMessage) : MqListed(q)
  BY DEF MqInv
<1>2. /\ MqTypeOK /\ MqOwned /\ MqEndsWell /\ MqDone
      /\ mqLife \in [MqMessage -> MqLives]
  BY MqInvParts
<1>3. mqLife[m] \in {"new", "delayed"}
  BY <1>2 DEF MqOwned
<1>4. /\ mqLife' = [mqLife EXCEPT ![m] = IF mqUnblocked THEN "lost" ELSE "listed"]
      /\ mqList' \in MqListType
      /\ mqThread'.message = mqThread.message
      /\ mqThread' \in [pc: {"enter", "asleep", "woken", "proc", "ended"}, message: MqPointer]
      /\ mqThread'.pc = "proc" <=> mqThread.pc = "proc"
      /\ mqThread'.pc = "ended" <=> mqThread.pc = "ended"
      /\ mqUnblocked => mqList' = mqList /\ MqListed(q)'
      /\ ~mqUnblocked => MqListed(Append(q, m))'
  BY <1>1, <1>2, <1>3, SndAdds
<1>5. /\ \A e \in MqMessage : e # m => mqLife'[e] = mqLife[e]
      /\ mqLife'[m] \in {"lost", "listed"}
      /\ mqLife' \in [MqMessage -> MqLives]
  BY <1>2, <1>4 DEF MqLives
<1>6. MqTypeOK'
  BY <1>2, <1>4, <1>5 DEF MqTypeOK, MqLives, MqListType
<1>7. \E p \in Seq(MqMessage) : MqListed(p)'
  <2>1. CASE mqUnblocked
    BY <1>4, <2>1
  <2>2. CASE ~mqUnblocked
    <3>1. Append(q, m) \in Seq(MqMessage)
      OBVIOUS
    <3> QED BY <1>4, <2>2, <3>1
  <2> QED BY <2>1, <2>2
<1>8. MqOwned'
  <2>2. mqThread'.pc = "proc" => mqThread'.message \in MqMessage /\ mqThread'.message # m
    BY <1>2, <1>3, <1>4 DEF MqOwned
  <2>3. ASSUME NEW e \in MqMessage
        PROVE  /\ mqLife'[e] = "held" <=> (mqThread'.pc = "proc" /\ mqThread'.message = e)
               /\ mqLife'[e] = "delayed" <=> e \in mqTimers' \ mqCallback'
               /\ mqLife'[e] = "new" => e \notin mqTimers'
    BY <1>2, <1>3, <1>4, <1>5, <2>2 DEF MqOwned
  <2> QED BY <1>2, <2>2, <2>3 DEF MqOwned
<1>9. MqEndsWell'
  BY <1>2, <1>4 DEF MqEndsWell
<1>10. MqDone'
  BY <1>3, <1>5, DoneStays
<1>11. FifoStep
  BY <1>3, SndTakes
<1> QED BY <1>6, <1>7, <1>8, <1>9, <1>10, <1>11 DEF MqInv

LEMMA SendMsgStays ==
  ASSUME MqInv, NEW m \in MqMessage, MqSendMsg(m)
  PROVE  MqInv' /\ FifoStep
  BY SndStays DEF MqSendMsg, mqTimerVars

LEMMA TimeOutStays ==
  ASSUME MqInv, NEW m \in MqMessage, MqTimeOutCallback(m)
  PROVE  MqInv' /\ FifoStep
  BY SndStays DEF MqTimeOutCallback

(* A step that leaves the list and the message of the thread alone         *)
LEMMA QuietStays ==
  ASSUME MqInv, mqList' = mqList, mqHandled' = mqHandled, mqFreed' = mqFreed,
         mqThread'.pc = "proc" <=> mqThread.pc = "proc",
         mqThread'.message = mqThread.message,
         mqLife' \in [MqMessage -> MqLives],
         \A m \in MqMessage : /\ mqLife'[m] = "listed" <=> mqLife[m] = "listed"
                              /\ mqLife'[m] = "held" <=> mqLife[m] = "held"
                              /\ mqLife[m] = "deleted" => mqLife'[m] = "deleted"
  PROVE  /\ \E q \in Seq(MqMessage) : MqListed(q)'
         /\ MqDone' /\ FifoStep
         /\ mqThread'.pc = "proc" => mqThread'.message \in MqMessage
         /\ \A m \in MqMessage :
              mqLife'[m] = "held" <=> (mqThread'.pc = "proc" /\ mqThread'.message = m)
<1>1. PICK q \in Seq(MqMessage) : MqListed(q)
  BY DEF MqInv
<1>2. MqListed(q)'
  BY <1>1 DEF MqListed
<1>4. MqInbox' = MqInbox
  <2>3. InboxReads'
    BY InboxIs, PTL
  <2> QED BY <1>1, <1>2, <2>3, InboxIs DEF InboxReads, MqHolds
<1> QED BY <1>2, <1>4, MqInvParts, FifoMoves, DoneStays DEF MqOwned

(* sendMsg with a delay *)
LEMMA SendDelayedStays ==
  ASSUME MqInv, NEW m \in MqMessage, MqSendDelayed(m)
  PROVE  MqInv' /\ FifoStep
<1>2. /\ mqTask = "alive" /\ mqLife[m] = "new"
      /\ mqLife' = [mqLife EXCEPT ![m] = "delayed"] /\ mqTimers' = mqTimers \cup {m}
      /\ UNCHANGED <<mqQueueVars, mqHandled, mqCallback, mqThread, mqTask>>
  BY DEF MqSendDelayed
<1>3. /\ mqList' = mqList /\ mqUnblocked' = mqUnblocked /\ mqFreed' = mqFreed
      /\ mqHandled' = mqHandled /\ mqCallback' = mqCallback /\ mqThread' = mqThread
      /\ mqTask' = mqTask
  BY <1>2 DEF mqQueueVars
<1> QED BY <1>2, <1>3, QuietStays, MqInvParts DEF MqInv, MqEndsWell, MqOwned, MqTypeOK, MqLives

LEMMA EraseStays ==
  ASSUME MqInv, NEW m \in MqMessage, MqErase(m)
  PROVE  MqInv' /\ FifoStep
<1>2. /\ m \in mqCallback /\ mqCallback' = mqCallback \ {m} /\ mqTimers' = mqTimers \ {m}
      /\ mqList' = mqList /\ mqUnblocked' = mqUnblocked /\ mqFreed' = mqFreed
      /\ mqLife' = mqLife /\ mqHandled' = mqHandled /\ mqThread' = mqThread
      /\ mqTask' = mqTask
  BY DEF MqErase, mqQueueVars
<1> QED BY <1>2, QuietStays, MqInvParts DEF MqInv, MqEndsWell, MqOwned, MqTypeOK

LEMMA SleepStays ==
  ASSUME MqInv, MqSleep
  PROVE  MqInv' /\ FifoStep
<1>2. /\ mqThread.pc \in {"enter", "woken"} /\ mqThread' = [mqThread EXCEPT !.pc = "asleep"]
      /\ mqList' = mqList /\ mqUnblocked' = mqUnblocked /\ mqFreed' = mqFreed
      /\ mqLife' = mqLife /\ mqHandled' = mqHandled /\ mqTimers' = mqTimers
      /\ mqCallback' = mqCallback /\ mqTask' = mqTask
  BY DEF MqSleep, mqQueueVars, mqTimerVars
<1> QED BY <1>2, QuietStays, MqInvParts DEF MqInv, MqOwned, MqEndsWell, MqTypeOK

(* ~MsgTask, when no timer calls back meanwhile *)
LEMMA DestroyStays ==
  ASSUME MqInv, MqTroubles = {}, MqDestroy
  PROVE  MqInv' /\ FifoStep
<1>2. /\ mqTask = "alive" /\ mqCallback = {} /\ mqTask' = "cleared" /\ mqTimers' = {}
      /\ mqLife' = [m \in MqMessage |-> IF m \in mqTimers THEN "deleted" ELSE mqLife[m]]
      /\ mqList' = mqList /\ mqUnblocked' = mqUnblocked /\ mqFreed' = mqFreed
      /\ mqHandled' = mqHandled /\ mqCallback' = mqCallback /\ mqThread' = mqThread
  BY DEF MqDestroy, mqQueueVars
<1> QED BY <1>2, QuietStays, MqInvParts DEF MqInv, MqOwned, MqTypeOK, MqLives, MqEndsWell

LEMMA InterruptStays ==
  ASSUME MqInv, MqInterrupt
  PROVE  MqInv' /\ FifoStep
<1>2. /\ mqTask = "cleared" /\ mqTask' = "interrupting" /\ mqUnblocked' = TRUE
      /\ mqThread' = [mqThread EXCEPT !.pc = IF @ = "asleep" THEN "woken" ELSE @]
      /\ mqList' = mqList /\ mqFreed' = mqFreed /\ mqLife' = mqLife
      /\ mqHandled' = mqHandled /\ mqTimers' = mqTimers /\ mqCallback' = mqCallback
  BY DEF MqInterrupt, mqTimerVars
<1> QED BY <1>2, QuietStays, MqInvParts DEF MqInv, MqEndsWell, MqTypeOK, MqOwned

LEMMA ReceiveStays ==
  ASSUME MqInv, MqReceive
  PROVE  MqInv' /\ FifoStep
<1>1. /\ MqTypeOK /\ MqOwned /\ MqEndsWell /\ MqDone /\ mqLife \in [MqMessage -> MqLives]
      /\ mqThread \in [pc: {"enter", "asleep", "woken", "proc", "ended"}, message: MqPointer]
  BY MqInvParts
<1>2. /\ mqThread.pc = "woken" \/ (mqThread.pc = "enter" /\ ~mqUnblocked)
      /\ mqList.head # MqNull
      /\ mqThread' = [pc |-> "proc", message |-> mqList.tail]
      /\ mqLife' = [mqLife EXCEPT ![mqList.tail] = "held"]
      /\ mqList' = MqRemoved(mqList)
      /\ mqUnblocked' = mqUnblocked /\ mqFreed' = mqFreed /\ mqHandled' = mqHandled
      /\ mqTimers' = mqTimers /\ mqCallback' = mqCallback /\ mqTask' = mqTask
  BY DEF MqReceive, mqTimerVars
<1>3. PICK q \in Seq(MqMessage) : MqListed(q)
  BY DEF MqInv
<1>4. /\ Distinct(q) /\ Chained(mqList, q) /\ mqList \in MqListType
      /\ ToSet(q) = {m \in MqMessage : mqLife[m] = "listed"}
  BY <1>1, <1>3, MqStates DEF MqListed
<1>5. q # <<>>
  BY <1>2, <1>4 DEF Chained
<1>7. /\ mqList.tail = Head(q) /\ mqList' \in MqListType /\ Chained(mqList', Tail(q))
  BY <1>2, <1>4, <1>5, ChainRemoved
<1> DEFINE h == Head(q)
           t == Tail(q)
<1>9. /\ h \in MqMessage /\ mqLife[h] = "listed" /\ t \in Seq(MqMessage) /\ q = <<h>> \o t
      /\ mqThread' = [pc |-> "proc", message |-> h]
      /\ mqLife' = [mqLife EXCEPT ![h] = "held"]
      /\ Distinct(t) /\ ToSet(t) = ToSet(q) \ {h} /\ Chained(mqList', t)
  BY <1>2, <1>4, <1>5, <1>7, HeadAndTail, DistinctTail
<1> HIDE DEF h, t
<1>10. /\ mqThread'.pc = "proc" /\ mqThread'.message = h /\ mqThread.pc # "proc"
       /\ \A m \in MqMessage : mqLife'[m] = IF m = h THEN "held" ELSE mqLife[m]
       /\ mqLife' \in [MqMessage -> MqLives]
  BY <1>1, <1>2, <1>9 DEF MqLives
<1>11. MqTypeOK'
  BY <1>1, <1>2, <1>7, <1>9, <1>10 DEF MqPointer, MqListType, MqLives, MqTypeOK
<1>12. MqListed(t)'
  BY <1>4, <1>9, <1>10 DEF MqListed
<1>13. MqOwned'
  BY <1>1, <1>2, <1>9, <1>10 DEF MqOwned
<1>14. MqEndsWell'
  BY <1>1, <1>2, <1>10 DEF MqEndsWell
<1>15. MqDone'
  BY <1>2, <1>9, <1>10, DoneStays
<1>16. FifoStep
  <2>1. MqInbox = MqHolds \o q /\ MqHolds = <<>>
    BY <1>3, <1>10, InboxIs DEF InboxReads, MqHolds
  <2>2. InboxReads'
    BY InboxIs, PTL
  <2>3. MqInbox' = MqHolds' \o t /\ MqHolds' = <<h>>
    BY <1>9, <1>10, <1>12, <2>2 DEF InboxReads, MqHolds
  <2> QED BY <1>2, <1>9, <2>1, <2>3, FifoMoves, ConcatEmptySeq
<1> QED BY <1>9, <1>11, <1>12, <1>13, <1>14, <1>15, <1>16 DEF MqInv

LEMMA ProcStays ==
  ASSUME MqInv, MqProc
  PROVE  MqInv' /\ FifoStep
<1>1. /\ MqTypeOK /\ MqOwned /\ MqEndsWell /\ MqDone /\ mqLife \in [MqMessage -> MqLives]
      /\ mqHandled \in Seq(MqMessage)
  BY MqInvParts
<1> DEFINE h == mqThread.message
<1>2. /\ mqThread.pc = "proc" /\ mqHandled' = Append(mqHandled, h)
      /\ mqLife' = [mqLife EXCEPT ![h] = "deleted"]
      /\ mqThread' = [pc |-> "enter", message |-> MqNull]
      /\ mqList' = mqList /\ mqUnblocked' = mqUnblocked /\ mqFreed' = mqFreed
      /\ mqTimers' = mqTimers /\ mqCallback' = mqCallback /\ mqTask' = mqTask
  BY DEF MqProc, mqQueueVars, mqTimerVars
<1>3. h \in MqMessage /\ mqLife[h] = "held"
  BY <1>1, <1>2 DEF MqOwned
<1>4. PICK q \in Seq(MqMessage) : MqListed(q)
  BY DEF MqInv
<1>5. MqHolds = <<h>>
  BY <1>2 DEF MqHolds
<1> HIDE DEF h
<1>7. /\ mqThread'.pc = "enter" /\ mqLife' \in [MqMessage -> MqLives]
      /\ \A m \in MqMessage : mqLife'[m] = IF m = h THEN "deleted" ELSE mqLife[m]
  BY <1>1, <1>2, <1>3 DEF MqLives
<1>8. MqTypeOK'
  BY <1>1, <1>2, <1>3, <1>7 DEF MqPointer, MqLives, MqTypeOK
<1>9. MqListed(q)'
  BY <1>2, <1>3, <1>4, <1>7 DEF MqListed
<1>10. MqOwned'
  BY <1>1, <1>2, <1>3, <1>7 DEF MqOwned
<1>11. ~mqFreed /\ MqEndsWell'
  BY <1>1, <1>2, <1>7 DEF MqEndsWell
<1>12. MqDone'
  <2>1. ASSUME NEW i \in DOMAIN mqHandled' PROVE mqLife'[mqHandled'[i]] = "deleted"
    BY <1>1, <1>2, <1>3, <1>7 DEF MqDone
  <2> QED BY <2>1 DEF MqDone
<1>13. FifoStep
  <2>2. InboxReads'
    BY InboxIs, PTL
  <2>4. MqInbox' = q
    BY <1>7, <1>9, <2>2, ConcatEmptySeq DEF InboxReads, MqHolds
  <2> DEFINE in == <<h>> \o q
  <2>5. in # <<>> /\ Head(in) = h /\ Tail(in) = q
    BY <1>3
  <2>6. MqInbox = in
    BY <1>4, <1>5, InboxIs DEF InboxReads
  <2> HIDE DEF in
  <2> QED BY <1>2, <1>11, <2>4, <2>5, <2>6, FifoMoves DEF Fifo!Handle
<1> QED BY <1>8, <1>9, <1>10, <1>11, <1>12, <1>13 DEF MqInv

(* The queue is freed by the last of the two that have it                  *)
LEMMA FreeStays ==
  ASSUME MqInv, MqFree(mqLife), mqThread.pc # "proc", mqThread'.pc = "ended",
         mqTask' = "gone", ~mqFreed, mqUnblocked, mqThread'.message = mqThread.message,
         mqThread' \in [pc: {"enter", "asleep", "woken", "proc", "ended"}, message: MqPointer],
         mqTask \in {"interrupting", "gone"},
         UNCHANGED <<mqUnblocked, mqHandled, mqTimers, mqCallback>>
  PROVE  MqInv' /\ FifoStep
<1>1. /\ MqTypeOK /\ MqOwned /\ MqEndsWell /\ MqDone /\ mqLife \in [MqMessage -> MqLives]
  BY MqInvParts
<1>2. PICK q \in Seq(MqMessage) : MqListed(q)
  BY DEF MqInv
<1> DEFINE none == <<>>
<1>3. /\ mqLife' = [m \in MqMessage |-> IF mqLife[m] = "listed" THEN "deleted" ELSE mqLife[m]]
      /\ mqList' = MqEmptyList /\ mqList' \in MqListType /\ mqFreed' = TRUE
      /\ MqListed(none)' /\ none \in Seq(MqMessage)
  <2>1. none \in Seq(MqMessage)
    OBVIOUS
  <2> QED BY <1>1, <1>2, <2>1, FreeEmpties, Zenon
<1>4. MqInbox' = none
  <2>1. InboxReads'
    BY InboxIs, PTL
  <2>2. MqInbox' = MqHolds' \o none /\ MqHolds' = none
    BY <1>3, <2>1 DEF InboxReads, MqHolds
  <2> QED BY <2>2
<1>5. FifoStep
  BY <1>3, <1>4, FifoMoves DEF Fifo!End
<1> HIDE DEF none
<1>6. /\ mqLife' \in [MqMessage -> MqLives]
      /\ \A m \in MqMessage : /\ mqLife'[m] = "held" <=> mqLife[m] = "held"
                              /\ mqLife'[m] = "delayed" <=> mqLife[m] = "delayed"
                              /\ mqLife'[m] = "new" <=> mqLife[m] = "new"
                              /\ mqLife[m] = "deleted" => mqLife'[m] = "deleted"
  BY <1>1, <1>3 DEF MqLives
<1>8. MqOwned'
  BY <1>1, <1>6 DEF MqOwned
<1> QED BY <1>1, <1>3, <1>5, <1>6, <1>8, DoneStays DEF MqInv, MqEndsWell, MqTypeOK, MqLives,
  MqListType

LEMMA EndStays ==
  ASSUME MqInv, MqEnd
  PROVE  MqInv' /\ FifoStep
<1>1. /\ MqTypeOK /\ MqOwned /\ MqEndsWell /\ mqLife \in [MqMessage -> MqLives]
      /\ mqThread \in [pc: {"enter", "asleep", "woken", "proc", "ended"}, message: MqPointer]
  BY MqInvParts
<1>2. /\ mqUnblocked /\ mqThread.pc \in {"enter", "woken"}
      /\ mqThread' = [mqThread EXCEPT !.pc = "ended"]
      /\ mqUnblocked' = mqUnblocked /\ mqHandled' = mqHandled /\ mqTimers' = mqTimers
      /\ mqCallback' = mqCallback /\ mqTask' = mqTask
  BY DEF MqEnd, mqTimerVars
<1>3. /\ mqThread'.pc = "ended" /\ mqThread'.message = mqThread.message
      /\ mqThread' \in [pc: {"enter", "asleep", "woken", "proc", "ended"}, message: MqPointer]
      /\ ~mqFreed /\ mqTask \in {"interrupting", "gone"}
  BY <1>1, <1>2 DEF MqEndsWell
<1>4. CASE mqTask = "interrupting"
  BY <1>1, <1>2, <1>3, <1>4, QuietStays DEF MqEnd, MqTypeOK, MqOwned, MqEndsWell, MqInv
<1>5. CASE mqTask # "interrupting"
  BY <1>2, <1>3, <1>5, FreeStays DEF MqEnd
<1> QED BY <1>4, <1>5

LEMMA LetGoStays ==
  ASSUME MqInv, MqLetGo
  PROVE  MqInv' /\ FifoStep
<1>1. /\ MqTypeOK /\ MqOwned /\ MqEndsWell /\ mqLife \in [MqMessage -> MqLives]
      /\ mqThread \in [pc: {"enter", "asleep", "woken", "proc", "ended"}, message: MqPointer]
  BY MqInvParts
<1>2. /\ mqTask = "interrupting" /\ mqTask' = "gone"
      /\ mqUnblocked' = mqUnblocked /\ mqHandled' = mqHandled /\ mqTimers' = mqTimers
      /\ mqCallback' = mqCallback /\ mqThread' = mqThread
  BY DEF MqLetGo, mqTimerVars
<1>3. mqUnblocked /\ ~mqFreed
  BY <1>1, <1>2 DEF MqEndsWell
<1>4. CASE mqThread.pc = "ended"
  BY <1>1, <1>2, <1>3, <1>4, FreeStays DEF MqLetGo
<1>5. CASE mqThread.pc # "ended"
  BY <1>1, <1>2, <1>3, <1>5, QuietStays DEF MqLetGo, MqTypeOK, MqOwned, MqEndsWell, MqInv
<1> QED BY <1>4, <1>5

LEMMA MqBegins ==
  ASSUME MqInit
  PROVE  MqInv /\ Fifo!Init
<1>1. /\ mqList = MqEmptyList /\ mqUnblocked = FALSE /\ mqFreed = FALSE
      /\ mqLife = [m \in MqMessage |-> "new"] /\ mqHandled = <<>>
      /\ mqTimers = {} /\ mqCallback = {}
      /\ mqThread = [pc |-> "enter", message |-> MqNull] /\ mqTask = "alive"
  BY DEF MqInit
<1> DEFINE none == <<>>
<1>2. Distinct(none) /\ Chained(MqEmptyList, none) /\ ToSet(none) = {} /\ MqEmptyList \in MqListType
  BY ChainEmpty, DistinctEmpty DEF ToSet
<1>3. none \in Seq(MqMessage)
  OBVIOUS
<1>4. Fifo!Init
  <2>1. MqListed(none)
    <3> HIDE DEF none
    <3> QED BY <1>1, <1>2 DEF MqListed
  <2>2. MqInbox = MqHolds \o none /\ MqHolds = none
    BY <1>1, <1>3, <2>1, InboxIs DEF InboxReads, MqHolds
  <2> QED BY <1>1, <2>2 DEF Fifo!Init
<1> HIDE DEF none
<1>6. MqTypeOK
  <2>2. mqHandled \in Seq(MqMessage)
    BY <1>1
  <2> QED BY <1>1, <1>2, <2>2 DEF MqTypeOK, MqListType, MqPointer
<1> QED BY <1>1, <1>2, <1>3, <1>4, <1>6 DEF MqInv, MqOwned, MqEndsWell, MqListed, MqDone

LEMMA MqStays ==
  ASSUME MqInv, MqTroubles = {}, [MqNext]_mqVars
  PROVE  MqInv' /\ FifoStep
<1>1. ASSUME NEW m \in MqMessage, MqSendMsg(m) PROVE MqInv' /\ FifoStep
  BY <1>1, SendMsgStays
<1>2. ASSUME NEW m \in MqMessage, MqSendDelayed(m) PROVE MqInv' /\ FifoStep
  BY <1>2, SendDelayedStays
<1>3. ASSUME NEW m \in MqMessage, MqTimeOutCallback(m) PROVE MqInv' /\ FifoStep
  BY <1>3, TimeOutStays
<1>4. ASSUME NEW m \in MqMessage, MqErase(m) PROVE MqInv' /\ FifoStep
  BY <1>4, EraseStays
<1>5. CASE MqSleep \/ MqThread \/ MqDestroy \/ MqEnding
  BY <1>5, SleepStays, ReceiveStays, ProcStays, EndStays, DestroyStays, InterruptStays,
     LetGoStays DEF MqThread, MqEnding
<1>6. CASE UNCHANGED mqVars
  BY <1>6, MqInvParts, QuietStays DEF mqVars, MqTypeOK, MqOwned, MqEndsWell, MqInv
<1> QED BY <1>1, <1>2, <1>3, <1>4, <1>5, <1>6 DEF MqNext

LEMMA MqOneOwner == MqInv => MessageHasOneOwner
<1> SUFFICES ASSUME MqInv PROVE MessageHasOneOwner
  OBVIOUS
<1>1. PICK q \in Seq(MqMessage) : MqListed(q)
  BY DEF MqInv
<1>2. MqFromTail(mqList) = q /\ MqFromHead(mqList) = Reverse(q) /\ Distinct(q)
  BY <1>1, ChainRead DEF MqListed
<1> DEFINE r == Reverse(q)
<1>3. /\ r \in Seq(MqMessage) /\ Len(r) = Len(q) /\ Distinct(r) /\ ToSet(r) = ToSet(q)
      /\ \A i \in 1..Len(q) : r[i] = q[(Len(q) - i) + 1]
  BY <1>2, ReverseIs
<1>4. q = Reverse(r)
  <2> HIDE DEF r
  <2>1. /\ Reverse(r) \in Seq(MqMessage) /\ Len(Reverse(r)) = Len(r)
        /\ \A i \in 1..Len(r) : Reverse(r)[i] = r[(Len(r) - i) + 1]
    BY <1>3, ReverseIs
  <2>2. PICK n \in Nat : n = Len(q)
    OBVIOUS
  <2>4. \A i \in 1..n : Reverse(r)[i] = q[i]
    <3> SUFFICES ASSUME NEW i \in 1..n PROVE Reverse(r)[i] = q[i]
      OBVIOUS
    <3>1. PICK k \in 1..n : k = (n - i) + 1 /\ (n - k) + 1 = i
      OBVIOUS
    <3> QED BY <1>3, <2>1, <2>2, <3>1
  <2> QED BY <1>3, <2>1, <2>2, <2>4, SeqEqual
<1>5. Range(r) = {m \in MqMessage : mqLife[m] = "listed"}
  BY <1>1, <1>3 DEF MqListed, Range, ToSet
<1> HIDE DEF r
<1> QED BY <1>2, <1>4, <1>5, MqInvParts DEF MessageHasOneOwner, r, MqOwned

-----------------------------------------------------------------------------
(* The queue in a run of the services *)

LEMMA QueueMoves == [ServicesNext]_serviceVars => [MqNext]_mqVars
BY DEF ServicesNext, serviceVars, QueueStep, IpcStep, ClientsStep, SentencesStep

LEMMA QueueKept ==
  ASSUME MqTroubles = {}
  PROVE  ServicesSpec => []MqInv
<1>1. ServicesInit => MqInv
  BY MqBegins DEF ServicesInit
<1>2. MqInv /\ [ServicesNext]_serviceVars => MqInv'
  BY QueueMoves, MqStays
<1> QED BY <1>1, <1>2, PTL DEF ServicesSpec

(* A queue, its thread and its timers handle the messages the queue takes  *)
(* once each and in the order it took them, until the task ends and drops  *)
(* the rest, whoever sends, waits or interrupts meanwhile.  No timer calls *)
(* back while the task is destroyed: that would delete a message twice     *)
(* (msg_q.c:191-273, linked_list.c:115-207, MsgTask.cpp:76-156).           *)
THEOREM QueueImplementsFifo == MqTroubles = {} => (ServicesSpec => ImplementsFifo)
<1> SUFFICES ASSUME MqTroubles = {} PROVE ServicesSpec => ImplementsFifo
  OBVIOUS
<1>1. ServicesInit => Fifo!Init
  BY MqBegins DEF ServicesInit
<1>2. MqInv /\ [ServicesNext]_serviceVars => [Fifo!Next]_<<MqInbox, mqHandled, mqFreed>>
  BY QueueMoves, MqStays DEF FifoStep
<1>3. ServicesSpec => []MqInv
  BY QueueKept
<1> QED BY <1>1, <1>2, <1>3, PTL DEF ImplementsFifo, Fifo!Spec, ServicesSpec

-----------------------------------------------------------------------------
(* What the messages of a queue come to: each one of B is followed by one  *)
(* of G or is one itself, and G has one at most                            *)

Followed(q, B, G) ==
  \A i \in DOMAIN q : q[i] \in B => \E j \in DOMAIN q : i <= j /\ q[j] \in G
Once(q, G) == \A i, j \in DOMAIN q : q[i] \in G /\ q[j] \in G => i = j

LEMMA QueueTail ==
  ASSUME NEW S, NEW q \in Seq(S), q # <<>>
  PROVE  /\ Tail(q) \in Seq(S)
         /\ \A i \in DOMAIN Tail(q) : i + 1 \in DOMAIN q /\ Tail(q)[i] = q[i + 1] /\ i \in Nat /\ i > 0
         /\ \A i \in DOMAIN q : i = 1 \/ (i - 1 \in DOMAIN Tail(q) /\ (i - 1) + 1 = i)
         /\ 1 \in DOMAIN q /\ Head(q) = q[1] /\ DOMAIN q \subseteq Nat
<1>2. PICK n \in Nat : n = Len(q) /\ n # 0
  OBVIOUS
<1> QED BY <1>2, HeadTailProperties

LEMMA QueueTails ==
  ASSUME NEW S, NEW q \in Seq(S), q # <<>>, NEW B, NEW G
  PROVE  /\ Silent(q, B) => Silent(Tail(q), B)
         /\ Head(q) \notin B /\ Silent(Tail(q), B) => Silent(q, B)
         /\ Once(q, G) => Once(Tail(q), G)
         /\ Once(q, G) /\ Head(q) \in G => Silent(Tail(q), G)
         /\ Followed(q, B, G) => Followed(Tail(q), B, G)
         /\ Followed(q, B, G) /\ Head(q) \in B /\ Head(q) \notin G => ~Silent(Tail(q), G)
<1> DEFINE t == Tail(q)
<1>1. /\ \A i \in DOMAIN t : i + 1 \in DOMAIN q /\ t[i] = q[i + 1] /\ i \in Nat /\ i > 0
      /\ \A i \in DOMAIN q : i = 1 \/ (i - 1 \in DOMAIN t /\ (i - 1) + 1 = i)
      /\ 1 \in DOMAIN q /\ Head(q) = q[1] /\ DOMAIN q \subseteq Nat
  BY QueueTail
<1> HIDE DEF t
<1>3. ASSUME Head(q) \notin B, Silent(t, B) PROVE Silent(q, B)
  <2> SUFFICES ASSUME NEW i \in DOMAIN q PROVE q[i] \notin B
    BY DEF Silent
  <2>1. CASE i = 1
    BY <1>1, <1>3, <2>1
  <2>2. CASE i - 1 \in DOMAIN t /\ (i - 1) + 1 = i
    BY <1>1, <1>3, <2>2 DEF Silent
  <2> QED BY <1>1, <2>1, <2>2
<1>4. ASSUME Once(q, G), NEW i \in DOMAIN t, NEW j \in DOMAIN t, t[i] \in G, t[j] \in G
      PROVE  i = j
  BY <1>1, <1>4 DEF Once
<1>5. ASSUME Once(q, G), Head(q) \in G, NEW i \in DOMAIN t PROVE t[i] \notin G
  BY <1>1, <1>5 DEF Once
<1>6. ASSUME Followed(q, B, G), NEW i \in DOMAIN t, t[i] \in B
      PROVE  \E j \in DOMAIN t : i <= j /\ t[j] \in G
  <2>1. PICK k \in DOMAIN q : i + 1 <= k /\ q[k] \in G
    BY <1>1, <1>6 DEF Followed
  <2>3. PICK j \in DOMAIN t : j + 1 = k
    BY <1>1, <2>1
  <2> QED BY <1>1, <2>1, <2>3
<1>7. ASSUME Followed(q, B, G), Head(q) \in B, Head(q) \notin G PROVE ~Silent(t, G)
  <2>1. PICK k \in DOMAIN q : q[k] \in G
    BY <1>1, <1>7 DEF Followed
  <2>3. PICK j \in DOMAIN t : j + 1 = k
    BY <1>1, <1>7, <2>1
  <2> QED BY <1>1, <2>1, <2>3 DEF Silent
<1>8. /\ Silent(q, B) => Silent(t, B)
      /\ Head(q) \notin B /\ Silent(t, B) => Silent(q, B)
      /\ Once(q, G) => Once(t, G)
      /\ Once(q, G) /\ Head(q) \in G => Silent(t, G)
      /\ Followed(q, B, G) => Followed(t, B, G)
      /\ Followed(q, B, G) /\ Head(q) \in B /\ Head(q) \notin G => ~Silent(t, G)
  BY <1>1, <1>3, <1>4, <1>5, <1>6, <1>7, Zenon DEF Silent, Once, Followed
<1> QED BY <1>8 DEF t

Joined(q, r, c, m) ==
  /\ \A i \in DOMAIN q : i \in DOMAIN c /\ c[i] = q[i] /\ i <= m /\ i \in Nat
  /\ \A i \in DOMAIN r : m + i \in DOMAIN c /\ c[m + i] = r[i] /\ i \in Nat /\ i > 0
  /\ \A i \in DOMAIN c : i \in DOMAIN q \/ \E k \in DOMAIN r : i = m + k

LEMMA QueueJoin ==
  ASSUME NEW S, NEW q \in Seq(S), NEW r \in Seq(S)
  PROVE  q \o r \in Seq(S) /\ Len(q) \in Nat /\ Joined(q, r, q \o r, Len(q))
<1>1. /\ q \o r \in Seq(S) /\ Len(q \o r) = Len(q) + Len(r)
      /\ \A i \in 1..(Len(q) + Len(r)) : (q \o r)[i] = IF i <= Len(q) THEN q[i] ELSE r[i - Len(q)]
  BY ConcatProperties
<1>2. PICK m \in Nat : m = Len(q)
  OBVIOUS
<1>3. PICK n \in Nat : n = Len(r)
  OBVIOUS
<1> DEFINE c == q \o r
<1>4. DOMAIN q = 1..m /\ DOMAIN r = 1..n /\ DOMAIN c = 1..(m + n)
  BY <1>1, <1>2, <1>3
<1>5. \A i \in 1..(m + n) : c[i] = IF i <= m THEN q[i] ELSE r[i - m]
  BY <1>1, <1>2, <1>3
<1> HIDE DEF c
<1>7. \A i \in 1..m : i \in 1..(m + n) /\ c[i] = q[i] /\ i <= m /\ i \in Nat
  BY <1>5
<1>8. ASSUME NEW i \in 1..n PROVE m + i \in 1..(m + n) /\ c[m + i] = r[i] /\ i \in Nat /\ i > 0
  BY <1>5
<1>9. ASSUME NEW i \in 1..(m + n) PROVE i \in 1..m \/ \E k \in 1..n : i = m + k
  <2>1. CASE ~(i <= m)
    BY <2>1
  <2> QED BY <2>1
<1> QED BY <1>1, <1>2, <1>4, <1>7, <1>8, <1>9 DEF c, Joined

LEMMA QueueJoins ==
  ASSUME NEW S, NEW q \in Seq(S), NEW r \in Seq(S), NEW B, NEW G
  PROVE  /\ q \o r \in Seq(S)
         /\ Silent(q \o r, B) <=> Silent(q, B) /\ Silent(r, B)
         /\ Once(q, G) /\ Silent(r, G) => Once(q \o r, G)
         /\ Silent(q, G) /\ Once(r, G) => Once(q \o r, G)
         /\ Followed(q, B, G) /\ Followed(r, B, G) => Followed(q \o r, B, G)
         /\ Followed(r, B, G) /\ ~Silent(r, G) => Followed(q \o r, B, G)
<1> DEFINE c == q \o r
<1>1. PICK m \in Nat : m = Len(q)
  OBVIOUS
<1>0. c \in Seq(S) /\ Joined(q, r, c, m)
  BY <1>1, QueueJoin
<1>2. /\ c \in Seq(S)
      /\ \A i \in DOMAIN q : i \in DOMAIN c /\ c[i] = q[i] /\ i <= m /\ i \in Nat
      /\ \A i \in DOMAIN r : m + i \in DOMAIN c /\ c[m + i] = r[i] /\ i \in Nat /\ i > 0
      /\ \A i \in DOMAIN c : i \in DOMAIN q \/ \E k \in DOMAIN r : i = m + k
  BY <1>0, Zenon DEF Joined
<1> HIDE DEF c
<1>4. ASSUME Once(q, G), Silent(r, G) PROVE Once(c, G)
  BY <1>2, <1>4, Zenon DEF Silent, Once
<1>5. ASSUME Silent(q, G), Once(r, G) PROVE Once(c, G)
  <2> SUFFICES ASSUME NEW i \in DOMAIN c, NEW j \in DOMAIN c, c[i] \in G, c[j] \in G PROVE i = j
    BY Zenon DEF Once
  <2>1. PICK k \in DOMAIN r : i = m + k
    BY <1>2, <1>5 DEF Silent
  <2>2. PICK l \in DOMAIN r : j = m + l
    BY <1>2, <1>5 DEF Silent
  <2> QED BY <1>2, <1>5, <2>1, <2>2 DEF Once
<1>6. ASSUME Followed(r, B, G), NEW k \in DOMAIN r, r[k] \in B
      PROVE  \E j \in DOMAIN c : m + k <= j /\ c[j] \in G
  <2>1. PICK l \in DOMAIN r : k <= l /\ r[l] \in G
    BY <1>6 DEF Followed
  <2> QED BY <1>2, <2>1
<1>7. ASSUME Followed(q, B, G), Followed(r, B, G) PROVE Followed(c, B, G)
  <2> SUFFICES ASSUME NEW i \in DOMAIN c, c[i] \in B PROVE \E j \in DOMAIN c : i <= j /\ c[j] \in G
    BY Zenon DEF Followed
  <2>1. CASE i \in DOMAIN q
    BY <1>2, <1>7, <2>1 DEF Followed
  <2>2. CASE \E k \in DOMAIN r : i = m + k
    BY <1>2, <1>6, <1>7, <2>2
  <2> QED BY <1>2, <2>1, <2>2
<1>8. ASSUME Followed(r, B, G), ~Silent(r, G) PROVE Followed(c, B, G)
  <2> SUFFICES ASSUME NEW i \in DOMAIN c, c[i] \in B PROVE \E j \in DOMAIN c : i <= j /\ c[j] \in G
    BY Zenon DEF Followed
  <2>1. CASE i \in DOMAIN q
    BY <1>2, <1>8, <2>1 DEF Silent
  <2>2. CASE \E k \in DOMAIN r : i = m + k
    BY <1>2, <1>6, <1>8, <2>2
  <2> QED BY <1>2, <2>1, <2>2
<1>9. /\ c \in Seq(S)
      /\ Silent(c, B) <=> Silent(q, B) /\ Silent(r, B)
      /\ Once(q, G) /\ Silent(r, G) => Once(c, G)
      /\ Silent(q, G) /\ Once(r, G) => Once(c, G)
      /\ Followed(q, B, G) /\ Followed(r, B, G) => Followed(c, B, G)
      /\ Followed(r, B, G) /\ ~Silent(r, G) => Followed(c, B, G)
  BY <1>2, <1>4, <1>5, <1>7, <1>8, Zenon DEF Silent
<1> QED BY <1>9 DEF c

LEMMA QueueSilent ==
  ASSUME NEW q, NEW B, NEW G, Silent(q, B), G \subseteq B
  PROVE  Silent(q, G) /\ Once(q, G) /\ Followed(q, B, G)
  BY Zenon DEF Silent, Once, Followed

LEMMA QueueUnfollowed ==
  ASSUME NEW q, NEW B, NEW G, Silent(q, G), Followed(q, B, G)
  PROVE  Silent(q, B)
  BY Zenon DEF Silent, Followed

-----------------------------------------------------------------------------
(* The clients of LocationAPI: their messages                              *)

LcDoes == {"add", "remove", "caps", "up", "unlock"}

LEMMA LcMessageIs ==
  ASSUME NEW m \in LcMessage
  PROVE  /\ m.do \in LcDoes /\ m.adapter \in LcAdapter
         /\ m.do = "add" => m.object \in LcObject /\ m.kinds \in SUBSET LcAdapter
         /\ m.do = "remove" => m.object \in LcObject /\ m.tell \in BOOLEAN
         /\ m.do = "caps" => m.object \in LcObject
  BY DEF LcMessage, LcDoes

LEMMA LcMessageMade ==
  ASSUME NEW a \in LcAdapter, NEW o \in LcObject, NEW kinds \in SUBSET LcAdapter,
         NEW tell \in BOOLEAN
  PROVE  /\ [do |-> "add", adapter |-> a, object |-> o, kinds |-> kinds] \in LcMessage
         /\ [do |-> "remove", adapter |-> a, object |-> o, tell |-> tell] \in LcMessage
         /\ [do |-> "caps", adapter |-> a, object |-> o] \in LcMessage
         /\ [do |-> "up", adapter |-> a] \in LcMessage
         /\ [do |-> "unlock", adapter |-> a] \in LcMessage
  BY DEF LcMessage

(* The messages that make an object a client of an adapter or no longer    *)
(* one, and those of a destroy                                             *)
LcAbout(o, a) ==
  {m \in LcMessage : m.do \in {"add", "remove"} /\ m.object = o /\ m.adapter = a}
LcTells(o, a) == {m \in LcMessage : m.do = "remove" /\ m.object = o /\ m.adapter = a /\ m.tell}

LEMMA LcTellsAbout ==
  ASSUME NEW o, NEW a
  PROVE  LcTells(o, a) \subseteq LcAbout(o, a)
  BY DEF LcTells, LcAbout

LEMMA JoinDistinct ==
  ASSUME NEW S, NEW q \in Seq(S), NEW r \in Seq(S), Distinct(q), Distinct(r),
         ToSet(q) \cap ToSet(r) = {}
  PROVE  q \o r \in Seq(S) /\ Distinct(q \o r) /\ ToSet(q \o r) = ToSet(q) \cup ToSet(r)
<1> DEFINE c == q \o r
<1>1. PICK m \in Nat : m = Len(q)
  OBVIOUS
<1>0. c \in Seq(S) /\ Joined(q, r, c, m)
  BY <1>1, QueueJoin
<1>2. /\ c \in Seq(S)
      /\ \A i \in DOMAIN q : i \in DOMAIN c /\ c[i] = q[i] /\ i <= m /\ i \in Nat
      /\ \A i \in DOMAIN r : m + i \in DOMAIN c /\ c[m + i] = r[i] /\ i \in Nat /\ i > 0
      /\ \A i \in DOMAIN c : i \in DOMAIN q \/ \E k \in DOMAIN r : i = m + k
  BY <1>0, Zenon DEF Joined
<1>4. \A i \in DOMAIN q : q[i] \in ToSet(q)
  BY ElementsOf
<1>5. \A i \in DOMAIN r : r[i] \in ToSet(r)
  BY ElementsOf
<1> HIDE DEF c
<1>6. ASSUME NEW i \in DOMAIN c, NEW j \in DOMAIN c, c[i] = c[j] PROVE i = j
  <2>1. CASE i \in DOMAIN q /\ j \in DOMAIN q
    BY <1>2, <1>6, <2>1 DEF Distinct
  <2>2. ASSUME NEW k \in DOMAIN r, NEW l \in DOMAIN r, i = m + k, j = m + l PROVE i = j
    BY <1>2, <1>6, <2>2 DEF Distinct
  <2>3. ASSUME i \in DOMAIN q, NEW l \in DOMAIN r, j = m + l PROVE FALSE
    BY <1>2, <1>4, <1>5, <1>6, <2>3
  <2>4. ASSUME j \in DOMAIN q, NEW k \in DOMAIN r, i = m + k PROVE FALSE
    BY <1>2, <1>4, <1>5, <1>6, <2>4
  <2> QED BY <1>2, <2>1, <2>2, <2>3, <2>4
<1> QED BY <1>2, <1>6, ElementsOfBoth DEF c, Distinct

(* The adapters of a set, once each *)
LcOrders(adapters) ==
  /\ LcOrder(adapters) \in Seq(adapters)
  /\ Distinct(LcOrder(adapters))
  /\ ToSet(LcOrder(adapters)) = adapters
  /\ Len(LcOrder(adapters)) \in Nat /\ DOMAIN LcOrder(adapters) = 1..Len(LcOrder(adapters))
  /\ \A i \in DOMAIN LcOrder(adapters) : LcOrder(adapters)[i] \in adapters
  /\ \A a \in adapters : \E i \in DOMAIN LcOrder(adapters) : LcOrder(adapters)[i] = a

LEMMA LcOrderIs ==
  ASSUME NEW adapters \in SUBSET LcAdapter
  PROVE  LcOrders(adapters)
<1> DEFINE only(a) == IF a \in adapters THEN <<a>> ELSE <<>>
           g == only("gnss")
           b == only("batching")
           f == only("geofence")
<1>1. ASSUME NEW a PROVE /\ only(a) \in Seq(adapters) /\ Distinct(only(a))
                         /\ ToSet(only(a)) = adapters \cap {a}
  <2>1. CASE a \in adapters
    <3>1. only(a) = <<a>>
      BY <2>1
    <3> HIDE DEF only
    <3> QED BY <2>1, <3>1 DEF Distinct, ToSet
  <2>2. CASE a \notin adapters
    <3>1. only(a) = <<>>
      BY <2>2
    <3> HIDE DEF only
    <3> QED BY <2>2, <3>1 DEF Distinct, ToSet
  <2> QED BY <2>1, <2>2
<1>2. LcOrder(adapters) = (g \o b) \o f
  BY DEF LcOrder
<1>3. /\ g \in Seq(adapters) /\ Distinct(g) /\ ToSet(g) = adapters \cap {"gnss"}
      /\ b \in Seq(adapters) /\ Distinct(b) /\ ToSet(b) = adapters \cap {"batching"}
      /\ f \in Seq(adapters) /\ Distinct(f) /\ ToSet(f) = adapters \cap {"geofence"}
  BY <1>1
<1> HIDE DEF g, b, f
<1>5. /\ (g \o b) \o f \in Seq(adapters) /\ Distinct((g \o b) \o f)
      /\ ToSet((g \o b) \o f) = adapters \cap {"gnss", "batching", "geofence"}
  <2> DEFINE h == g \o b
  <2>1. h \in Seq(adapters) /\ Distinct(h) /\ ToSet(h) = adapters \cap {"gnss", "batching"}
    BY <1>3, JoinDistinct
  <2> HIDE DEF h
  <2>2. ToSet(h) \cap ToSet(f) = {}
    BY <1>3, <2>1
  <2>3. /\ h \o f \in Seq(adapters) /\ Distinct(h \o f)
        /\ ToSet(h \o f) = ToSet(h) \cup ToSet(f)
    BY <1>3, <2>1, <2>2, JoinDistinct
  <2> QED BY <1>3, <2>1, <2>3 DEF h
<1>7. LcOrder(adapters) \in Seq(adapters)
  BY <1>2, <1>5
<1>8. /\ Len(LcOrder(adapters)) \in Nat /\ DOMAIN LcOrder(adapters) = 1..Len(LcOrder(adapters))
      /\ \A i \in DOMAIN LcOrder(adapters) : LcOrder(adapters)[i] \in adapters
  BY <1>7
<1> QED BY <1>2, <1>5, <1>7, <1>8, LcGnssAssumption DEF LcOrders, ToSet

(* What the messages, the life of an object and the clients of an adapter  *)
(* that was loaded or not have to do with each other: nobody mentions who  *)
(* is free, a destroy is the last word, and there is one of it             *)
LcAt(q, o, a, life, clients, loaded) ==
  /\ life = "free" => Silent(q, LcAbout(o, a)) /\ o \notin clients
  /\ life = "live" => Silent(q, LcTells(o, a))
  /\ a \notin loaded => Silent(q, LcAbout(o, a)) /\ o \notin clients
  /\ life = "destroyed" => Followed(q, LcAbout(o, a), LcTells(o, a))
                           /\ (o \in clients => ~Silent(q, LcTells(o, a)))
  /\ Once(q, LcTells(o, a))

(* Messages about others come                                              *)
LEMMA AtQuiet ==
  ASSUME NEW q \in Seq(LcMessage), NEW r \in Seq(LcMessage), NEW o, NEW a, NEW life,
         NEW clients, NEW loaded, NEW then,
         LcAt(q, o, a, life, clients, loaded), Silent(r, LcAbout(o, a)), loaded \subseteq then
  PROVE  /\ LcAt(q \o r, o, a, life, clients, then)
         /\ Silent(q \o r, LcTells(o, a)) <=> Silent(q, LcTells(o, a))
<1> DEFINE B == LcAbout(o, a)
           G == LcTells(o, a)
           c == q \o r
<1> HIDE DEF B, G, c
<1> QED BY QueueJoins, QueueSilent, LcTellsAbout, Zenon DEF LcAt, B, G, c

(* Messages about a live object come                                       *)
LEMMA AtAsked ==
  ASSUME NEW q \in Seq(LcMessage), NEW r \in Seq(LcMessage), NEW o, NEW a, NEW life,
         NEW clients, NEW loaded, NEW then,
         LcAt(q, o, a, life, clients, loaded), life \in {"free", "live"},
         Silent(r, LcTells(o, a)), a \in then \/ Silent(r, LcAbout(o, a)), loaded \subseteq then
  PROVE  /\ LcAt(q \o r, o, a, "live", clients, then)
         /\ Silent(q \o r, LcTells(o, a))
<1> DEFINE B == LcAbout(o, a)
           G == LcTells(o, a)
           c == q \o r
<1> HIDE DEF B, G, c
<1> QED BY QueueJoins, QueueSilent, LcTellsAbout, Zenon DEF LcAt, B, G, c

(* An object is destroyed: every adapter that is loaded hears of it        *)
LEMMA AtDestroyed ==
  ASSUME NEW q \in Seq(LcMessage), NEW r \in Seq(LcMessage), NEW o, NEW a,
         NEW clients, NEW loaded, LcAt(q, o, a, "live", clients, loaded),
         a \in loaded => /\ Once(r, LcTells(o, a)) /\ ~Silent(r, LcTells(o, a))
                   /\ Followed(r, LcAbout(o, a), LcTells(o, a)),
         a \notin loaded => Silent(r, LcAbout(o, a))
  PROVE  /\ LcAt(q \o r, o, a, "destroyed", clients, loaded)
         /\ ~Silent(q \o r, LcTells(o, a)) <=> a \in loaded
<1> DEFINE B == LcAbout(o, a)
           G == LcTells(o, a)
           c == q \o r
<1> HIDE DEF B, G, c
<1> QED BY QueueJoins, QueueSilent, LcTellsAbout, Zenon DEF LcAt, B, G, c

(* The first message is taken, and is of another object or adapter; makes  *)
(* the object a client, or no longer one; or is that of a destroy          *)
LEMMA AtTaken ==
  ASSUME NEW q \in Seq(LcMessage), q # <<>>, NEW o, NEW a, NEW life,
         NEW clients, NEW loaded, LcAt(q, o, a, life, clients, loaded)
  PROVE  /\ Head(q) \notin LcAbout(o, a) =>
              /\ LcAt(Tail(q), o, a, life, clients, loaded)
              /\ Silent(Tail(q), LcTells(o, a)) <=> Silent(q, LcTells(o, a))
         /\ Head(q) \in LcAbout(o, a) /\ Head(q) \notin LcTells(o, a) =>
              /\ LcAt(Tail(q), o, a, life, clients \cup {o}, loaded)
              /\ LcAt(Tail(q), o, a, life, clients \ {o}, loaded)
              /\ Silent(Tail(q), LcTells(o, a)) <=> Silent(q, LcTells(o, a))
         /\ Head(q) \in LcTells(o, a) =>
              /\ life # "free" /\ life # "live" /\ Silent(Tail(q), LcTells(o, a))
              /\ LcAt(Tail(q), o, a, life, clients \ {o}, loaded)
<1> DEFINE B == LcAbout(o, a)
           G == LcTells(o, a)
           t == Tail(q)
           h == Head(q)
<1>1. G \subseteq B
  BY LcTellsAbout
<1>2. /\ Silent(q, B) => Silent(t, B)
      /\ Once(q, G) => Once(t, G)
      /\ Once(q, G) /\ h \in G => Silent(t, G)
      /\ Followed(q, B, G) => Followed(t, B, G)
      /\ Followed(q, B, G) /\ h \in B /\ h \notin G => ~Silent(t, G)
  BY QueueTails
<1>3. (Silent(q, G) => Silent(t, G)) /\ (h \notin G /\ Silent(t, G) => Silent(q, G))
  BY QueueTails
<1>4. /\ Silent(t, G) /\ Followed(t, B, G) => Silent(t, B)
      /\ h \in B => ~Silent(q, B)
      /\ h \in G => ~Silent(q, G)
  <2>1. 1 \in DOMAIN q /\ h = q[1]
    BY QueueTail
  <2> HIDE DEF B, G, t, h
  <2>2. (h \in B => ~Silent(q, B)) /\ (h \in G => ~Silent(q, G))
    BY <2>1, Zenon DEF Silent
  <2> QED BY <2>2, QueueUnfollowed
<1> HIDE DEF B, G, t, h
<1>5. /\ life = "free" => Silent(q, B) /\ o \notin clients
      /\ life = "live" => Silent(q, G)
      /\ a \notin loaded => Silent(q, B) /\ o \notin clients
      /\ life = "destroyed" => Followed(q, B, G) /\ (o \in clients => ~Silent(q, G))
      /\ Once(q, G)
  BY Zenon DEF LcAt, B, G
<1>6. ASSUME h \notin B
      PROVE  LcAt(t, o, a, life, clients, loaded) /\ (Silent(t, G) <=> Silent(q, G))
  BY <1>1, <1>2, <1>3, <1>5, <1>6, Zenon DEF LcAt, B, G
<1>7. ASSUME h \in B, h \notin G
      PROVE  /\ LcAt(t, o, a, life, clients \cup {o}, loaded) /\ LcAt(t, o, a, life, clients \ {o}, loaded)
             /\ Silent(t, G) <=> Silent(q, G)
  BY <1>2, <1>3, <1>4, <1>5, <1>7, Zenon DEF LcAt, B, G
<1>8. ASSUME h \in G
      PROVE  /\ life # "free" /\ life # "live" /\ Silent(t, G)
             /\ LcAt(t, o, a, life, clients \ {o}, loaded)
  BY <1>1, <1>2, <1>4, <1>5, <1>8, Zenon DEF LcAt, B, G
<1> QED BY <1>6, <1>7, <1>8, Zenon DEF B, G, t, h

(* Who is not to be removed any more may be free                           *)
LEMMA AtFreed ==
  ASSUME NEW q, NEW o, NEW a, NEW clients, NEW loaded,
         LcAt(q, o, a, "destroyed", clients, loaded), Silent(q, LcTells(o, a))
  PROVE  LcAt(q, o, a, "free", clients, loaded)
  BY QueueUnfollowed, Zenon DEF LcAt

LEMMA AtUnloaded ==
  ASSUME NEW q, NEW o, NEW a, NEW life, NEW clients,
         NEW loaded, LcAt(q, o, a, life, clients, loaded), a \notin loaded
  PROVE  LcAt(q, o, a, "free", clients, loaded)
  BY Zenon DEF LcAt

(* One message for each adapter of a set                                   *)
LcSays(s, adapters, T, f) ==
  /\ s \in Seq(T) /\ (s = <<>> <=> adapters = {})
  /\ \A i \in DOMAIN s : s[i] \in {f[a] : a \in adapters}
  /\ \A a \in adapters : \E i \in DOMAIN s : s[i] = f[a]
  /\ \A i, j \in DOMAIN s : (\A a, b \in adapters : f[a] = s[i] /\ f[b] = s[j] => a = b) => i = j

LEMMA EachSays ==
  ASSUME NEW adapters \in SUBSET LcAdapter, NEW T, NEW f \in [adapters -> T], NEW s,
         s = [i \in DOMAIN LcOrder(adapters) |-> f[LcOrder(adapters)[i]]]
  PROVE  LcSays(s, adapters, T, f)
<1> DEFINE ord == LcOrder(adapters)
<1>1. /\ Distinct(ord) /\ Len(ord) \in Nat /\ DOMAIN ord = 1..Len(ord)
      /\ \A i \in DOMAIN ord : ord[i] \in adapters
      /\ \A a \in adapters : \E i \in DOMAIN ord : ord[i] = a
  BY LcOrderIs DEF LcOrders
<1>2. s = [i \in DOMAIN ord |-> f[ord[i]]]
  OBVIOUS
<1> HIDE DEF ord
<1>3. PICK n \in Nat : n = Len(ord) /\ DOMAIN ord = 1..n
  BY <1>1
<1>4. s = [i \in 1..n |-> f[ord[i]]] /\ DOMAIN s = 1..n
  BY <1>2, <1>3
<1>5. \A i \in 1..n : ord[i] \in adapters /\ s[i] = f[ord[i]] /\ f[ord[i]] \in T
  BY <1>1, <1>3, <1>4
<1>6. s \in Seq(T) /\ Len(s) = n
  BY <1>4, <1>5
<1>7. s = <<>> <=> adapters = {}
  <2>2. ASSUME n = 0, NEW a \in adapters PROVE FALSE
    BY <1>1, <1>3, <2>2
  <2>3. ASSUME adapters = {}, n # 0 PROVE FALSE
    BY <1>5, <2>3
  <2> QED BY <1>6, <2>2, <2>3
<1>9. \A a \in adapters : \E i \in DOMAIN s : s[i] = f[a]
  BY <1>1, <1>3, <1>4, <1>5
<1>10. ASSUME NEW i \in 1..n, NEW j \in 1..n,
              \A a, b \in adapters : f[a] = s[i] /\ f[b] = s[j] => a = b
       PROVE  i = j
  <2>1. ord[i] = ord[j]
    BY <1>5, <1>10
  <2> QED BY <1>1, <1>3, <2>1 DEF Distinct
<1> QED BY <1>4, <1>5, <1>6, <1>7, <1>9, <1>10 DEF LcSays

(* What such messages are about                                            *)
LEMMA SaysNothing ==
  ASSUME NEW s, NEW adapters, NEW T, NEW f, LcSays(s, adapters, T, f), NEW B,
         \A a \in adapters : f[a] \notin B
  PROVE  Silent(s, B)
  BY DEF LcSays, Silent

LEMMA SaysOnce ==
  ASSUME NEW s, NEW adapters, NEW T, NEW f, LcSays(s, adapters, T, f), NEW B, NEW G,
         NEW a \in adapters, f[a] \in G, \A b \in adapters : f[b] \in B => b = a, G \subseteq B
  PROVE  Once(s, G) /\ ~Silent(s, G) /\ Followed(s, B, G)
<1>1. \A i \in DOMAIN s : s[i] \in {f[b] : b \in adapters}
  BY Zenon DEF LcSays
<1>2. \A i, j \in DOMAIN s : (\A b, c \in adapters : f[b] = s[i] /\ f[c] = s[j] => b = c) => i = j
  BY Zenon DEF LcSays
<1>3. PICK k \in DOMAIN s : s[k] = f[a]
  BY Zenon DEF LcSays
<1>4. ASSUME NEW i \in DOMAIN s, s[i] \in B PROVE i = k
  BY <1>1, <1>2, <1>3, <1>4
<1>6. s \in Seq(T)
  BY Zenon DEF LcSays
<1>7. k <= k /\ s[k] \in G
  BY <1>3, <1>6
<1>8. ~Silent(s, G) /\ Once(s, G)
  BY <1>4, <1>7, Zenon DEF Silent, Once
<1>9. ASSUME NEW i \in DOMAIN s, s[i] \in B PROVE \E j \in DOMAIN s : i <= j /\ s[j] \in G
  BY <1>4, <1>7, <1>9
<1> QED BY <1>8, <1>9 DEF Followed

(* The messages the clients and the modem send                             *)
LcAdd(o, kinds, a) == [do |-> "add", adapter |-> a, object |-> o, kinds |-> kinds]
LcRemove(o, tell, a) == [do |-> "remove", adapter |-> a, object |-> o, tell |-> tell]

LcSaid(o, a, p, b, kinds, tell) ==
  /\ LcAdd(p, kinds, b) \in LcAbout(o, a) <=> p = o /\ b = a
  /\ LcRemove(p, tell, b) \in LcAbout(o, a) <=> p = o /\ b = a
  /\ LcAdd(p, kinds, b) \notin LcTells(o, a)
  /\ LcRemove(p, tell, b) \in LcTells(o, a) <=> p = o /\ b = a /\ (tell = TRUE)
  /\ [do |-> "caps", adapter |-> b, object |-> p] \notin LcAbout(o, a)
  /\ [do |-> "up", adapter |-> b] \notin LcAbout(o, a)
  /\ [do |-> "unlock", adapter |-> b] \notin LcAbout(o, a)

LEMMA LcSentAbout ==
  ASSUME NEW o \in LcObject, NEW a \in LcAdapter, NEW p \in LcObject, NEW b \in LcAdapter,
         NEW kinds \in SUBSET LcAdapter, NEW tell \in BOOLEAN
  PROVE  LcSaid(o, a, p, b, kinds, tell)
  BY LcMessageMade, Zenon DEF LcAdd, LcRemove, LcAbout, LcTells, LcSaid

-----------------------------------------------------------------------------
(* What stays true of the clients                                          *)

LcTypedClients ==
  /\ lcLife \in [LcObject -> {"free", "live", "destroyed"}]
  /\ \A o \in DOMAIN lcWait :
       o \in LcObject /\ lcLife[o] = "destroyed" /\ lcWait[o] \in SUBSET LcAdapter
  /\ \A o \in DOMAIN lcData :
       o \in LcObject /\ lcLife[o] = "live" /\ lcData[o] \in SUBSET LcAdapter
  /\ lcLib \in [LcAdapter -> {"no", "loaded", "failed"}]
  /\ lcTold \in SUBSET LcObject /\ lcHeard \in SUBSET LcObject
  /\ lcEvents \in [calls: 0..MaxLcCalls, modem: 0..MaxLcModem, fails: 0..MaxLcFails]

LcTypedAdapters ==
  /\ lcClient = [a \in LcAdapter |-> lcClient[a]]
  /\ lcPending \in [LcAdapter -> Seq(LcObject)]
  /\ \A a \in LcAdapter : \A o \in DOMAIN lcClient[a] :
       o \in LcObject /\ lcClient[a][o] \in SUBSET LcAdapter
  /\ lcMask \in SUBSET LcAdapter /\ lcKnown \in SUBSET LcAdapter

LcTypedMessages ==
  /\ lcQueue \in Seq(LcMessage) /\ lcApi \in Seq(LcApiMessage)
  /\ lcModem \in [asked: SUBSET LcAdapter, unlocked: BOOLEAN, failed: BOOLEAN,
                 missed: SUBSET LcAdapter]

LcIsAt(o, a) == LcAt(lcQueue, o, a, lcLife[o], DOMAIN lcClient[a], LcLoaded(lcLib))

LcWaits ==
  \A o \in DOMAIN lcWait : \A a \in LcAdapter :
    a \in lcWait[o] <=> ~Silent(lcQueue, LcTells(o, a))

LcSound == (\A o \in LcObject, a \in LcAdapter : LcIsAt(o, a)) /\ LcWaits

LcAsking == {a \in LcAdapter : \E o \in DOMAIN lcClient[a] : a \in lcClient[a][o]}

LcAsks ==
  /\ lcMask = LcAsking
  /\ lcApi = <<>> /\ ~lcModem.failed => lcModem.asked = lcMask

LcInv ==
  /\ LcTypedClients /\ LcTypedAdapters /\ LcTypedMessages
  /\ LcSound /\ LcAsks

LEMMA LcTypesHold == LcInv => LcTypeOK
<1> SUFFICES ASSUME LcInv PROVE LcTypeOK
  OBVIOUS
<1>1. LcTypedClients /\ LcTypedAdapters /\ LcTypedMessages
  BY DEF LcInv
<1>3. Range(lcData) \cup Range(lcWait) \subseteq SUBSET LcAdapter
  <2>1. /\ \A o \in DOMAIN lcData : lcData[o] \in SUBSET LcAdapter
        /\ \A o \in DOMAIN lcWait : lcWait[o] \in SUBSET LcAdapter
    BY <1>1 DEF LcTypedClients
  <2>2. Range(lcData) \subseteq SUBSET LcAdapter
    BY <2>1, Zenon DEF Range
  <2>3. Range(lcWait) \subseteq SUBSET LcAdapter
    BY <2>1, Zenon DEF Range
  <2> QED BY <2>2, <2>3
<1>4. \A a \in LcAdapter : /\ DOMAIN lcClient[a] \subseteq LcObject
                           /\ Range(lcClient[a]) \subseteq SUBSET LcAdapter
                           /\ lcPending[a] \in Seq(LcObject)
  <2> TAKE a \in LcAdapter
  <2>2. Range(lcClient[a]) \subseteq SUBSET LcAdapter
    BY <1>1, Zenon DEF LcTypedAdapters, Range
  <2> QED BY <1>1, <2>2 DEF LcTypedAdapters
<1> QED BY <1>1, <1>3, <1>4 DEF LcTypeOK, LcTypedClients, LcTypedAdapters, LcTypedMessages

LEMMA LcClientsAre == LcInv => ClientsAreWhoIsThere
<1> SUFFICES ASSUME LcInv PROVE ClientsAreWhoIsThere
  OBVIOUS
<1>1. EventsAreRegistered
  BY DEF LcInv, LcAsks, LcAsking, EventsAreRegistered
<1>2. lcQueue \in Seq(LcMessage) /\ LcTypedClients
  BY DEF LcInv, LcTypedMessages
<1>3. \A i \in DOMAIN lcQueue : lcQueue[i] \in LcMessage
  BY <1>2
<1>4. ASSUME NEW o \in LcObject, lcLife[o] = "free"
      PROVE  /\ \A a \in LcAdapter : o \notin DOMAIN lcClient[a]
             /\ \A m \in LcMessages("add") \cup LcMessages("remove") : m.object # o
  <2>1. \A a \in LcAdapter : Silent(lcQueue, LcAbout(o, a)) /\ o \notin DOMAIN lcClient[a]
    BY <1>4, Zenon DEF LcInv, LcSound, LcIsAt, LcAt
  <2>2. ASSUME NEW i \in DOMAIN lcQueue, lcQueue[i].do \in {"add", "remove"}
        PROVE  lcQueue[i].object # o
    BY <1>3, <2>1, <2>2, LcMessageIs, Zenon DEF Silent, LcAbout
  <2>3. \A m \in LcMessages("add") \cup LcMessages("remove") : m.object # o
    BY <2>2, Zenon DEF LcMessages
  <2> QED BY <2>1, <2>3
<1>5. ASSUME NEW o \in DOMAIN lcWait
      PROVE  lcWait[o] = {m.adapter : m \in {n \in LcMessages("remove") : n.tell /\ n.object = o}}
  <2>1. /\ lcWait[o] \in SUBSET LcAdapter
        /\ \A a \in LcAdapter : a \in lcWait[o] <=> ~Silent(lcQueue, LcTells(o, a))
    BY <1>2 DEF LcTypedClients, LcInv, LcSound, LcWaits
  <2> DEFINE last == {n \in LcMessages("remove") : n.tell /\ n.object = o}
  <2>2. ASSUME NEW a \in lcWait[o] PROVE \E m \in last : m.adapter = a
    BY <2>1, Zenon DEF Silent, LcTells, LcMessages
  <2>3. ASSUME NEW m \in last PROVE m.adapter \in lcWait[o]
    <3>1. PICK i \in DOMAIN lcQueue : m = lcQueue[i] /\ lcQueue[i].do = "remove"
      BY Zenon DEF LcMessages
    <3>2. m \in LcMessage /\ m.adapter \in LcAdapter
      BY <1>3, <3>1, LcMessageIs
    <3>4. ~Silent(lcQueue, LcTells(o, m.adapter))
      BY <3>1, <3>2, Zenon DEF Silent, LcTells
    <3> QED BY <2>1, <3>2, <3>4
  <2> HIDE DEF last
  <2> QED BY <2>2, <2>3 DEF last
<1> QED BY <1>1, <1>4, <1>5, Zenon DEF ClientsAreWhoIsThere, NobodyHasTheDeleted

LEMMA LcBegins == LcInit => LcInv
<1> SUFFICES ASSUME LcInit PROVE LcInv
  OBVIOUS
<1>1. /\ lcLife = [o \in LcObject |-> "free"] /\ lcData = <<>> /\ lcWait = <<>>
      /\ lcLib = [a \in LcAdapter |-> "no"] /\ lcQueue = <<>> /\ lcApi = <<>>
      /\ lcClient = [a \in LcAdapter |-> <<>>] /\ lcMask = {} /\ lcKnown = {}
      /\ lcPending = [a \in LcAdapter |-> <<>>]
      /\ lcModem = [asked |-> {}, unlocked |-> FALSE, failed |-> FALSE, missed |-> {}]
      /\ lcTold = {} /\ lcHeard = {} /\ lcEvents = [calls |-> 0, modem |-> 0, fails |-> 0]
  BY DEF LcInit
<1> DEFINE none == <<>>
<1>2. DOMAIN none = {} /\ none \in Seq(LcObject) /\ none \in Seq(LcMessage) /\ none \in Seq(LcApiMessage)
  OBVIOUS
<1> HIDE DEF none
<1>3. /\ lcData = none /\ lcWait = none /\ lcQueue = none /\ lcApi = none
      /\ lcClient = [a \in LcAdapter |-> none] /\ lcPending = [a \in LcAdapter |-> none]
  BY <1>1 DEF none
<1>4. LcTypedClients
  BY <1>1, <1>2, <1>3, LcBoundsAssumption DEF LcTypedClients
<1>5. LcTypedAdapters
  BY <1>1, <1>2, <1>3 DEF LcTypedAdapters
<1>6. LcTypedMessages
  BY <1>1, <1>2, <1>3 DEF LcTypedMessages
<1>7. LcAsks
  BY <1>1, <1>2, <1>3 DEF LcAsking, LcAsks
<1>8. LcWaits
  BY <1>2, <1>3 DEF LcWaits
<1>9. ASSUME NEW o \in LcObject, NEW a \in LcAdapter PROVE LcIsAt(o, a)
  BY <1>1, <1>2, <1>3, Zenon DEF Silent, Once, LcIsAt, LcAt
<1> QED BY <1>4, <1>5, <1>6, <1>7, <1>8, <1>9 DEF LcInv, LcSound

(* Messages come that are about no client, and those that go are not       *)
LcSame == lcLife' = lcLife /\ lcClient' = lcClient /\ lcLib' = lcLib /\ lcWait' = lcWait

LEMMA LcAtMoves ==
  ASSUME NEW o \in LcObject, NEW a \in LcAdapter, LcIsAt(o, a), LcSame,
         LcAt(lcQueue', o, a, lcLife[o], DOMAIN lcClient[a], LcLoaded(lcLib))
  PROVE  LcIsAt(o, a)'
  BY DEF LcSame, LcIsAt

LEMMA LcUnheard ==
  ASSUME NEW q \in Seq(LcMessage), NEW r \in Seq(LcMessage), LcSame, LcSound, LcTypedClients,
         \A o \in LcObject, a \in LcAdapter :
           /\ LcAt(q, o, a, lcLife[o], DOMAIN lcClient[a], LcLoaded(lcLib))
           /\ Silent(q, LcTells(o, a)) <=> Silent(lcQueue, LcTells(o, a))
           /\ Silent(r, LcAbout(o, a)),
         lcQueue' = q \o r
  PROVE  LcSound' /\ lcQueue' \in Seq(LcMessage)
<1>1. lcQueue' \in Seq(LcMessage)
  OBVIOUS
<1>2. ASSUME NEW o \in LcObject, NEW a \in LcAdapter
      PROVE  LcIsAt(o, a)' /\ (Silent(lcQueue', LcTells(o, a)) <=> Silent(lcQueue, LcTells(o, a)))
  <2> DEFINE loaded == LcLoaded(lcLib)
             clients == DOMAIN lcClient[a]
             life == lcLife[o]
  <2> HIDE DEF loaded, clients, life
  <2> QED BY LcAtMoves, AtQuiet DEF loaded, clients, life, LcSound
<1> QED BY <1>1, <1>2, Zenon DEF LcSound, LcTypedClients, LcWaits, LcSame

LEMMA LcCome ==
  ASSUME LcInv, NEW r \in Seq(LcMessage), LcSame,
         \A o \in LcObject, a \in LcAdapter : Silent(r, LcAbout(o, a)),
         lcQueue' = lcQueue \o r
  PROVE  LcSound' /\ lcQueue' \in Seq(LcMessage)
  BY LcUnheard DEF LcInv, LcTypedMessages, LcSound, LcIsAt

LEMMA LcGo ==
  ASSUME LcInv, NEW r \in Seq(LcMessage), LcSame,
         lcQueue # <<>>, Head(lcQueue).do \notin {"add", "remove"},
         \A o \in LcObject, a \in LcAdapter : Silent(r, LcAbout(o, a)),
         lcQueue' = Tail(lcQueue) \o r
  PROVE  LcSound' /\ lcQueue' \in Seq(LcMessage)
<1>1. lcQueue \in Seq(LcMessage) /\ LcSound /\ LcTypedClients /\ Tail(lcQueue) \in Seq(LcMessage)
  BY DEF LcInv, LcTypedMessages
<1>2. ASSUME NEW o \in LcObject, NEW a \in LcAdapter
      PROVE  /\ LcAt(Tail(lcQueue), o, a, lcLife[o], DOMAIN lcClient[a], LcLoaded(lcLib))
             /\ Silent(Tail(lcQueue), LcTells(o, a)) <=> Silent(lcQueue, LcTells(o, a))
             /\ Silent(r, LcAbout(o, a))
  <2> DEFINE loaded == LcLoaded(lcLib)
             clients == DOMAIN lcClient[a]
             life == lcLife[o]
  <2>1. Head(lcQueue) \notin LcAbout(o, a)
    BY Zenon DEF LcAbout
  <2> HIDE DEF loaded, clients, life
  <2> QED BY <1>1, <2>1, AtTaken DEF loaded, clients, life, LcSound, LcIsAt
<1> QED BY <1>1, <1>2, LcUnheard

LEMMA LcNone == /\ <<>> \in Seq(LcMessage)
                /\ \A o \in LcObject, a \in LcAdapter : Silent(<<>>, LcAbout(o, a))
                /\ \A q \in Seq(LcMessage) : q \o <<>> = q
BY DEF Silent

LEMMA LcCallMade ==
  ASSUME NEW a \in LcAdapter
  PROVE  /\ [do |-> "up", adapter |-> a] \in LcMessage
         /\ [do |-> "unlock", adapter |-> a] \in LcMessage
  BY DEF LcMessage

LEMMA LcCallsSilent ==
  ASSUME NEW o, NEW a
  PROVE  /\ \A b, p : [do |-> "caps", adapter |-> b, object |-> p] \notin LcAbout(o, a)
         /\ \A b : /\ [do |-> "up", adapter |-> b] \notin LcAbout(o, a)
                  /\ [do |-> "unlock", adapter |-> b] \notin LcAbout(o, a)
  BY DEF LcAbout

LEMMA LcUpsAre ==
  ASSUME NEW adapters \in SUBSET LcAdapter
  PROVE  /\ LcEach(LAMBDA a : [do |-> "up", adapter |-> a], adapters) \in Seq(LcMessage)
         /\ \A o \in LcObject, b \in LcAdapter :
              Silent(LcEach(LAMBDA a : [do |-> "up", adapter |-> a], adapters), LcAbout(o, b))
<1> DEFINE f == [a \in adapters |-> [do |-> "up", adapter |-> a]]
           s == LcEach(LAMBDA a : [do |-> "up", adapter |-> a], adapters)
           ord == LcOrder(adapters)
<1>1. s = [i \in DOMAIN ord |-> [do |-> "up", adapter |-> ord[i]]]
  BY DEF LcEach
<1> HIDE DEF s
<1>3. s = [i \in DOMAIN ord |-> f[ord[i]]]
  BY <1>1, LcOrderIs DEF LcOrders
<1>4. f \in [adapters -> LcMessage]
  BY LcCallMade
<1>5. ASSUME NEW o \in LcObject, NEW b \in LcAdapter, NEW a \in adapters PROVE f[a] \notin LcAbout(o, b)
  BY LcCallsSilent
<1> HIDE DEF f, ord
<1>6. LcSays(s, adapters, LcMessage, f)
  BY <1>3, <1>4, EachSays DEF ord
<1>7. s \in Seq(LcMessage)
  BY <1>6, Zenon DEF LcSays
<1> QED BY <1>5, <1>6, <1>7, SaysNothing DEF s

LEMMA LcUnlocksAre ==
  ASSUME NEW adapters \in SUBSET LcAdapter
  PROVE  /\ LcEach(LAMBDA a : [do |-> "unlock", adapter |-> a], adapters) \in Seq(LcMessage)
         /\ \A o \in LcObject, b \in LcAdapter :
              Silent(LcEach(LAMBDA a : [do |-> "unlock", adapter |-> a], adapters), LcAbout(o, b))
<1> DEFINE f == [a \in adapters |-> [do |-> "unlock", adapter |-> a]]
           s == LcEach(LAMBDA a : [do |-> "unlock", adapter |-> a], adapters)
           ord == LcOrder(adapters)
<1>1. s = [i \in DOMAIN ord |-> [do |-> "unlock", adapter |-> ord[i]]]
  BY DEF LcEach
<1> HIDE DEF s
<1>3. s = [i \in DOMAIN ord |-> f[ord[i]]]
  BY <1>1, LcOrderIs DEF LcOrders
<1>4. f \in [adapters -> LcMessage]
  BY LcCallMade
<1>5. ASSUME NEW o \in LcObject, NEW b \in LcAdapter, NEW a \in adapters PROVE f[a] \notin LcAbout(o, b)
  BY LcCallsSilent
<1> HIDE DEF f, ord
<1>6. LcSays(s, adapters, LcMessage, f)
  BY <1>3, <1>4, EachSays DEF ord
<1>7. s \in Seq(LcMessage)
  BY <1>6, Zenon DEF LcSays
<1> QED BY <1>5, <1>6, <1>7, SaysNothing DEF s

LEMMA LcReplaysAre ==
  ASSUME NEW a \in LcAdapter, NEW waiting \in Seq(LcObject)
  PROVE  LET s == [i \in DOMAIN waiting |-> [do |-> "caps", adapter |-> a, object |-> waiting[i]]]
         IN /\ s \in Seq(LcMessage)
            /\ \A o \in LcObject, b \in LcAdapter : Silent(s, LcAbout(o, b))
<1> DEFINE s == [i \in DOMAIN waiting |-> [do |-> "caps", adapter |-> a, object |-> waiting[i]]]
<1>1. DOMAIN s = 1..Len(waiting) /\ Len(waiting) \in Nat
  OBVIOUS
<1>2. \A i \in 1..Len(waiting) :
        /\ waiting[i] \in LcObject /\ s[i] = [do |-> "caps", adapter |-> a, object |-> waiting[i]]
        /\ s[i] \in LcMessage
  <2> TAKE i \in 1..Len(waiting)
  <2>1. waiting[i] \in LcObject /\ s[i] = [do |-> "caps", adapter |-> a, object |-> waiting[i]]
    OBVIOUS
  <2> QED BY <2>1, LcMessageMade
<1>3. s \in Seq(LcMessage)
  <2>1. s = [i \in 1..Len(waiting) |-> s[i]]
    BY <1>1
  <2> HIDE DEF s
  <2> QED BY <1>1, <1>2, <2>1
<1>4. ASSUME NEW o \in LcObject, NEW b \in LcAdapter PROVE Silent(s, LcAbout(o, b))
  <2> HIDE DEF s
  <2> QED BY <1>1, <1>2, LcCallsSilent DEF Silent
<1> QED BY <1>3, <1>4, Zenon

(* The capabilities                                                        *)
LEMMA LcCapabilitiesStay == ASSUME LcInv, LcProcCapabilities PROVE LcInv'
<1>1. LcTypedClients /\ LcTypedAdapters /\ LcTypedMessages /\ LcSound /\ LcAsks
  BY DEF LcInv
<1>2. PICK m : m = Head(lcQueue)
  OBVIOUS
<1>3. /\ lcQueue # <<>> /\ m.do = "caps" /\ lcQueue' = Tail(lcQueue)
      /\ UNCHANGED <<lcClientSide, lcClient, lcMask, lcKnown, lcApi, lcModem, lcEvents>>
      /\ IF m.adapter \in lcKnown
         THEN /\ lcTold' = lcTold \cup ({m.object} \cap DOMAIN lcClient[m.adapter])
              /\ UNCHANGED lcPending
         ELSE /\ lcPending' = [lcPending EXCEPT ![m.adapter] = Append(@, m.object)]
              /\ UNCHANGED lcTold
  BY <1>2 DEF LcProcCapabilities, LcReceive
<1>4. m.adapter \in LcAdapter /\ m.object \in LcObject
  BY <1>1, <1>2, <1>3, LcMessageIs DEF LcTypedMessages
<1>5. /\ lcLife' = lcLife /\ lcData' = lcData /\ lcWait' = lcWait /\ lcLib' = lcLib
      /\ lcClient' = lcClient /\ lcMask' = lcMask /\ lcKnown' = lcKnown /\ lcApi' = lcApi
      /\ lcModem' = lcModem /\ lcEvents' = lcEvents
  BY <1>3 DEF lcClientSide
<1>6. lcHeard' = lcHeard
  BY <1>3 DEF lcClientSide
<1>7. LcTypedAdapters'
  <2>1. lcPending' \in [LcAdapter -> Seq(LcObject)]
    <3>1. PICK a \in LcAdapter : a = m.adapter
      BY <1>4
    <3>2. PICK p \in LcObject : p = m.object
      BY <1>4
    <3>3. lcPending[a] \in Seq(LcObject) /\ lcPending \in [LcAdapter -> Seq(LcObject)]
      BY <1>1 DEF LcTypedAdapters
    <3>4. Append(lcPending[a], p) \in Seq(LcObject)
      BY <3>3
    <3> QED BY <1>3, <3>1, <3>2, <3>3, <3>4
  <2> QED BY <1>1, <1>5, <2>1 DEF LcTypedAdapters
<1>8. LcSound' /\ lcQueue' \in Seq(LcMessage)
  <2> DEFINE none == <<>>
  <2>1. /\ none \in Seq(LcMessage) /\ \A o \in LcObject, a \in LcAdapter : Silent(none, LcAbout(o, a))
        /\ \A q \in Seq(LcMessage) : q \o none = q
    BY LcNone
  <2> HIDE DEF none
  <2>4. lcQueue' = Tail(lcQueue) \o none
    BY <1>1, <1>3, <2>1 DEF LcTypedMessages
  <2> QED BY <1>2, <1>3, <1>5, <2>1, <2>4, LcGo DEF LcSame
<1> QED BY <1>1, <1>3, <1>4, <1>5, <1>6, <1>7, <1>8 DEF LcInv, LcTypedMessages, LcAsks, LcAsking,
  LcTypedClients

(* The engine is up or unlocked: those that wait are served again          *)
LEMMA LcReplayStays ==
  ASSUME LcInv, LcSame, NEW a \in LcAdapter, lcQueue # <<>>,
         Head(lcQueue).do \notin {"add", "remove"}, LcReplay(a)
  PROVE  LcSound' /\ lcQueue' \in Seq(LcMessage) /\ lcPending' \in [LcAdapter -> Seq(LcObject)]
<1>1. lcPending \in [LcAdapter -> Seq(LcObject)] /\ lcPending[a] \in Seq(LcObject)
  BY DEF LcInv, LcTypedAdapters
<1> DEFINE s == [i \in DOMAIN lcPending[a] |-> [do |-> "caps", adapter |-> a, object |-> lcPending[a][i]]]
<1>2. s \in Seq(LcMessage) /\ \A o \in LcObject, b \in LcAdapter : Silent(s, LcAbout(o, b))
  BY <1>1, LcReplaysAre
<1>3. lcQueue' = Tail(lcQueue) \o s /\ lcPending' = [lcPending EXCEPT ![a] = <<>>]
  BY DEF LcReplay
<1> HIDE DEF s
<1>4. LcSound' /\ lcQueue' \in Seq(LcMessage)
  BY <1>2, <1>3, LcGo
<1> QED BY <1>1, <1>3, <1>4

LEMMA LcServedOrNot ==
  ASSUME LcInv, LcSame, NEW a \in LcAdapter, lcQueue # <<>>,
         Head(lcQueue).do \notin {"add", "remove"},
         LcReplay(a) \/ (lcQueue' = Tail(lcQueue) /\ UNCHANGED lcPending)
  PROVE  LcSound' /\ lcQueue' \in Seq(LcMessage) /\ lcPending' \in [LcAdapter -> Seq(LcObject)]
<1>1. CASE LcReplay(a)
  BY <1>1, LcReplayStays
<1>2. CASE lcQueue' = Tail(lcQueue) /\ UNCHANGED lcPending
  <2> DEFINE none == <<>>
  <2>2. Tail(lcQueue) \in Seq(LcMessage) /\ lcPending \in [LcAdapter -> Seq(LcObject)]
    BY DEF LcInv, LcTypedMessages, LcTypedAdapters
  <2> HIDE DEF none
  <2> QED BY <1>2, <2>2, LcGo, LcNone
<1> QED BY <1>1, <1>2

LEMMA LcUpStays == ASSUME LcInv, LcProcUp PROVE LcInv'
<1>1. LcTypedClients /\ LcTypedAdapters /\ LcTypedMessages /\ LcSound /\ LcAsks
  BY DEF LcInv
<1>2. PICK a : a = Head(lcQueue).adapter
  OBVIOUS
<1>3. /\ lcQueue # <<>> /\ Head(lcQueue).do = "up"
      /\ lcKnown' = lcKnown \cup {a} /\ lcTold' = lcTold \cup DOMAIN lcClient[a]
      /\ LcReplay(a) \/ (lcQueue' = Tail(lcQueue) /\ UNCHANGED lcPending)
      /\ UNCHANGED <<lcClientSide, lcClient, lcMask, lcApi, lcModem, lcEvents>>
  BY <1>2 DEF LcProcUp, LcReceive
<1>4. a \in LcAdapter
  BY <1>1, <1>2, <1>3, LcMessageIs DEF LcTypedMessages
<1>5. /\ lcLife' = lcLife /\ lcData' = lcData /\ lcWait' = lcWait /\ lcLib' = lcLib
      /\ lcClient' = lcClient /\ lcMask' = lcMask /\ lcApi' = lcApi
      /\ lcModem' = lcModem /\ lcEvents' = lcEvents /\ lcHeard' = lcHeard
  BY <1>3 DEF lcClientSide
<1>6. LcTypedClients'
  BY <1>1, <1>3, <1>4, <1>5 DEF LcTypedClients, LcTypedAdapters
<1>7. LcSound' /\ lcQueue' \in Seq(LcMessage) /\ lcPending' \in [LcAdapter -> Seq(LcObject)]
  BY <1>3, <1>4, <1>5, LcServedOrNot DEF LcSame
<1> QED BY <1>1, <1>3, <1>4, <1>5, <1>6, <1>7 DEF LcInv, LcTypedMessages, LcAsks, LcAsking,
  LcTypedAdapters

LEMMA LcUnlockStays == ASSUME LcInv, LcProcUnlock PROVE LcInv'
<1>1. LcTypedClients /\ LcTypedAdapters /\ LcTypedMessages /\ LcSound /\ LcAsks
  BY DEF LcInv
<1>2. PICK a : a = Head(lcQueue).adapter
  OBVIOUS
<1>3. /\ lcQueue # <<>> /\ Head(lcQueue).do = "unlock" /\ LcReplay(a)
      /\ UNCHANGED <<lcClientSide, lcClient, lcMask, lcKnown, lcApi, lcModem, lcTold, lcEvents>>
  BY <1>2 DEF LcProcUnlock, LcReceive
<1>5. /\ lcLife' = lcLife /\ lcData' = lcData /\ lcWait' = lcWait /\ lcLib' = lcLib
      /\ lcClient' = lcClient /\ lcMask' = lcMask /\ lcApi' = lcApi /\ lcKnown' = lcKnown
      /\ lcModem' = lcModem /\ lcEvents' = lcEvents /\ lcTold' = lcTold /\ lcHeard' = lcHeard
  BY <1>3 DEF lcClientSide
<1>7. LcSound' /\ lcQueue' \in Seq(LcMessage) /\ lcPending' \in [LcAdapter -> Seq(LcObject)]
  BY <1>1, <1>2, <1>3, <1>5, LcServedOrNot, LcMessageIs DEF LcSame, LcTypedMessages
<1>10. LcAsks'
  BY <1>1, <1>5 DEF LcAsks, LcAsking
<1> QED BY <1>1, <1>5, <1>7, <1>10 DEF LcInv, LcTypedAdapters, LcTypedMessages, LcTypedClients

(* The modem is opened again with what the adapters ask for                *)
LEMMA LcAskingLoaded == LcInv => LcAsking \subseteq LcLoaded(lcLib)
<1> SUFFICES ASSUME LcInv, NEW a \in LcAsking PROVE a \in LcLoaded(lcLib)
  OBVIOUS
<1>1. PICK o \in DOMAIN lcClient[a] : a \in lcClient[a][o]
  BY DEF LcAsking
<1>2. a \in LcAdapter /\ o \in LcObject
  BY <1>1 DEF LcAsking, LcInv, LcTypedAdapters
<1> QED BY <1>1, <1>2, Zenon DEF LcAt, LcInv, LcSound, LcIsAt

LEMMA LcOpenStays ==
  ASSUME LcInv, lcApi # <<>>, NEW up \in SUBSET LcAdapter, LcOpenModem(up) \/ LcOpenFails(up),
         lcApi' = Tail(lcApi), UNCHANGED <<lcClientSide, lcAdapterSide, lcTold>>
  PROVE  LcInv'
<1>1. LcTypedClients /\ LcTypedAdapters /\ LcTypedMessages /\ LcSound /\ LcAsks
  BY DEF LcInv
<1>4. /\ lcLife' = lcLife /\ lcData' = lcData /\ lcWait' = lcWait /\ lcLib' = lcLib
      /\ lcClient' = lcClient /\ lcMask' = lcMask /\ lcKnown' = lcKnown
      /\ lcPending' = lcPending /\ lcTold' = lcTold /\ lcHeard' = lcHeard
  BY DEF lcClientSide, lcAdapterSide
<1>5. lcApi' \in Seq(LcApiMessage)
  BY <1>1 DEF LcTypedMessages
<1>6. lcEvents' \in [calls: 0..MaxLcCalls, modem: 0..MaxLcModem, fails: 0..MaxLcFails]
  <2>1. lcEvents \in [calls: 0..MaxLcCalls, modem: 0..MaxLcModem, fails: 0..MaxLcFails]
    BY <1>1 DEF LcTypedClients
  <2>2. CASE lcEvents' = lcEvents
    BY <2>1, <2>2
  <2>3. CASE lcEvents.fails < MaxLcFails /\ lcEvents' = [lcEvents EXCEPT !.fails = @ + 1]
    BY <2>1, <2>3, LcBoundsAssumption
  <2> QED BY <2>2, <2>3 DEF LcOpenModem, LcOpenFails
<1>7. LcTypedClients' /\ LcTypedAdapters'
  BY <1>1, <1>4, <1>6 DEF LcTypedClients, LcTypedAdapters
<1>8. CASE LcOpenModem(up)
  <2> DEFINE s == LcEach(LAMBDA a : [do |-> "up", adapter |-> a], up)
  <2>1. /\ lcModem' = [lcModem EXCEPT !.asked = lcMask \cap LcLoaded(lcLib),
                                     !.failed = FALSE, !.missed = @ \ up]
        /\ lcQueue' = lcQueue \o s
    BY <1>8 DEF LcOpenModem
  <2>2. s \in Seq(LcMessage) /\ \A o \in LcObject, b \in LcAdapter : Silent(s, LcAbout(o, b))
    BY LcUpsAre
  <2> HIDE DEF s
  <2>3. LcSound' /\ lcQueue' \in Seq(LcMessage)
    BY <1>4, <2>1, <2>2, LcCome DEF LcSame
  <2>4. LcTypedMessages' /\ LcAsks'
    BY <1>1, <1>4, <1>5, <2>1, <2>3, LcAskingLoaded DEF LcTypedMessages, LcAsks, LcAsking,
      LcTypedAdapters
  <2> QED BY <1>7, <2>3, <2>4 DEF LcInv
<1>9. CASE LcOpenFails(up)
  <2>1. /\ lcModem' = [lcModem EXCEPT !.failed = TRUE, !.missed = @ \cup up]
        /\ lcQueue' = lcQueue
    BY <1>9 DEF LcOpenFails
  <2>2. LcTypedMessages' /\ LcAsks' /\ LcSound'
    BY <1>1, <1>4, <1>5, <2>1 DEF LcTypedMessages, LcAsks, LcAsking, LcSound, LcIsAt, LcWaits
  <2> QED BY <1>7, <2>2 DEF LcInv
<1> QED BY <1>8, <1>9

LEMMA LcModemStays == ASSUME LcInv, LcApiNext \/ LcModemNext PROVE LcInv'
<1>1. LcTypedClients /\ LcTypedAdapters /\ LcTypedMessages /\ LcSound /\ LcAsks
  BY DEF LcInv
<1>2. CASE LcProcOpen
  <2>1. PICK m : m = Head(lcApi)
    OBVIOUS
  <2>2. /\ lcApi # <<>> /\ m.do = "open" /\ lcApi' = Tail(lcApi)
        /\ LcOpenModem(m.up) \/ LcOpenFails(m.up)
        /\ UNCHANGED <<lcClientSide, lcAdapterSide, lcTold>>
    BY <1>2, <2>1 DEF LcProcOpen
  <2>3. m \in LcApiMessage
    BY <1>1, <2>1, <2>2 DEF LcTypedMessages
  <2>4. m.up \in SUBSET LcAdapter
    BY <2>2, <2>3 DEF LcApiMessage
  <2> QED BY <2>2, <2>4, LcOpenStays
<1>3. CASE LcProcSsr
  <2>1. LcLoaded(lcLib) \in SUBSET LcAdapter
    BY DEF LcLoaded
  <2> QED BY <1>3, <2>1, LcOpenStays DEF LcProcSsr
<1>4. CASE LcModemDown
  <2>1. /\ lcLife' = lcLife /\ lcData' = lcData /\ lcWait' = lcWait /\ lcLib' = lcLib
        /\ lcClient' = lcClient /\ lcMask' = lcMask /\ lcKnown' = lcKnown
        /\ lcPending' = lcPending /\ lcTold' = lcTold /\ lcQueue' = lcQueue /\ lcHeard' = lcHeard
        /\ lcEvents.modem < MaxLcModem /\ lcEvents' = [lcEvents EXCEPT !.modem = @ + 1]
        /\ lcModem' = [lcModem EXCEPT !.asked = {}]
        /\ lcApi' = Append(lcApi, [do |-> "ssr"])
    BY <1>4 DEF LcModemDown, LcModemEvent, lcClientSide, lcAdapterSide
  <2>2. lcEvents' \in [calls: 0..MaxLcCalls, modem: 0..MaxLcModem, fails: 0..MaxLcFails]
    BY <1>1, <2>1, LcBoundsAssumption DEF LcTypedClients
  <2>3. LcTypedClients' /\ LcTypedAdapters'
    BY <1>1, <2>1, <2>2 DEF LcTypedClients, LcTypedAdapters
  <2>4. [do |-> "ssr"] \in LcApiMessage
    BY DEF LcApiMessage
  <2>5. lcApi' \in Seq(LcApiMessage) /\ lcApi' # <<>>
    BY <1>1, <2>1, <2>4 DEF LcTypedMessages
  <2>7. LcTypedMessages' /\ LcAsks'
    BY <1>1, <2>1, <2>5 DEF LcTypedMessages, LcAsks, LcAsking
  <2> QED BY <1>1, <2>1, <2>3, <2>7 DEF LcInv, LcSound, LcIsAt, LcWaits
<1>5. CASE LcModemLock
  <2> DEFINE other == LcLoaded(lcLib) \ {"geofence"}
             s == LcEach(LAMBDA a : [do |-> "unlock", adapter |-> a], other)
  <2>1. /\ lcLife' = lcLife /\ lcData' = lcData /\ lcWait' = lcWait /\ lcLib' = lcLib
        /\ lcClient' = lcClient /\ lcMask' = lcMask /\ lcKnown' = lcKnown
        /\ lcPending' = lcPending /\ lcTold' = lcTold /\ lcApi' = lcApi /\ lcHeard' = lcHeard
        /\ lcEvents.modem < MaxLcModem /\ lcEvents' = [lcEvents EXCEPT !.modem = @ + 1]
        /\ lcModem' = [lcModem EXCEPT !.unlocked = ~@]
        /\ lcQueue' = lcQueue \/ lcQueue' = lcQueue \o s
    BY <1>5 DEF LcModemLock, LcModemEvent, lcClientSide, lcAdapterSide
  <2> HIDE DEF s, other
  <2>2. lcEvents' \in [calls: 0..MaxLcCalls, modem: 0..MaxLcModem, fails: 0..MaxLcFails]
    BY <1>1, <2>1, LcBoundsAssumption DEF LcTypedClients
  <2>6. LcSound' /\ lcQueue' \in Seq(LcMessage)
    <3>1. CASE lcQueue' = lcQueue
      BY <1>1, <2>1, <3>1 DEF LcSound, LcIsAt, LcWaits, LcTypedMessages
    <3>2. CASE lcQueue' = lcQueue \o s
      BY <2>1, <3>2, LcCome, LcUnlocksAre DEF LcSame, s, LcLoaded, other
    <3> QED BY <2>1, <3>1, <3>2
  <2>8. LcTypedMessages' /\ LcAsks'
    BY <1>1, <2>1, <2>6 DEF LcTypedMessages, LcAsks, LcAsking
  <2> QED BY <1>1, <2>1, <2>2, <2>6, <2>8 DEF LcInv, LcTypedClients, LcTypedAdapters
<1> QED BY <1>2, <1>3, <1>4, <1>5 DEF LcApiNext, LcModemNext

(* An adapter's clients change                                             *)
LEMMA AtAlike ==
  ASSUME NEW q, NEW o, NEW a, NEW life, NEW clients, NEW loaded, NEW then,
         LcAt(q, o, a, life, clients, loaded), o \in then <=> o \in clients
  PROVE  LcAt(q, o, a, life, then, loaded)
  BY Zenon DEF LcAt

LEMMA LcSetStays ==
  ASSUME LcInv, NEW b \in LcAdapter, NEW clients, LcSetClients(b, clients),
         \A o \in DOMAIN clients : o \in LcObject /\ clients[o] \in SUBSET LcAdapter,
         lcKnown' = lcKnown, lcPending' = lcPending, lcModem' = lcModem
  PROVE  LcTypedAdapters' /\ LcAsks' /\ lcApi' \in Seq(LcApiMessage)
<1>1. /\ lcClient = [a \in LcAdapter |-> lcClient[a]] /\ lcPending \in [LcAdapter -> Seq(LcObject)]
      /\ \A a \in LcAdapter : \A o \in DOMAIN lcClient[a] :
           o \in LcObject /\ lcClient[a][o] \in SUBSET LcAdapter
      /\ lcMask \in SUBSET LcAdapter /\ lcKnown \in SUBSET LcAdapter
      /\ lcMask = LcAsking /\ lcApi \in Seq(LcApiMessage)
  BY DEF LcInv, LcTypedAdapters, LcAsks, LcTypedMessages
<1>2. /\ lcClient' = [lcClient EXCEPT ![b] = clients]
      /\ lcMask' = IF \E p \in DOMAIN clients : b \in clients[p] THEN lcMask \cup {b} ELSE lcMask \ {b}
      /\ lcApi' = Append(lcApi, [do |-> "open", up |-> {}])
  BY DEF LcSetClients
<1>3. /\ lcClient' = [a \in LcAdapter |-> IF a = b THEN clients ELSE lcClient[a]]
  BY <1>1, <1>2
<1>4. \A a \in LcAdapter : lcClient'[a] = IF a = b THEN clients ELSE lcClient[a]
  BY <1>3
<1>6. lcMask' \in SUBSET LcAdapter
  BY <1>1, <1>2
<1>7. LcTypedAdapters'
  BY <1>1, <1>3, <1>4, <1>6 DEF LcTypedAdapters
<1>8. lcMask' = LcAsking'
  <2>1. ASSUME NEW a \in LcAdapter
        PROVE  a \in lcMask' <=> \E o \in DOMAIN lcClient'[a] : a \in lcClient'[a][o]
    <3>1. CASE a = b
      BY <1>2, <1>4, <3>1
    <3>2. CASE a # b
      BY <1>1, <1>2, <1>4, <3>2 DEF LcAsking
    <3> QED BY <3>1, <3>2
  <2> QED BY <1>6, <2>1 DEF LcAsking
<1> QED BY <1>1, <1>2, <1>7, <1>8 DEF LcAsks, LcApiMessage

LEMMA LcSetOthers ==
  ASSUME LcInv, NEW b \in LcAdapter, NEW clients, LcSetClients(b, clients)
  PROVE  \A a \in LcAdapter : lcClient'[a] = IF a = b THEN clients ELSE lcClient[a]
  BY DEF LcInv, LcTypedAdapters, LcSetClients

LEMMA LcAddStays == ASSUME LcInv, LcProcAdd PROVE LcInv'
<1>1. LcTypedClients /\ LcTypedAdapters /\ LcTypedMessages /\ LcSound /\ LcAsks
  BY DEF LcInv
<1>2. PICK m : m = Head(lcQueue)
  OBVIOUS
<1>3. /\ lcQueue # <<>> /\ m.do = "add" /\ lcQueue' = Tail(lcQueue)
      /\ LcSetClients(m.adapter, LcRemember(lcClient[m.adapter], m.object, m.kinds))
      /\ UNCHANGED <<lcClientSide, lcKnown, lcPending, lcModem, lcTold, lcEvents>>
  BY <1>2 DEF LcProcAdd, LcReceive
<1>4. lcQueue \in Seq(LcMessage) /\ m \in LcMessage /\ Tail(lcQueue) \in Seq(LcMessage)
  BY <1>1, <1>2, <1>3 DEF LcTypedMessages
<1>5. PICK b \in LcAdapter : b = m.adapter
  BY <1>4, LcMessageIs
<1>6. PICK p \in LcObject : p = m.object
  BY <1>3, <1>4, LcMessageIs
<1>7. m.kinds \in SUBSET LcAdapter
  BY <1>3, <1>4, LcMessageIs
<1>8. PICK clients : clients = LcRemember(lcClient[b], p, m.kinds)
  OBVIOUS
<1>9. /\ DOMAIN clients = DOMAIN lcClient[b] \cup {p}
      /\ \A o \in DOMAIN clients : clients[o] = IF o = p THEN m.kinds ELSE lcClient[b][o]
  BY <1>8 DEF LcRemember
<1>11. LcSetClients(b, clients)
  BY <1>3, <1>5, <1>6, <1>8
<1>12. /\ lcLife' = lcLife /\ lcData' = lcData /\ lcWait' = lcWait /\ lcLib' = lcLib
       /\ lcKnown' = lcKnown /\ lcPending' = lcPending /\ lcModem' = lcModem
       /\ lcTold' = lcTold /\ lcEvents' = lcEvents /\ lcHeard' = lcHeard
  BY <1>3 DEF lcClientSide
<1>13. LcTypedAdapters' /\ LcAsks' /\ lcApi' \in Seq(LcApiMessage)
  BY <1>1, <1>7, <1>9, <1>11, <1>12, LcSetStays DEF LcTypedAdapters
<1>15. ASSUME NEW o \in LcObject, NEW a \in LcAdapter
       PROVE  LcIsAt(o, a)' /\ (Silent(lcQueue', LcTells(o, a)) <=> Silent(lcQueue, LcTells(o, a)))
  <2> DEFINE loaded == LcLoaded(lcLib)
             old == DOMAIN lcClient[a]
             life == lcLife[o]
             t == Tail(lcQueue)
  <2>1. LcAt(lcQueue, o, a, life, old, loaded)
    BY <1>1 DEF LcSound, LcIsAt
  <2>2. lcClient'[a] = IF a = b THEN clients ELSE lcClient[a]
    BY <1>11, LcSetOthers
  <2>3. /\ Head(lcQueue) \notin LcTells(o, a)
        /\ Head(lcQueue) \in LcAbout(o, a) <=> o = p /\ a = b
    BY <1>2, <1>3, <1>4, <1>5, <1>6 DEF LcTells, LcAbout
  <2> HIDE DEF loaded, old, life
  <2>4. CASE o = p /\ a = b
    <3>1. LcAt(t, o, a, life, old \cup {o}, loaded) /\ (Silent(t, LcTells(o, a)) <=> Silent(lcQueue, LcTells(o, a)))
      BY <1>3, <1>4, <2>1, <2>3, <2>4, AtTaken
    <3> QED BY <1>3, <1>9, <1>12, <2>2, <2>4, <3>1 DEF LcIsAt, life, loaded, old
  <2>5. CASE ~(o = p /\ a = b)
    <3>1. LcAt(t, o, a, life, old, loaded) /\ (Silent(t, LcTells(o, a)) <=> Silent(lcQueue, LcTells(o, a)))
      BY <1>3, <1>4, <2>1, <2>3, <2>5, AtTaken
    <3>2. o \in DOMAIN lcClient'[a] <=> o \in old
      BY <1>9, <2>2, <2>5 DEF old
    <3> QED BY <1>3, <1>12, <3>1, <3>2, AtAlike DEF LcIsAt, life, loaded
  <2> QED BY <2>4, <2>5
<1> QED BY <1>1, <1>3, <1>4, <1>12, <1>13, <1>15, Zenon DEF LcInv, LcSound, LcTypedClients,
  LcWaits, LcTypedMessages

(* A client is removed, and with the last adapter's answer to a destroy    *)
(* its object is free                                                      *)
LcAnswered(t, m, p, b) ==
  \A o \in LcObject, a \in LcAdapter :
    /\ LcAt(t, o, a, lcLife[o], DOMAIN lcClient'[a], LcLoaded(lcLib))
    /\ Silent(t, LcTells(o, a)) <=>
         Silent(lcQueue, LcTells(o, a)) \/ (o = p /\ a = b /\ m.tell)
    /\ o = p /\ a = b /\ m.tell => lcLife[o] = "destroyed"

LEMMA LcRemoveAnswers ==
  ASSUME LcInv, lcQueue # <<>>, NEW m \in LcMessage, m = Head(lcQueue), m.do = "remove",
         NEW b \in LcAdapter, b = m.adapter, NEW p \in LcObject, p = m.object,
         LcSetClients(b, LcForget(lcClient[b], p))
  PROVE  LcAnswered(Tail(lcQueue), m, p, b)
<1>1. LcTypedClients /\ LcTypedAdapters /\ LcSound /\ lcQueue \in Seq(LcMessage)
  BY DEF LcInv, LcTypedMessages
<1>2. PICK clients : clients = LcForget(lcClient[b], p)
  OBVIOUS
<1> SUFFICES ASSUME NEW o \in LcObject, NEW a \in LcAdapter
             PROVE  /\ LcAt(Tail(lcQueue), o, a, lcLife[o], DOMAIN lcClient'[a], LcLoaded(lcLib))
                    /\ Silent(Tail(lcQueue), LcTells(o, a)) <=>
                         Silent(lcQueue, LcTells(o, a)) \/ (o = p /\ a = b /\ m.tell)
                    /\ o = p /\ a = b /\ m.tell => lcLife[o] = "destroyed"
  BY Zenon DEF LcAnswered
<1> DEFINE loaded == LcLoaded(lcLib)
           old == DOMAIN lcClient[a]
           life == lcLife[o]
           t == Tail(lcQueue)
           G == LcTells(o, a)
<1>4. LcAt(lcQueue, o, a, life, old, loaded)
  BY <1>1 DEF LcSound, LcIsAt
<1>6. /\ Head(lcQueue) \in G <=> o = p /\ a = b /\ m.tell
      /\ Head(lcQueue) \in LcAbout(o, a) <=> o = p /\ a = b
  BY LcMessageIs, Zenon DEF LcAbout, LcTells
<1> HIDE DEF loaded, old, life
<1>8. /\ o = p /\ a = b => DOMAIN lcClient'[a] = old \ {o}
      /\ ~(o = p /\ a = b) => (o \in DOMAIN lcClient'[a] <=> o \in old)
  BY <1>2, LcSetOthers DEF old, LcForget, Restrict
<1>9. CASE o = p /\ a = b /\ m.tell
  <2>2. /\ life # "free" /\ life # "live" /\ Silent(t, G)
        /\ LcAt(t, o, a, life, old \ {o}, loaded)
    BY <1>1, <1>4, <1>6, <1>9, AtTaken
  <2> QED BY <1>1, <1>8, <1>9, <2>2, Zenon DEF life, loaded, LcTypedClients
<1>10. CASE o = p /\ a = b /\ ~m.tell
  <2>2. LcAt(t, o, a, life, old \ {o}, loaded) /\ (Silent(t, G) <=> Silent(lcQueue, G))
    BY <1>1, <1>4, <1>6, <1>10, AtTaken
  <2> QED BY <1>8, <1>10, <2>2, Zenon DEF life, loaded
<1>11. CASE ~(o = p /\ a = b)
  <2>2. LcAt(t, o, a, life, old, loaded) /\ (Silent(t, G) <=> Silent(lcQueue, G))
    BY <1>1, <1>4, <1>6, <1>11, AtTaken
  <2> QED BY <1>8, <1>11, <2>2, AtAlike, Zenon DEF life, loaded
<1> QED BY <1>9, <1>10, <1>11, Zenon

LEMMA LcRemoveStays == ASSUME LcInv, LcProcRemove PROVE LcInv'
<1>1. LcTypedClients /\ LcTypedAdapters /\ LcTypedMessages /\ LcSound /\ LcAsks
  BY DEF LcInv
<1>2. PICK m : m = Head(lcQueue)
  OBVIOUS
<1>3. /\ lcQueue # <<>> /\ m.do = "remove" /\ lcQueue' = Tail(lcQueue)
      /\ LcSetClients(m.adapter, LcForget(lcClient[m.adapter], m.object))
      /\ IF m.tell THEN LcRemoveComplete(m.object, m.adapter)
         ELSE UNCHANGED <<lcWait, lcHeard, lcLife>>
      /\ UNCHANGED <<lcData, lcLib, lcKnown, lcPending, lcModem, lcTold, lcEvents>>
  BY <1>2 DEF LcProcRemove, LcReceive
<1>4. lcQueue \in Seq(LcMessage) /\ m \in LcMessage /\ Tail(lcQueue) \in Seq(LcMessage)
  BY <1>1, <1>2, <1>3 DEF LcTypedMessages
<1>5. PICK b \in LcAdapter : b = m.adapter
  BY <1>4, LcMessageIs
<1>6. PICK p \in LcObject : p = m.object
  BY <1>3, <1>4, LcMessageIs
<1>7. /\ lcData' = lcData /\ lcLib' = lcLib /\ lcKnown' = lcKnown /\ lcPending' = lcPending
      /\ lcModem' = lcModem /\ lcTold' = lcTold /\ lcEvents' = lcEvents
  BY <1>3
<1>8. LcSetClients(b, LcForget(lcClient[b], p))
  BY <1>3, <1>5, <1>6
<1>9. LcTypedAdapters' /\ LcAsks' /\ lcApi' \in Seq(LcApiMessage)
  <2>1. PICK clients : clients = LcForget(lcClient[b], p)
    OBVIOUS
  <2> QED BY <1>1, <1>7, <1>8, <2>1, LcSetStays DEF LcTypedAdapters, LcForget, Restrict
<1> DEFINE t == Tail(lcQueue)
<1>11. LcAnswered(t, m, p, b)
  BY <1>2, <1>3, <1>4, <1>5, <1>6, <1>8, LcRemoveAnswers
<1>12. \A o \in DOMAIN lcWait : o \in LcObject /\ \A a \in LcAdapter :
          a \in lcWait[o] <=> ~Silent(lcQueue, LcTells(o, a))
  BY <1>1 DEF LcSound, LcWaits, LcTypedClients
<1> HIDE DEF t
<1>10. lcHeard' \in SUBSET LcObject
  BY <1>1, <1>3, <1>5, <1>6 DEF LcTypedClients, LcRemoveComplete, LcEnded
<1>13. LcTypedClients' /\ LcSound'
  <2>1. CASE lcWait' = lcWait /\ lcLife' = lcLife /\ ~(m.tell /\ p \in DOMAIN lcWait)
    <3>2. ASSUME NEW o \in LcObject, NEW a \in LcAdapter PROVE LcIsAt(o, a)'
      BY <1>3, <1>7, <1>11, <2>1, Zenon DEF LcAnswered, LcIsAt, t
    <3>4. LcWaits'
      BY <1>3, <1>11, <1>12, <2>1, Zenon DEF LcWaits, t, LcAnswered
    <3> QED BY <1>1, <1>7, <1>10, <2>1, <3>2, <3>4, Zenon DEF LcSound, LcTypedClients
  <2>2. CASE m.tell /\ p \in DOMAIN lcWait /\ LcRemoveComplete(p, b)
    <3>0. lcLife[p] = "destroyed"
      BY <1>11, <2>2, Zenon DEF LcAnswered
    <3> DEFINE wait == lcWait[p] \ {b}
    <3>1. wait \in SUBSET LcAdapter
      BY <1>1, <2>2 DEF LcTypedClients
    <3>2. \A a \in LcAdapter : a \in wait <=> ~Silent(t, LcTells(p, a))
      BY <1>11, <1>12, <2>2 DEF LcAnswered
    <3>3. \A o \in DOMAIN lcWait : o # p => \A a \in LcAdapter :
            a \in lcWait[o] <=> ~Silent(t, LcTells(o, a))
      BY <1>11, <1>12, Zenon DEF LcAnswered
    <3>4. /\ wait = {} => /\ lcWait' = LcForget(lcWait, p)
                          /\ lcLife' = [lcLife EXCEPT ![p] = "free"]
          /\ wait # {} => lcWait' = LcRemember(lcWait, p, wait) /\ lcLife' = lcLife
      BY <2>2 DEF LcRemoveComplete
    <3> HIDE DEF wait
    <3>5. CASE wait = {}
      <4>1. /\ DOMAIN lcWait' = DOMAIN lcWait \ {p}
            /\ \A o \in DOMAIN lcWait' : lcWait'[o] = lcWait[o]
        BY <3>4, <3>5 DEF LcForget, Restrict
      <4>2. \A o \in LcObject : lcLife'[o] = IF o = p THEN "free" ELSE lcLife[o]
        BY <1>1, <3>4, <3>5 DEF LcTypedClients
      <4>3. LcTypedClients'
        <5>1. lcLife' \in [LcObject -> {"free", "live", "destroyed"}]
          BY <1>1, <3>4, <3>5 DEF LcTypedClients
        <5> QED BY <1>1, <1>7, <1>10, <3>0, <4>1, <4>2, <5>1 DEF LcTypedClients
      <4>4. ASSUME NEW o \in LcObject, NEW a \in LcAdapter PROVE LcIsAt(o, a)'
        <5>1. LcAt(t, o, a, lcLife[o], DOMAIN lcClient'[a], LcLoaded(lcLib))
          BY <1>11, Zenon DEF LcAnswered
        <5>2. CASE o = p
          <6>2. LcAt(t, o, a, "free", DOMAIN lcClient'[a], LcLoaded(lcLib))
            BY <3>0, <3>2, <3>5, <5>1, <5>2, AtFreed
          <6> QED BY <1>3, <1>7, <4>2, <5>2, <6>2 DEF LcIsAt, t
        <5>3. CASE o # p
          BY <1>3, <1>7, <4>2, <5>1, <5>3 DEF LcIsAt, t
        <5> QED BY <5>2, <5>3
      <4> QED BY <1>3, <3>3, <4>1, <4>3, <4>4, Zenon DEF LcSound, LcWaits, t
    <3>6. CASE wait # {}
      <4>1. /\ DOMAIN lcWait' = DOMAIN lcWait
            /\ \A o \in DOMAIN lcWait' : lcWait'[o] = IF o = p THEN wait ELSE lcWait[o]
        BY <2>2, <3>4, <3>6 DEF LcRemember
      <4>2. lcLife' = lcLife
        BY <3>4, <3>6
      <4>3. LcTypedClients'
        BY <1>1, <1>7, <1>10, <3>1, <4>1, <4>2 DEF LcTypedClients
      <4>4. ASSUME NEW o \in LcObject, NEW a \in LcAdapter PROVE LcIsAt(o, a)'
        BY <1>3, <1>7, <1>11, <4>2, Zenon DEF LcAnswered, LcIsAt, t
      <4> QED BY <1>3, <3>2, <3>3, <4>1, <4>3, <4>4, Zenon DEF LcSound, LcWaits, t
    <3> QED BY <3>5, <3>6
  <2> QED BY <1>3, <1>5, <1>6, <2>1, <2>2 DEF LcRemoveComplete
<1> QED BY <1>1, <1>3, <1>4, <1>7, <1>9, <1>13 DEF LcInv, LcTypedMessages

(* A client is created or updated                                          *)
LEMMA LcLoadIs ==
  ASSUME NEW adapters, NEW lib \in LcLoad(adapters)
  PROVE  lib \in [LcAdapter -> {"no", "loaded", "failed"}] /\ LcLoaded(lcLib) \subseteq LcLoaded(lib)
  BY DEF LcLoad, LcLoaded

LEMMA LcAddedAre ==
  ASSUME LcInv, NEW lib, LcAddAdapters(lib)
  PROVE  lcApi' \in Seq(LcApiMessage) /\ (lcApi' = <<>> => lcApi = <<>>)
<1> DEFINE adapters == LcLoaded(lib) \ LcLoaded(lcLib)
           f == [a \in adapters |-> [do |-> "open", up |-> {a}]]
           s == LcEach(LAMBDA a : [do |-> "open", up |-> {a}], adapters)
           ord == LcOrder(adapters)
<1>1. lcApi' = lcApi \o s /\ lcApi \in Seq(LcApiMessage)
  BY DEF LcAddAdapters, LcInv, LcTypedMessages
<1>2. adapters \in SUBSET LcAdapter
  BY DEF LcLoaded
<1>3. s = [i \in DOMAIN ord |-> [do |-> "open", up |-> {ord[i]}]]
  BY DEF LcEach
<1> HIDE DEF s, adapters
<1>5. s = [i \in DOMAIN ord |-> f[ord[i]]]
  BY <1>2, <1>3, LcOrderIs DEF LcOrders
<1>6. f \in [adapters -> LcApiMessage]
  BY <1>2 DEF LcApiMessage
<1> HIDE DEF f, ord
<1>7. LcSays(s, adapters, LcApiMessage, f)
  BY <1>2, <1>5, <1>6, EachSays DEF ord
<1>8. s \in Seq(LcApiMessage)
  BY <1>7, Zenon DEF LcSays
<1> QED BY <1>1, <1>8

LEMMA LcCallCounts ==
  ASSUME LcTypedClients, LcCall
  PROVE  lcEvents' \in [calls: 0..MaxLcCalls, modem: 0..MaxLcModem, fails: 0..MaxLcFails]
  BY LcBoundsAssumption DEF LcCall, LcTypedClients

LEMMA LcLiveStays ==
  ASSUME LcInv, NEW o \in LcObject, NEW kinds \in SUBSET LcAdapter,
         lcLib' \in [LcAdapter -> {"no", "loaded", "failed"}],
         LcLoaded(lcLib) \subseteq LcLoaded(lcLib'), LcAddAdapters(lcLib'),
         NEW r \in Seq(LcMessage), lcQueue' = lcQueue \o r, lcLife[o] \in {"free", "live"},
         \A p \in LcObject, a \in LcAdapter :
           /\ Silent(r, LcTells(p, a))
           /\ (p = o /\ a \in LcLoaded(lcLib')) \/ Silent(r, LcAbout(p, a)),
         lcLife' = [lcLife EXCEPT ![o] = "live"], lcData' = LcRemember(lcData, o, kinds),
         lcTold' \subseteq lcTold, lcHeard' \subseteq lcHeard, LcCall, UNCHANGED <<lcWait, lcAdapterSide, lcModem>>
  PROVE  LcInv'
<1>1. LcTypedClients /\ LcTypedAdapters /\ LcTypedMessages /\ LcSound /\ LcAsks
  BY DEF LcInv
<1>2. /\ lcWait' = lcWait /\ lcClient' = lcClient /\ lcMask' = lcMask /\ lcKnown' = lcKnown
      /\ lcPending' = lcPending /\ lcModem' = lcModem
  BY DEF lcAdapterSide
<1>4. \A p \in LcObject : lcLife'[p] = IF p = o THEN "live" ELSE lcLife[p]
  BY <1>1 DEF LcTypedClients
<1>5. LcTypedClients'
  BY <1>1, <1>2, <1>4, LcCallCounts DEF LcTypedClients, LcRemember
<1>7. lcApi' \in Seq(LcApiMessage) /\ (lcApi' = <<>> => lcApi = <<>>)
  <2>1. PICK lib : lib = lcLib'
    OBVIOUS
  <2> QED BY <2>1, LcAddedAre DEF LcAddAdapters
<1>8. lcQueue \in Seq(LcMessage) /\ lcQueue' \in Seq(LcMessage)
  BY <1>1 DEF LcTypedMessages
<1>9. LcTypedMessages' /\ LcAsks'
  BY <1>1, <1>2, <1>7, <1>8 DEF LcTypedMessages, LcAsks, LcAsking
<1>10. ASSUME NEW p \in LcObject, NEW a \in LcAdapter
       PROVE  /\ LcIsAt(p, a)'
              /\ p # o => (Silent(lcQueue', LcTells(p, a)) <=> Silent(lcQueue, LcTells(p, a)))
  <2> DEFINE loaded == LcLoaded(lcLib)
             then == LcLoaded(lcLib')
             clients == DOMAIN lcClient[a]
             life == lcLife[p]
  <2>1. /\ LcAt(lcQueue, p, a, life, clients, loaded) /\ loaded \subseteq then
        /\ Silent(r, LcTells(p, a)) /\ ((p = o /\ a \in then) \/ Silent(r, LcAbout(p, a)))
        /\ p = o => life \in {"free", "live"}
    BY <1>1 DEF LcSound, LcIsAt
  <2> HIDE DEF loaded, then, clients, life
  <2>2. CASE p = o
    BY <1>2, <1>4, <1>8, <2>1, <2>2, AtAsked DEF LcIsAt, then, clients
  <2>3. CASE p # o
    BY <1>2, <1>4, <1>8, <2>1, <2>3, AtQuiet DEF LcIsAt, then, clients, life
  <2> QED BY <2>2, <2>3
<1>11. LcWaits'
  BY <1>1, <1>2, <1>10, Zenon DEF LcTypedClients, LcSound, LcWaits
<1> QED BY <1>1, <1>2, <1>5, <1>9, <1>10, <1>11, Zenon DEF LcInv, LcSound, LcTypedAdapters

LcAdds(o, kinds, adapters) ==
  LcEach(LAMBDA a : [do |-> "add", adapter |-> a, object |-> o, kinds |-> kinds], adapters)

LcAddsAll(s, o, kinds, adapters) ==
  /\ s \in Seq(LcMessage) /\ (s = <<>> <=> adapters = {})
  /\ \A i \in DOMAIN s : \E a \in adapters : s[i] = LcAdd(o, kinds, a)

LEMMA LcAddsAre ==
  ASSUME NEW o \in LcObject, NEW kinds \in SUBSET LcAdapter, NEW adapters \in SUBSET LcAdapter
  PROVE  LcAddsAll(LcAdds(o, kinds, adapters), o, kinds, adapters)
<1> DEFINE s == LcAdds(o, kinds, adapters)
<1> DEFINE f == [a \in adapters |-> LcAdd(o, kinds, a)]
           ord == LcOrder(adapters)
<1>3. s = [i \in DOMAIN ord |-> f[ord[i]]]
  BY LcOrderIs DEF LcAdds, LcEach, LcAdd, LcOrders
<1>4. f \in [adapters -> LcMessage]
  BY LcMessageMade DEF LcAdd
<1>5. \A a \in adapters : f[a] = LcAdd(o, kinds, a)
  OBVIOUS
<1> HIDE DEF f, ord, s
<1>6. LcSays(s, adapters, LcMessage, f)
  BY <1>3, <1>4, EachSays DEF ord
<1>7. /\ s \in Seq(LcMessage) /\ (s = <<>> <=> adapters = {})
      /\ \A i \in DOMAIN s : s[i] \in {f[a] : a \in adapters}
  BY <1>6, Zenon DEF LcSays
<1> QED BY <1>5, <1>7 DEF LcAddsAll, s

LEMMA LcUpdateStays ==
  ASSUME LcInv, NEW o \in LcObject, NEW kinds \in SUBSET LcAdapter, LcUpdate(o, kinds)
  PROVE  LcInv'
<1> DEFINE Said(a) == IF a \in kinds
             THEN [do |-> "add", adapter |-> a, object |-> o, kinds |-> kinds]
             ELSE [do |-> "remove", adapter |-> a, object |-> o, tell |-> FALSE]
<1>2. /\ o \in DOMAIN lcData /\ LcCall /\ LcAddAdapters(lcLib')
      /\ lcData' = LcRemember(lcData, o, kinds)
      /\ UNCHANGED <<lcLife, lcWait, lcHeard, lcAdapterSide, lcModem, lcTold>>
      /\ \E lib \in LcLoad(kinds) :
           /\ lcLib' = lib
           /\ lcQueue' = lcQueue \o LcEach(Said, LcLoaded(lib) \cap (kinds \cup lcData[o]))
  BY DEF LcUpdate
<1>3. PICK lib \in LcLoad(kinds) :
        /\ lcLib' = lib
        /\ lcQueue' = lcQueue \o LcEach(Said, LcLoaded(lib) \cap (kinds \cup lcData[o]))
  BY <1>2
<1> DEFINE adapters == LcLoaded(lib) \cap (kinds \cup lcData[o])
           s == LcEach(Said, adapters)
           ord == LcOrder(adapters)
           f == [a \in adapters |-> Said(a)]
<1>4. adapters \in SUBSET LcAdapter /\ adapters \subseteq LcLoaded(lib)
  BY DEF LcLoaded
<1>5. s = [i \in DOMAIN ord |-> Said(ord[i])]
  BY DEF LcEach
<1>6. lcQueue' = lcQueue \o s
  BY <1>3
<1> HIDE DEF adapters
<1> HIDE DEF s
<1>8. s = [i \in DOMAIN ord |-> f[ord[i]]]
  BY <1>4, <1>5, LcOrderIs DEF LcOrders
<1>9. \A a \in adapters : f[a] = LcAdd(o, kinds, a) \/ f[a] = LcRemove(o, FALSE, a)
  BY DEF LcAdd, LcRemove
<1>11. f \in [adapters -> LcMessage]
  BY <1>4, LcMessageMade
<1> HIDE DEF f, ord
<1>12. LcSays(s, adapters, LcMessage, f)
  BY <1>4, <1>8, <1>11, EachSays DEF ord
<1>13. s \in Seq(LcMessage)
  BY <1>12, Zenon DEF LcSays
<1>14. ASSUME NEW p \in LcObject, NEW a \in LcAdapter
       PROVE  Silent(s, LcTells(p, a)) /\ ((p = o /\ a \in LcLoaded(lib)) \/ Silent(s, LcAbout(p, a)))
  <2>1. PICK tell \in BOOLEAN : tell = FALSE
    OBVIOUS
  <2>2. ASSUME NEW b \in adapters
        PROVE  /\ LcAdd(o, kinds, b) \notin LcTells(p, a)
               /\ LcRemove(o, FALSE, b) \notin LcTells(p, a)
               /\ LcAdd(o, kinds, b) \in LcAbout(p, a) => p = o /\ b = a
               /\ LcRemove(o, FALSE, b) \in LcAbout(p, a) => p = o /\ b = a
    <3>2. /\ LcAdd(o, kinds, b) \in LcAbout(p, a) <=> o = p /\ b = a
          /\ LcRemove(o, tell, b) \in LcAbout(p, a) <=> o = p /\ b = a
          /\ LcAdd(o, kinds, b) \notin LcTells(p, a)
          /\ LcRemove(o, tell, b) \in LcTells(p, a) <=> o = p /\ b = a /\ (tell = TRUE)
      <4>1. LcSaid(p, a, o, b, kinds, tell)
        BY <1>4, LcSentAbout
      <4> QED BY <4>1, Zenon DEF LcSaid
    <3> QED BY <2>1, <3>2
  <2>3. \A b \in adapters : f[b] \notin LcTells(p, a)
    BY <1>9, <2>2
  <2>5. ASSUME ~(p = o /\ a \in LcLoaded(lib)) PROVE Silent(s, LcAbout(p, a))
    <3>1. \A b \in adapters : f[b] \notin LcAbout(p, a)
      BY <1>4, <1>9, <2>2, <2>5
    <3> QED BY <1>12, <3>1, SaysNothing
  <2> QED BY <1>12, <2>3, <2>5, SaysNothing
<1>15. lcLife[o] = "live" /\ lcLife' = [lcLife EXCEPT ![o] = "live"] /\ lcTold' \subseteq lcTold
  BY <1>2 DEF LcTypedClients, LcInv
<1>16. lib \in [LcAdapter -> {"no", "loaded", "failed"}] /\ LcLoaded(lcLib) \subseteq LcLoaded(lib)
  BY LcLoadIs
<1>17. UNCHANGED <<lcWait, lcAdapterSide, lcModem>> /\ lcHeard' \subseteq lcHeard
  BY <1>2
<1> QED BY <1>2, <1>3, <1>6, <1>13, <1>14, <1>15, <1>16, <1>17, LcLiveStays

LcCreated(o, kinds, own, lib) ==
  LET joined == kinds \cap LcLoaded(own)
      adapters == IF joined # {} THEN joined ELSE {"gnss"} \cap LcLoaded(lib)
      adds == LcEach(LAMBDA a : [do |-> "add", adapter |-> a, object |-> o,
                                 kinds |-> kinds], adapters)
      caps == [do |-> "caps", adapter |-> Head(adds).adapter, object |-> o]
  IN /\ \A a \in kinds : lib[a] = own[a]
     /\ lcLib' = IF joined # {} THEN own ELSE lib
     /\ lcQueue' = IF adapters = {} THEN lcQueue
                   ELSE lcQueue \o <<adds[1], caps>> \o Tail(adds)

(* The first adapter gets the request for the capabilities too             *)
LcFirst(o, adds) == <<adds[1], [do |-> "caps", adapter |-> Head(adds).adapter, object |-> o]>>

LEMMA LcFirstIs ==
  ASSUME NEW o \in LcObject, NEW kinds \in SUBSET LcAdapter, NEW adapters \in SUBSET LcAdapter,
         NEW adds \in Seq(LcMessage), adds # <<>>,
         \A i \in DOMAIN adds : \E a \in adapters : adds[i] = LcAdd(o, kinds, a)
  PROVE  /\ LcFirst(o, adds) \o Tail(adds) \in Seq(LcMessage) /\ LcFirst(o, adds) \in Seq(LcMessage)
         /\ \A p \in LcObject, b \in LcAdapter :
              /\ Silent(LcFirst(o, adds) \o Tail(adds), LcTells(p, b))
              /\ (p = o /\ b \in adapters) \/ Silent(LcFirst(o, adds) \o Tail(adds), LcAbout(p, b))
<1>1. /\ 1 \in DOMAIN adds /\ Head(adds) = adds[1] /\ Tail(adds) \in Seq(LcMessage)
      /\ adds[1] \in LcMessage
  BY QueueTail
<1>2. PICK a \in adapters : adds[1] = LcAdd(o, kinds, a)
  BY <1>1
<1>3. a \in LcAdapter /\ Head(adds).adapter = a
  BY <1>1, <1>2 DEF LcAdd
<1> DEFINE caps == [do |-> "caps", adapter |-> a, object |-> o]
           u == <<adds[1], caps>>
           t == Tail(adds)
<1>4. LcFirst(o, adds) = u
  BY <1>3 DEF LcFirst
<1>5. caps \in LcMessage
  BY <1>3, LcMessageMade
<1>6. \A p, b : caps \notin LcAbout(p, b)
  BY LcCallsSilent
<1> HIDE DEF caps
<1>7. u \in Seq(LcMessage) /\ DOMAIN u = {1, 2} /\ u[1] = adds[1] /\ u[2] = caps
  BY <1>1, <1>5
<1> HIDE DEF u, t
<1>8. t \in Seq(LcMessage) /\ u \o t \in Seq(LcMessage)
  BY <1>1, <1>7 DEF t
<1>9. ASSUME NEW B, caps \notin B, Silent(adds, B) PROVE Silent(u \o t, B)
  <2>1. Silent(t, B)
    BY <1>9, QueueTails DEF t
  <2> QED BY <1>1, <1>7, <1>8, <1>9, <2>1, QueueJoins DEF Silent
<1>10. ASSUME NEW p \in LcObject, NEW b \in LcAdapter
       PROVE  /\ Silent(u \o t, LcTells(p, b))
              /\ (p = o /\ b \in adapters) \/ Silent(u \o t, LcAbout(p, b))
  <2>1. PICK tell \in BOOLEAN : tell = TRUE
    OBVIOUS
  <2>2. ASSUME NEW c \in adapters
        PROVE  /\ LcAdd(o, kinds, c) \notin LcTells(p, b)
               /\ LcAdd(o, kinds, c) \in LcAbout(p, b) => p = o /\ b = c
    <3>2. LcSaid(p, b, o, c, kinds, tell)
      BY LcSentAbout
    <3> QED BY <3>2, Zenon DEF LcSaid
  <2>5. caps \notin LcAbout(p, b) /\ caps \notin LcTells(p, b)
    BY <1>6, LcTellsAbout
  <2> QED BY <1>9, <2>2, <2>5 DEF Silent
<1> QED BY <1>4, <1>7, <1>8, <1>10 DEF t

LEMMA LcCreateStays ==
  ASSUME LcInv, NEW o \in LcObject, NEW kinds \in SUBSET LcAdapter, LcCreate(o, kinds)
  PROVE  LcInv'
<1>2. /\ lcLife[o] = "free" /\ LcCall /\ LcAddAdapters(lcLib')
      /\ lcLife' = [lcLife EXCEPT ![o] = "live"] /\ lcData' = LcRemember(lcData, o, kinds)
      /\ lcTold' = lcTold \ {o} /\ lcHeard' = lcHeard \ {o}
      /\ UNCHANGED <<lcWait, lcAdapterSide, lcModem>>
      /\ \E own \in LcLoad(kinds) : \E lib \in LcLoad(kinds \cup {"gnss"}) :
           LcCreated(o, kinds, own, lib)
  BY DEF LcCreate, LcCreated
<1>3. PICK own \in LcLoad(kinds), lib \in LcLoad(kinds \cup {"gnss"}) : LcCreated(o, kinds, own, lib)
  BY <1>2
<1> DEFINE joined == kinds \cap LcLoaded(own)
           adapters == IF joined # {} THEN joined ELSE {"gnss"} \cap LcLoaded(lib)
           adds == LcEach(LAMBDA a : [do |-> "add", adapter |-> a, object |-> o,
                                      kinds |-> kinds], adapters)
<1>4. /\ lcLib' = IF joined # {} THEN own ELSE lib
      /\ lcQueue' = IF adapters = {} THEN lcQueue ELSE lcQueue \o LcFirst(o, adds) \o Tail(adds)
  BY <1>3 DEF LcCreated, LcFirst
<1>5. adapters \subseteq LcLoaded(lcLib')
  BY <1>4
<1>6. adapters \in SUBSET LcAdapter
  BY DEF LcLoaded
<1>7. adds = LcAdds(o, kinds, adapters)
  BY DEF LcAdds
<1> HIDE DEF adapters, adds
<1>14. PICK made : made = adds
  OBVIOUS
<1>8. /\ made \in Seq(LcMessage) /\ (made = <<>> <=> adapters = {})
      /\ \A i \in DOMAIN made : \E a \in adapters : made[i] = LcAdd(o, kinds, a)
  <2>1. LcAddsAll(LcAdds(o, kinds, adapters), o, kinds, adapters)
    BY <1>6, LcAddsAre
  <2> QED BY <1>7, <1>14, <2>1 DEF LcAddsAll
<1>9. lcQueue' = IF adapters = {} THEN lcQueue ELSE lcQueue \o LcFirst(o, made) \o Tail(made)
  BY <1>4, <1>14
<1> HIDE DEF joined
<1>11. PICK r \in Seq(LcMessage) :
         /\ lcQueue' = lcQueue \o r
         /\ \A p \in LcObject, a \in LcAdapter :
              /\ Silent(r, LcTells(p, a))
              /\ (p = o /\ a \in LcLoaded(lcLib')) \/ Silent(r, LcAbout(p, a))
  <2>1. lcQueue \in Seq(LcMessage)
    BY DEF LcTypedMessages, LcInv
  <2>2. CASE adapters = {}
    <3> DEFINE none == <<>>
    <3>1. /\ none \in Seq(LcMessage) /\ lcQueue \o none = lcQueue
          /\ \A p \in LcObject, a \in LcAdapter : Silent(none, LcAbout(p, a))
      BY <2>1, LcNone
    <3> HIDE DEF none
    <3>2. \A p \in LcObject, a \in LcAdapter : Silent(none, LcTells(p, a))
      BY <3>1, LcTellsAbout, QueueSilent
    <3> QED BY <1>9, <2>2, <3>1, <3>2
  <2>3. CASE adapters # {}
    <3>1. made # <<>>
      BY <1>8, <2>3
    <3> DEFINE u == LcFirst(o, made)
               t == Tail(made)
               r == u \o t
    <3>2. /\ r \in Seq(LcMessage) /\ u \in Seq(LcMessage)
          /\ \A p \in LcObject, b \in LcAdapter :
               /\ Silent(r, LcTells(p, b))
               /\ (p = o /\ b \in adapters) \/ Silent(r, LcAbout(p, b))
      BY <1>6, <1>8, <3>1, LcFirstIs
    <3>3. t \in Seq(LcMessage) /\ lcQueue' = lcQueue \o u \o t
      BY <1>8, <1>9, <2>3, <3>1
    <3> HIDE DEF u, t
    <3>4. (lcQueue \o u) \o t = lcQueue \o r
      BY <2>1, <3>2, <3>3, Associates DEF AreAssociated
    <3> HIDE DEF r
    <3> QED BY <1>5, <3>2, <3>3, <3>4
  <2> QED BY <2>2, <2>3
<1> QED BY <1>2, <1>4, <1>11, LcLiveStays, LcLoadIs


(* A client is destroyed: every adapter that is loaded is told to remove   *)
(* it, and nobody else is talked about                                     *)
LcRemoved(o, adapters, s) ==
  /\ s \in Seq(LcMessage) /\ (s = <<>> <=> adapters = {})
  /\ \A p \in LcObject, a \in LcAdapter :
       /\ p = o /\ a \in adapters => /\ Once(s, LcTells(p, a)) /\ ~Silent(s, LcTells(p, a))
                                     /\ Followed(s, LcAbout(p, a), LcTells(p, a))
       /\ ~(p = o /\ a \in adapters) => Silent(s, LcAbout(p, a))

LEMMA LcRemovesAre ==
  ASSUME NEW o \in LcObject, NEW adapters \in SUBSET LcAdapter
  PROVE  LcRemoved(o, adapters, LcRemoves(o, adapters, TRUE))
<1> DEFINE s == LcRemoves(o, adapters, TRUE)
<1> DEFINE ord == LcOrder(adapters)
<1>0. PICK tell \in BOOLEAN : tell = TRUE
  OBVIOUS
<1> DEFINE f == [a \in adapters |-> LcRemove(o, tell, a)]
<1>3. s = [i \in DOMAIN ord |-> f[ord[i]]]
  BY <1>0, LcOrderIs DEF LcRemoves, LcEach, LcRemove, LcOrders
<1>4. f \in [adapters -> LcMessage]
  BY LcMessageMade DEF LcRemove
<1>5. \A a \in adapters : f[a] = LcRemove(o, tell, a)
  OBVIOUS
<1> HIDE DEF f, ord, s
<1>6. LcSays(s, adapters, LcMessage, f)
  BY <1>3, <1>4, EachSays DEF ord
<1>8. ASSUME NEW p \in LcObject, NEW a \in LcAdapter, NEW b \in adapters
      PROVE  /\ f[b] \in LcAbout(p, a) <=> o = p /\ b = a
             /\ f[b] \in LcTells(p, a) <=> o = p /\ b = a
  <2>1. LcSaid(p, a, o, b, {}, tell)
    BY LcSentAbout
  <2> QED BY <1>0, <1>5, <2>1, Zenon DEF LcSaid
<1>9. ASSUME NEW p \in LcObject, NEW a \in LcAdapter, p = o, a \in adapters
      PROVE  /\ Once(s, LcTells(p, a)) /\ ~Silent(s, LcTells(p, a))
             /\ Followed(s, LcAbout(p, a), LcTells(p, a))
  <2>1. f[a] \in LcTells(p, a) /\ LcTells(p, a) \subseteq LcAbout(p, a)
    BY <1>8, <1>9, LcTellsAbout
  <2> QED BY <1>6, <1>8, <1>9, <2>1, SaysOnce
<1>10. ASSUME NEW p \in LcObject, NEW a \in LcAdapter, ~(p = o /\ a \in adapters)
       PROVE  Silent(s, LcAbout(p, a))
  BY <1>6, <1>8, <1>10, SaysNothing
<1>11. LcRemoved(o, adapters, s)
  BY <1>6, <1>9, <1>10, Zenon DEF LcRemoved, LcSays
<1> QED BY <1>11 DEF s

LEMMA LcDestroyStays ==
  ASSUME LcInv, NEW o \in LcObject, NEW tell \in BOOLEAN, LcDestroy(o, tell)
  PROVE  LcInv'
<1>1. LcTypedClients /\ LcTypedAdapters /\ LcTypedMessages /\ LcSound /\ LcAsks
  BY DEF LcInv
<1>2. PICK adapters : adapters = LcLoaded(lcLib)
  OBVIOUS
<1>3. PICK s : s = LcRemoves(o, adapters, TRUE)
  OBVIOUS
<1>4. /\ o \in DOMAIN lcData /\ LcCall /\ lcData' = LcForget(lcData, o)
      /\ adapters = {} => tell
      /\ lcLife' = [lcLife EXCEPT ![o] = IF adapters = {} THEN "free" ELSE "destroyed"]
      /\ lcWait' = IF tell /\ adapters # {} THEN LcRemember(lcWait, o, adapters) ELSE lcWait
      /\ lcQueue' = lcQueue \o s
      /\ lcLib' = lcLib /\ lcApi' = lcApi /\ lcModem' = lcModem /\ lcTold' = lcTold
      /\ lcClient' = lcClient /\ lcMask' = lcMask /\ lcKnown' = lcKnown /\ lcPending' = lcPending
      /\ lcHeard' \subseteq lcHeard \cup {o}
  BY <1>2, <1>3 DEF LcDestroy, LcEnded, lcAdapterSide
<1>5. adapters \in SUBSET LcAdapter
  BY <1>2 DEF LcLoaded
<1>6. /\ s \in Seq(LcMessage) /\ (s = <<>> <=> adapters = {}) /\ LcRemoved(o, adapters, s)
  BY <1>3, <1>5, LcRemovesAre, Zenon DEF LcRemoved
<1>7. lcQueue \in Seq(LcMessage) /\ lcQueue' \in Seq(LcMessage)
  BY <1>1, <1>4, <1>6 DEF LcTypedMessages
<1>8. lcLife[o] = "live" /\ o \notin DOMAIN lcWait
  BY <1>1, <1>4 DEF LcTypedClients
<1>9. PICK fate \in {"free", "destroyed"} : fate = IF adapters = {} THEN "free" ELSE "destroyed"
  OBVIOUS
<1>10. \A p \in LcObject : lcLife'[p] = IF p = o THEN fate ELSE lcLife[p]
  BY <1>1, <1>4, <1>9 DEF LcTypedClients
<1>11. /\ DOMAIN lcWait' = IF tell /\ adapters # {} THEN DOMAIN lcWait \cup {o} ELSE DOMAIN lcWait
       /\ \A p \in DOMAIN lcWait' : lcWait'[p] = IF p = o THEN adapters ELSE lcWait[p]
  BY <1>4, <1>8 DEF LcRemember
<1>13. LcTypedClients'
  <2>2. ASSUME NEW p \in DOMAIN lcWait'
        PROVE  p \in LcObject /\ lcLife'[p] = "destroyed" /\ lcWait'[p] \in SUBSET LcAdapter
    <3>1. CASE p = o
      BY <1>5, <1>8, <1>9, <1>10, <1>11, <3>1
    <3>2. CASE p # o
      BY <1>1, <1>10, <1>11, <3>2 DEF LcTypedClients
    <3> QED BY <3>1, <3>2
  <2> QED BY <1>1, <1>4, <1>10, <2>2, LcCallCounts DEF LcTypedClients, LcForget, Restrict
<1>14. LcTypedAdapters' /\ LcTypedMessages' /\ LcAsks'
  BY <1>1, <1>4, <1>7 DEF LcTypedAdapters, LcTypedMessages, LcAsks, LcAsking
<1>15. ASSUME NEW p \in LcObject, NEW a \in LcAdapter
       PROVE  /\ LcIsAt(p, a)'
              /\ p # o => (Silent(lcQueue', LcTells(p, a)) <=> Silent(lcQueue, LcTells(p, a)))
              /\ p = o => (~Silent(lcQueue', LcTells(p, a)) <=> a \in adapters)
  <2> DEFINE clients == DOMAIN lcClient[a]
             life == lcLife[p]
  <2>1. /\ LcAt(lcQueue, p, a, life, clients, adapters) /\ adapters \subseteq adapters
        /\ p = o => life = "live"
    BY <1>1, <1>2, <1>8 DEF LcSound, LcIsAt
  <2> HIDE DEF clients, life
  <2>2. /\ p = o /\ a \in adapters => /\ Once(s, LcTells(p, a)) /\ ~Silent(s, LcTells(p, a))
                                      /\ Followed(s, LcAbout(p, a), LcTells(p, a))
        /\ ~(p = o /\ a \in adapters) => Silent(s, LcAbout(p, a))
    BY <1>6, Zenon DEF LcRemoved
  <2>3. CASE p = o
    <3>2. /\ LcAt(lcQueue \o s, p, a, "destroyed", clients, adapters)
          /\ ~Silent(lcQueue \o s, LcTells(p, a)) <=> a \in adapters
      BY <1>6, <1>7, <2>1, <2>2, <2>3, AtDestroyed
    <3>3. LcAt(lcQueue \o s, p, a, fate, clients, adapters)
      BY <1>9, <3>2, AtUnloaded
    <3> QED BY <1>2, <1>4, <1>10, <2>3, <3>2, <3>3 DEF LcIsAt, clients
  <2>4. CASE p # o
    <3>1. /\ LcAt(lcQueue \o s, p, a, life, clients, adapters)
          /\ Silent(lcQueue \o s, LcTells(p, a)) <=> Silent(lcQueue, LcTells(p, a))
      BY <1>6, <1>7, <2>1, <2>2, <2>4, AtQuiet
    <3> QED BY <1>2, <1>4, <1>10, <2>4, <3>1 DEF LcIsAt, clients, life
  <2> QED BY <2>3, <2>4
<1>16. LcWaits'
  <2>3. ASSUME NEW p \in DOMAIN lcWait', NEW a \in LcAdapter
        PROVE  a \in lcWait'[p] <=> ~Silent(lcQueue', LcTells(p, a))
    BY <1>1, <1>8, <1>11, <1>15 DEF LcSound, LcWaits, LcTypedClients
  <2> QED BY <2>3, Zenon DEF LcWaits
<1> QED BY <1>13, <1>14, <1>15, <1>16, Zenon DEF LcInv, LcSound

(* Every step of the clients, the adapters and the modem keeps it          *)
LEMMA LcStays == LcInv /\ [LcNext]_lcVars => LcInv'
<1> SUFFICES ASSUME LcInv, [LcNext]_lcVars PROVE LcInv'
  OBVIOUS
<1>1. CASE LcClientNext
  <2>1. PICK o \in LcObject :
          \/ \E kinds \in LcKinds : LcCreate(o, kinds) \/ LcUpdate(o, kinds)
          \/ \E tell \in BOOLEAN : LcDestroy(o, tell)
    BY <1>1 DEF LcClientNext
  <2>2. CASE \E kinds \in LcKinds : LcCreate(o, kinds) \/ LcUpdate(o, kinds)
    BY <2>2, LcKindsAssumption, LcCreateStays, LcUpdateStays
  <2>3. CASE \E tell \in BOOLEAN : LcDestroy(o, tell)
    BY <2>3, LcDestroyStays
  <2> QED BY <2>1, <2>2, <2>3
<1>2. CASE LcProcAdd
  BY <1>2, LcAddStays
<1>3. CASE LcProcRemove
  BY <1>3, LcRemoveStays
<1>4. CASE LcProcCapabilities
  BY <1>4, LcCapabilitiesStay
<1>5. CASE LcProcUp
  BY <1>5, LcUpStays
<1>6. CASE LcProcUnlock
  BY <1>6, LcUnlockStays
<1>7. CASE LcApiNext \/ LcModemNext
  BY <1>7, LcModemStays
<1>8. CASE UNCHANGED lcVars
  <2>1. /\ lcLife' = lcLife /\ lcData' = lcData /\ lcWait' = lcWait /\ lcLib' = lcLib
        /\ lcClient' = lcClient /\ lcMask' = lcMask /\ lcKnown' = lcKnown
        /\ lcPending' = lcPending /\ lcTold' = lcTold /\ lcQueue' = lcQueue /\ lcHeard' = lcHeard
        /\ lcApi' = lcApi /\ lcModem' = lcModem /\ lcEvents' = lcEvents
    BY <1>8 DEF lcVars
  <2>2. LcTypedClients' /\ LcTypedAdapters' /\ LcTypedMessages' /\ LcAsks' /\ LcSound'
    BY <2>1 DEF LcInv, LcTypedClients, LcTypedAdapters, LcTypedMessages, LcAsks, LcAsking,
             LcSound, LcIsAt, LcWaits
  <2> QED BY <2>2 DEF LcInv
<1> QED BY <1>1, <1>2, <1>3, <1>4, <1>5, <1>6, <1>7, <1>8 DEF LcNext, LcAdapterNext

LEMMA ClientsMove == [ServicesNext]_serviceVars => [LcNext]_lcVars
BY DEF ServicesNext, serviceVars, QueueStep, IpcStep, ClientsStep, SentencesStep

(* Clients that come, change and go while the messages of the adapters are *)
(* under way and the modem restarts leave neither a deleted object that    *)
(* anybody still mentions, nor an adapter that is waited for in vain, nor  *)
(* events that nobody or not everybody asked for (LocationAPI.cpp:194-395, *)
(* LocAdapterBase.cpp:391-441, LocApiBase.cpp:104-147).                    *)
THEOREM ClientsAreAlwaysThere == ServicesSpec => []ClientsAreWhoIsThere
<1>1. ServicesInit => LcInv
  BY LcBegins DEF ServicesInit
<1>2. LcInv /\ [ServicesNext]_serviceVars => LcInv'
  BY ClientsMove, LcStays
<1>3. LcInv => ClientsAreWhoIsThere
  BY LcClientsAre
<1> QED BY <1>1, <1>2, <1>3, PTL DEF ServicesSpec

-----------------------------------------------------------------------------
(* What stays true of the messages between processes: a message all of     *)
(* whose pieces were sent is still on the way with its last piece or was   *)
(* handed over, the pieces of a sender are in their order, and every piece *)
(* of a message is right behind the one before it, be that in the socket   *)
(* or in the map.  All that goes for messages before which none of the     *)
(* same key failed.                                                        *)

IpClean(i) == \A j \in 1..i : ~(ipSent[j].whole = "failed" /\ IpKey(j) = IpKey(i))
IpRun(i, m) == [l \in 1..m |-> <<i, l>>]
IpEnd(i) == <<i, ipSent[i].pieces>>
IpCame(i, m) == IpKey(i) \in DOMAIN ipPartial /\ ipPartial[IpKey(i)] = IpRun(i, m)
IpAfter(b, n, i, k) == (\E y \in 1..n : b[y] = <<i, k>>) \/ IpCame(i, k)

IpRecord == [from: IpSender, pieces: IpPieces, whole: {"no", "yes", "failed"}]

IpSending ==
  /\ ipSent \in Seq(IpRecord) /\ ipNext \in [IpSender -> 0..MaxIpPieces]
  /\ Len(ipSent) <= MaxIpMessages
  /\ \A i \in DOMAIN ipSent : ipSent[i].whole = "no" =>
       /\ ipNext[ipSent[i].from] \in 1..ipSent[i].pieces
       /\ \A j \in DOMAIN ipSent : ipSent[j].from = ipSent[i].from => j <= i
  /\ \A s \in IpSender : ipNext[s] # 0 =>
       \E i \in DOMAIN ipSent : ipSent[i].from = s /\ ipSent[i].whole = "no"

IpOnWay(p) ==
  /\ p[1] \in DOMAIN ipSent /\ p[2] \in 1..ipSent[p[1]].pieces
  /\ p[2] = ipSent[p[1]].pieces => ipSent[p[1]].whole = "yes"
  /\ ipSent[p[1]].whole = "no" => p[2] < ipNext[ipSent[p[1]].from]

IpPast(p, q) ==
  ipSent[p[1]].from = ipSent[q[1]].from => p[1] < q[1] \/ (p[1] = q[1] /\ p[2] < q[2])

IpBuffered(b) ==
  /\ b \in Seq(IpPiece \cup {IpAbort})
  /\ \A x \in DOMAIN b : b[x] # IpAbort =>
       /\ IpOnWay(b[x])
       /\ \A y \in DOMAIN b : x < y /\ b[y] # IpAbort => IpPast(b[x], b[y])
       /\ ipSent[b[x][1]].whole = "yes" => \E z \in DOMAIN b : x <= z /\ b[z] = IpEnd(b[x][1])

IpLinked(b) ==
  \A i \in DOMAIN ipSent : IpClean(i) =>
    /\ \A x \in DOMAIN b : b[x][1] = i /\ b[x][2] > 1 => IpAfter(b, x - 1, i, b[x][2] - 1)
    /\ ipSent[i].whole = "no" /\ ipNext[ipSent[i].from] > 1 =>
         IpAfter(b, Len(b), i, ipNext[ipSent[i].from] - 1)

IpBegun(b, i, m) ==
  /\ ipPartial[IpKey(i)] = IpRun(i, m)
  /\ \A x \in DOMAIN b : b[x][1] = i => m < b[x][2]
  /\ ipSent[i].whole = "no" => m < ipNext[ipSent[i].from]
  /\ ipSent[i].whole = "yes" => \E z \in DOMAIN b : b[z] = IpEnd(i)

IpGathered(b) ==
  \A key \in DOMAIN ipPartial :
    /\ ipPartial[key] # <<>> /\ ipPartial[key][1][1] \in DOMAIN ipSent
    /\ \A i \in DOMAIN ipSent : i = ipPartial[key][1][1] =>
         /\ IpKey(i) = key
         /\ \A x \in DOMAIN b : b[x] # IpAbort /\ IpKey(b[x][1]) = key => i <= b[x][1]
         /\ IpClean(i) => \E m \in 1..(ipSent[i].pieces - 1) : IpBegun(b, i, m)

(* The l-th message handed over is i, and no piece of it is left           *)
IpIsHanded(r, l, i) ==
  /\ ipGot[r][l] = IpRun(i, ipSent[i].pieces) /\ ipSent[i].whole = "yes"
  /\ \A m \in DOMAIN ipGot[r] : ipGot[r][m][1][1] = i => m = l
  /\ ipListener[r] # "ended" =>
       /\ \A x \in DOMAIN ipBuffer[r] : ipBuffer[r][x][1] # i
       /\ IpKey(i) \in DOMAIN ipPartial => ipPartial[IpKey(i)][1][1] # i

IpHanded(r) ==
  /\ ipGot[r] \in Seq(Seq(IpPiece))
  /\ \A l \in DOMAIN ipGot[r] :
       /\ ipGot[r][l] # <<>> /\ ipGot[r][l][1][1] \in DOMAIN ipSent
       /\ \A i \in DOMAIN ipSent :
            i = ipGot[r][l][1][1] /\ IpClean(i) => IpIsHanded(r, l, i)

IpReceiving(r) ==
  /\ IpHanded(r)
  /\ \A b \in {ipBuffer[r]} :
       IpBuffered(b) /\ (ipListener[r] # "ended" => IpLinked(b) /\ IpGathered(b))

IpTypes ==
  /\ ipBuffer = [r \in IpRecver |-> ipBuffer[r]] /\ ipGot = [r \in IpRecver |-> ipGot[r]]
  /\ ipListener \in [IpRecver -> {"no", "listening", "ended"}]
  /\ ipStopped \in [IpRecver -> {"no", "yes", "failed"}] /\ ipAddr \in [IpRecver -> IpSender \cup IpRecver]
  /\ \A key \in DOMAIN ipPartial :
       key \in IpSender \X IpPieces /\ ipPartial[key] \in Seq(IpPiece)

IpInv == IpSending /\ IpTypes /\ \A r \in IpRecver : IpReceiving(r)

(* Pieces and the message a sender is at                                   *)
LEMMA IpPieceIs ==
  ASSUME NEW p \in IpPiece \cup {IpAbort}
  PROVE  /\ p = <<p[1], p[2]>> /\ p[1] \in Nat /\ p[2] \in Nat
         /\ (p = IpAbort <=> p[1] = 0) /\ (p # IpAbort => p \in IpPiece)
  BY IpBoundsAssumption DEF IpPiece, IpAbort, IpMessages, IpPieces

LEMMA IpSentIs ==
  ASSUME IpSending
  PROVE  /\ Len(ipSent) \in Nat /\ DOMAIN ipSent = 1..Len(ipSent)
         /\ \A i \in DOMAIN ipSent :
              /\ i \in Nat \ {0} /\ ipSent[i] \in IpRecord /\ ipSent[i].from \in IpSender
              /\ ipSent[i].pieces \in Nat \ {0}
              /\ ipSent[i].pieces <= MaxIpPieces
              /\ ipSent[i].whole \in {"no", "yes", "failed"}
              /\ ipNext[ipSent[i].from] \in Nat
<1>1. ipSent \in Seq(IpRecord) /\ ipNext \in [IpSender -> 0..MaxIpPieces]
  BY DEF IpSending
<1>4. ASSUME NEW q \in IpRecord
      PROVE  /\ q.from \in IpSender /\ q.pieces \in Nat \ {0} /\ q.pieces <= MaxIpPieces
             /\ q.whole \in {"no", "yes", "failed"} /\ ipNext[q.from] \in Nat
  BY <1>1, IpBoundsAssumption DEF IpRecord, IpPieces
<1> QED BY <1>1, <1>4

LEMMA IpCurrentIs ==
  ASSUME IpSending, NEW s \in IpSender, ipNext[s] # 0
  PROVE  /\ IpCurrent(s) \in DOMAIN ipSent /\ ipSent[IpCurrent(s)].from = s
         /\ ipSent[IpCurrent(s)].whole = "no"
         /\ \A j \in DOMAIN ipSent : ipSent[j].from = s => j <= IpCurrent(s)
<1>1. PICK i \in DOMAIN ipSent : ipSent[i].from = s /\ ipSent[i].whole = "no"
  BY DEF IpSending
<1>2. \A j \in DOMAIN ipSent : ipSent[j].from = s => j <= i
  BY <1>1 DEF IpSending
<1> QED BY <1>1, <1>2, IpSentIs DEF IpCurrent

(* The messages sent so far stay, and only change by being sent to the end *)
IpGrows ==
  \A j \in DOMAIN ipSent :
    /\ j \in DOMAIN ipSent' /\ ipSent'[j].from = ipSent[j].from
    /\ ipSent'[j].pieces = ipSent[j].pieces
    /\ ipSent[j].whole = "failed" => ipSent'[j].whole = "failed"

LEMMA IpGrown ==
  ASSUME IpSending, IpGrows, NEW i \in DOMAIN ipSent
  PROVE  /\ i \in DOMAIN ipSent' /\ IpKey(i)' = IpKey(i) /\ IpEnd(i)' = IpEnd(i)
         /\ IpClean(i)' => IpClean(i)
         /\ ipSent'[i].from = ipSent[i].from /\ ipSent'[i].pieces = ipSent[i].pieces
  BY IpSentIs DEF IpGrows, IpKey, IpClean, IpEnd

(* What the senders do to the datagrams b of a receiver, which become c:   *)
(* nothing, or a piece or an abort is put behind them                      *)
IpPut(i, b, c) == c = Append(b, <<i, ipNext[ipSent[i].from]>>)

IpWent(i) ==
  LET s == ipSent[i].from
  IN \/ ipSent'[i].whole = "no" /\ ipNext[s] < ipSent[i].pieces /\ ipNext'[s] = ipNext[s] + 1
     \/ ipSent'[i].whole = "yes" /\ ipNext[s] = ipSent[i].pieces

IpSends(b, c) ==
  /\ IpGrows
  /\ \A i \in DOMAIN ipSent' :
       \/ i \in DOMAIN ipSent
       \/ i # 0 /\ ipSent'[i].whole = "no" /\ ipNext'[ipSent'[i].from] = 1
  /\ \A i \in DOMAIN ipSent :
       /\ ipSent[i].whole = "yes" => ipSent'[i].whole = "yes"
       /\ ipSent[i].whole = "no" =>
            \/ ipSent'[i].whole = "no" /\ ipNext'[ipSent[i].from] = ipNext[ipSent[i].from]
            \/ ipSent'[i].whole = "failed"
            \/ IpPut(i, b, c) /\ IpWent(i)
  /\ \/ c = b
     \/ c = Append(b, IpAbort)
     \/ \E i \in DOMAIN ipSent : ipSent[i].whole = "no" /\ IpPut(i, b, c) /\ IpWent(i)

IpPuts(b, c) ==
  /\ \A x \in DOMAIN b : x \in DOMAIN c /\ c[x] = b[x] /\ x <= Len(b) /\ x \in Nat /\ x > 0
  /\ Len(b) \in Nat /\ Len(c) \in Nat /\ Len(b) <= Len(c) /\ DOMAIN c = 1..Len(c)
  /\ \A x \in DOMAIN c :
       \/ x \in DOMAIN b /\ c[x] = b[x]
       \/ /\ x = Len(b) + 1 /\ x = Len(c)
          /\ \/ c[x] = IpAbort
             \/ \E i \in DOMAIN ipSent : /\ ipSent[i].whole = "no" /\ IpWent(i)
                                         /\ c[x] = <<i, ipNext[ipSent[i].from]>>
  /\ \A i \in DOMAIN ipSent : ipSent[i].whole = "no" /\ IpPut(i, b, c) =>
       /\ Len(c) = Len(b) + 1 /\ Len(b) + 1 \in DOMAIN c
       /\ c[Len(b) + 1] = <<i, ipNext[ipSent[i].from]>>

LEMMA IpPutsAre ==
  ASSUME IpSending, NEW b \in Seq(IpPiece \cup {IpAbort}), NEW c, IpSends(b, c)
  PROVE  c \in Seq(IpPiece \cup {IpAbort}) /\ IpPuts(b, c)
<1>1. PICK n \in Nat : n = Len(b) /\ DOMAIN b = 1..n
  OBVIOUS
<1>2. ASSUME NEW p \in IpPiece \cup {IpAbort}, c = Append(b, p)
      PROVE  /\ DOMAIN c = 1..(n + 1) /\ Len(c) = n + 1 /\ n + 1 \in DOMAIN c /\ c[n + 1] = p
             /\ \A x \in DOMAIN b : x \in DOMAIN c /\ c[x] = b[x]
             /\ \A x \in DOMAIN c : x \in DOMAIN b \/ x = n + 1
  BY <1>1, <1>2, AppendProperties
<1>3. ASSUME NEW i \in DOMAIN ipSent, ipSent[i].whole = "no"
      PROVE  <<i, ipNext[ipSent[i].from]>> \in IpPiece \cup {IpAbort}
  BY <1>3, IpBoundsAssumption, IpSentIs DEF IpSending, IpPiece, IpMessages, IpPieces
<1>4. \A i \in DOMAIN ipSent : ipSent[i].whole = "no" /\ IpPut(i, b, c) =>
        /\ Len(c) = n + 1 /\ n + 1 \in DOMAIN c
        /\ c[n + 1] = <<i, ipNext[ipSent[i].from]>>
  BY <1>2, <1>3 DEF IpPut
<1>5. CASE c = b
  BY <1>1, <1>4, <1>5 DEF IpPuts
<1>6. CASE c = Append(b, IpAbort)
  BY <1>1, <1>2, <1>4, <1>6 DEF IpPuts
<1>7. CASE \E i \in DOMAIN ipSent : ipSent[i].whole = "no" /\ IpPut(i, b, c) /\ IpWent(i)
  <2>1. PICK i \in DOMAIN ipSent : ipSent[i].whole = "no" /\ IpPut(i, b, c) /\ IpWent(i)
    BY <1>7
  <2>2. c = Append(b, <<i, ipNext[ipSent[i].from]>>)
    BY <2>1 DEF IpPut
  <2>3. c \in Seq(IpPiece \cup {IpAbort})
    BY <1>3, <2>1, <2>2
  <2>4. /\ DOMAIN c = 1..(n + 1) /\ Len(c) = n + 1 /\ n + 1 \in DOMAIN c
        /\ c[n + 1] = <<i, ipNext[ipSent[i].from]>>
        /\ \A x \in DOMAIN b : x \in DOMAIN c /\ c[x] = b[x]
        /\ \A x \in DOMAIN c : x \in DOMAIN b \/ x = n + 1
    BY <1>2, <1>3, <2>1, <2>2
  <2> QED BY <1>1, <1>4, <2>1, <2>3, <2>4 DEF IpPuts
<1> QED BY <1>5, <1>6, <1>7 DEF IpSends

(* The pieces under way stay in order and stay complete                    *)
LEMMA IpBufferedStays ==
  ASSUME IpSending, NEW b, IpBuffered(b), NEW c, IpSends(b, c)
  PROVE  IpBuffered(c)'
<1>1. b \in Seq(IpPiece \cup {IpAbort})
  BY DEF IpBuffered
<1>2. c \in Seq(IpPiece \cup {IpAbort}) /\ IpPuts(b, c)
  BY <1>1, IpPutsAre
<1>3. \A i \in DOMAIN ipSent :
        /\ i \in DOMAIN ipSent' /\ IpEnd(i)' = IpEnd(i) /\ i \in Nat \ {0}
        /\ ipSent'[i].from = ipSent[i].from /\ ipSent'[i].pieces = ipSent[i].pieces
        /\ ipSent[i].pieces \in Nat \ {0} /\ ipNext[ipSent[i].from] \in Nat
        /\ ipSent[i].whole \in {"no", "yes", "failed"}
        /\ ipSent[i].whole = "yes" => ipSent'[i].whole = "yes"
        /\ ipSent[i].whole = "failed" => ipSent'[i].whole = "failed"
        /\ ipSent[i].whole = "no" =>
             \/ ipSent'[i].whole = "no" /\ ipNext'[ipSent[i].from] = ipNext[ipSent[i].from]
             \/ ipSent'[i].whole = "failed"
             \/ IpPut(i, b, c) /\ IpWent(i)
  BY IpGrown, IpSentIs DEF IpSends, IpGrows
<1>4. \A i \in DOMAIN ipSent : ipSent[i].whole = "no" =>
        /\ ipNext[ipSent[i].from] \in 1..ipSent[i].pieces
        /\ \A j \in DOMAIN ipSent : ipSent[j].from = ipSent[i].from => j <= i
  BY DEF IpSending
<1>5. PICK n \in Nat : n = Len(b) /\ Len(c) \in Nat
  BY <1>1, <1>2
<1>6. /\ \A x \in DOMAIN b : x \in DOMAIN c /\ c[x] = b[x] /\ x <= n /\ x \in Nat
      /\ \A x \in DOMAIN c : (x \in DOMAIN b /\ c[x] = b[x]) \/ (x = n + 1 /\ x = Len(c))
      /\ \A x \in DOMAIN c : x \notin DOMAIN b /\ c[x] # IpAbort =>
             \E i \in DOMAIN ipSent : /\ ipSent[i].whole = "no" /\ IpWent(i)
                                      /\ c[x] = <<i, ipNext[ipSent[i].from]>>
      /\ \A i \in DOMAIN ipSent : ipSent[i].whole = "no" /\ IpPut(i, b, c) =>
             n + 1 \in DOMAIN c /\ c[n + 1] = <<i, ipNext[ipSent[i].from]>>
  BY <1>2, <1>5 DEF IpPuts
<1>7. ASSUME NEW x \in DOMAIN b, b[x] # IpAbort
      PROVE  /\ IpOnWay(b[x]) /\ b[x][1] \in DOMAIN ipSent /\ b[x][2] \in Nat
             /\ \A y \in DOMAIN b : x < y /\ b[y] # IpAbort => IpPast(b[x], b[y])
             /\ ipSent[b[x][1]].whole = "yes" => \E z \in DOMAIN b : x <= z /\ b[z] = IpEnd(b[x][1])
  BY <1>1, <1>7, IpPieceIs DEF IpBuffered, IpOnWay
<1>8. ASSUME NEW i \in DOMAIN ipSent, ipSent[i].whole = "no", IpWent(i),
             NEW p, p = <<i, ipNext[ipSent[i].from]>>
      PROVE  IpOnWay(p)' /\ (ipSent'[i].whole = "yes" => p = IpEnd(i))
  <2>1. ipNext[ipSent[i].from] \in 1..ipSent[i].pieces /\ ipSent[i].pieces \in Nat
    BY <1>3, <1>4, <1>8
  <2>2. p[1] = i /\ p[2] = ipNext[ipSent[i].from]
    BY <1>8
  <2>3. CASE ipSent'[i].whole = "no" /\ ipNext[ipSent[i].from] < ipSent[i].pieces
             /\ ipNext'[ipSent[i].from] = ipNext[ipSent[i].from] + 1
    BY <1>3, <2>1, <2>2, <2>3 DEF IpOnWay
  <2>4. CASE ipSent'[i].whole = "yes" /\ ipNext[ipSent[i].from] = ipSent[i].pieces
    BY <1>3, <1>8, <2>1, <2>2, <2>4 DEF IpOnWay, IpEnd
  <2> QED BY <1>8, <2>3, <2>4 DEF IpWent
<1>9. ASSUME NEW x \in DOMAIN b, b[x] # IpAbort PROVE IpOnWay(b[x])'
  <2>1. PICK i \in DOMAIN ipSent : i = b[x][1]
    BY <1>7, <1>9
  <2>2. PICK k \in Nat : k = b[x][2]
    BY <1>7, <1>9
  <2>3. /\ k \in 1..ipSent[i].pieces /\ (k = ipSent[i].pieces => ipSent[i].whole = "yes")
        /\ ipSent[i].whole = "no" => k < ipNext[ipSent[i].from]
    BY <1>7, <1>9, <2>1, <2>2 DEF IpOnWay
  <2>4. ipSent'[i].whole = "no" => k < ipNext'[ipSent[i].from]
    <3> SUFFICES ASSUME ipSent'[i].whole = "no" PROVE k < ipNext'[ipSent[i].from]
      OBVIOUS
    <3> QED BY <1>3, <2>3 DEF IpWent
  <2> QED BY <1>3, <2>1, <2>2, <2>3, <2>4 DEF IpOnWay
<1>10. ASSUME NEW x \in DOMAIN c, c[x] # IpAbort
       PROVE  /\ IpOnWay(c[x])'
              /\ \A y \in DOMAIN c : x < y /\ c[y] # IpAbort => IpPast(c[x], c[y])'
              /\ ipSent'[c[x][1]].whole = "yes" => \E z \in DOMAIN c : x <= z /\ c[z] = IpEnd(c[x][1])'
  <2>1. CASE x \in DOMAIN b
    <3>1. PICK i \in DOMAIN ipSent : i = b[x][1]
      BY <1>6, <1>7, <1>10, <2>1
    <3>2. c[x] = b[x] /\ b[x] # IpAbort /\ IpOnWay(b[x])' /\ x <= n /\ x \in Nat
      BY <1>6, <1>9, <1>10, <2>1
    <3>3. ASSUME NEW y \in DOMAIN c, x < y, c[y] # IpAbort PROVE IpPast(b[x], c[y])'
      <4>1. CASE y \in DOMAIN b
        <5>1. c[y] = b[y] /\ b[y][1] \in DOMAIN ipSent /\ IpPast(b[x], b[y])
          BY <1>6, <1>7, <2>1, <3>2, <3>3, <4>1
        <5> QED BY <1>3, <3>1, <5>1 DEF IpPast
      <4>2. CASE y \notin DOMAIN b
        <5>1. PICK j \in DOMAIN ipSent : ipSent[j].whole = "no" /\ c[y] = <<j, ipNext[ipSent[j].from]>>
          BY <1>6, <3>3, <4>2
        <5>2. c[y][1] = j /\ c[y][2] = ipNext[ipSent[j].from]
          BY <5>1
        <5>3. ASSUME ipSent[i].from = ipSent[j].from
              PROVE  i < j \/ (i = j /\ b[x][2] < c[y][2])
          <6>2. i = j => b[x][2] < ipNext[ipSent[j].from]
            BY <1>7, <2>1, <3>1, <3>2, <5>1 DEF IpOnWay
          <6> QED BY <1>3, <1>4, <5>1, <5>2, <5>3, <6>2
        <5> QED BY <1>3, <3>1, <5>2, <5>3 DEF IpPast
      <4> QED BY <4>1, <4>2
    <3>4. ASSUME ipSent'[i].whole = "yes" PROVE \E z \in DOMAIN c : x <= z /\ c[z] = IpEnd(i)'
      <4>1. CASE ipSent[i].whole = "yes"
        <5>1. PICK z \in DOMAIN b : x <= z /\ b[z] = IpEnd(i)
          BY <1>7, <2>1, <3>1, <3>2, <4>1
        <5> QED BY <1>3, <1>6, <5>1
      <4>2. CASE ipSent[i].whole = "no"
        <5>1. IpPut(i, b, c) /\ IpWent(i)
          BY <1>3, <3>4, <4>2
        <5>2. n + 1 \in DOMAIN c /\ c[n + 1] = <<i, ipNext[ipSent[i].from]>>
          BY <1>6, <4>2, <5>1
        <5>3. c[n + 1] = IpEnd(i)
          BY <1>8, <3>4, <4>2, <5>1, <5>2
        <5> QED BY <1>3, <3>2, <5>2, <5>3
      <4> QED BY <1>3, <3>4, <4>1, <4>2
    <3> QED BY <3>1, <3>2, <3>3, <3>4
  <2>2. CASE x \notin DOMAIN b
    BY <1>3, <1>6, <1>8, <1>10, <2>2
  <2> QED BY <2>1, <2>2
<1> QED BY <1>2, <1>10 DEF IpBuffered

(* Every piece stays right behind the one before it, and so does what came *)
(* already                                                                 *)
LEMMA IpLinkedStays ==
  ASSUME IpSending, NEW b, IpBuffered(b), NEW c, IpSends(b, c), ipPartial' = ipPartial, IpLinked(b)
  PROVE  IpLinked(c)'
<1>0. b \in Seq(IpPiece \cup {IpAbort})
  BY DEF IpBuffered
<1>1. c \in Seq(IpPiece \cup {IpAbort}) /\ IpPuts(b, c)
  BY <1>0, IpPutsAre
<1>2. \A i \in DOMAIN ipSent :
        /\ IpKey(i)' = IpKey(i) /\ (IpClean(i)' => IpClean(i)) /\ i \in Nat \ {0}
        /\ ipSent'[i].from = ipSent[i].from /\ ipNext[ipSent[i].from] \in Nat
        /\ ipSent[i].whole \in {"no", "yes", "failed"}
        /\ ipSent[i].whole = "yes" => ipSent'[i].whole = "yes"
        /\ ipSent[i].whole = "failed" => ipSent'[i].whole = "failed"
        /\ ipSent[i].whole = "no" =>
             \/ ipSent'[i].whole = "no" /\ ipNext'[ipSent[i].from] = ipNext[ipSent[i].from]
             \/ ipSent'[i].whole = "failed"
             \/ IpPut(i, b, c) /\ IpWent(i)
  <2>1. IpGrows
    BY DEF IpSends
  <2> QED BY <2>1, IpGrown, IpSentIs DEF IpSends, IpGrows
<1>3. PICK n \in Nat : n = Len(b) /\ Len(c) \in Nat /\ DOMAIN b = 1..n
  BY <1>0, <1>1
<1>4. /\ \A x \in 1..n : x \in DOMAIN c /\ c[x] = b[x]
      /\ n <= Len(c)
      /\ \A x \in DOMAIN c : x \in 1..n \/ (x = n + 1 /\ x = Len(c))
      /\ \A x \in DOMAIN c : x \notin 1..n /\ c[x] # IpAbort =>
             \E i \in DOMAIN ipSent : /\ ipSent[i].whole = "no" /\ IpWent(i)
                                      /\ c[x] = <<i, ipNext[ipSent[i].from]>>
      /\ \A i \in DOMAIN ipSent : ipSent[i].whole = "no" /\ IpPut(i, b, c) =>
             Len(c) = n + 1 /\ c[n + 1] = <<i, ipNext[ipSent[i].from]>>
  BY <1>1, <1>3 DEF IpPuts
<1>5. ASSUME NEW i \in DOMAIN ipSent, NEW m \in 0..n, NEW l \in Nat, m <= l, NEW k, IpAfter(b, m, i, k)
      PROVE  IpAfter(c, l, i, k)'
  <2>1. CASE \E y \in 1..m : b[y] = <<i, k>>
    <3>1. PICK y \in 1..m : b[y] = <<i, k>>
      BY <2>1
    <3>2. y \in 1..l /\ c[y] = <<i, k>>
      BY <1>4, <1>5, <3>1
    <3> QED BY <3>2 DEF IpAfter
  <2>2. CASE IpCame(i, k)
    BY <1>2, <2>2 DEF IpCame, IpAfter, IpRun
  <2> QED BY <1>5, <2>1, <2>2 DEF IpAfter
<1>6. \A x \in DOMAIN c : c[x][1] = 0 \/ c[x][1] \in DOMAIN ipSent
  <2> SUFFICES ASSUME NEW x \in DOMAIN c, c[x][1] # 0 PROVE c[x][1] \in DOMAIN ipSent
    OBVIOUS
  <2>1. c[x] # IpAbort
    BY DEF IpAbort
  <2>2. CASE x \in 1..n
    BY <1>3, <1>4, <2>1, <2>2 DEF IpBuffered, IpOnWay
  <2>3. CASE x \notin 1..n
    <3>1. PICK i \in DOMAIN ipSent : c[x] = <<i, ipNext[ipSent[i].from]>>
      BY <1>4, <2>1, <2>3
    <3> QED BY <3>1
  <2> QED BY <2>2, <2>3
<1>7. ASSUME NEW i \in DOMAIN ipSent, IpClean(i)
      PROVE  /\ \A x \in DOMAIN b : b[x][1] = i /\ b[x][2] > 1 => IpAfter(b, x - 1, i, b[x][2] - 1)
             /\ ipSent[i].whole = "no" /\ ipNext[ipSent[i].from] > 1 =>
                  IpAfter(b, n, i, ipNext[ipSent[i].from] - 1)
  BY <1>3, <1>7 DEF IpLinked
<1>8. ASSUME NEW i \in DOMAIN ipSent', IpClean(i)', NEW x \in DOMAIN c, c[x][1] = i, c[x][2] > 1,
             NEW k, k = c[x][2] - 1
      PROVE  IpAfter(c, x - 1, i, k)'
  <2>1. i \in DOMAIN ipSent
    BY <1>6, <1>8 DEF IpSends
  <2>2. IpClean(i)
    BY <1>2, <1>8, <2>1
  <2>3. CASE x \in 1..n
    <3>1. IpAfter(b, x - 1, i, k)
      BY <1>3, <1>4, <1>7, <1>8, <2>1, <2>2, <2>3
    <3>2. x - 1 \in 0..n /\ x - 1 \in Nat
      BY <1>3, <2>3
    <3> QED BY <1>5, <2>1, <3>1, <3>2
  <2>4. CASE x \notin 1..n
    <3>1. c[x] # IpAbort
      BY <1>2, <1>8, <2>1 DEF IpAbort
    <3>2. PICK j \in DOMAIN ipSent : ipSent[j].whole = "no" /\ c[x] = <<j, ipNext[ipSent[j].from]>>
      BY <1>4, <2>4, <3>1
    <3>3. j = i /\ c[x][2] = ipNext[ipSent[i].from]
      BY <1>8, <3>2
    <3>4. IpAfter(b, n, i, k)
      BY <1>7, <1>8, <2>1, <2>2, <3>2, <3>3
    <3>5. x - 1 = n /\ n \in 0..n
      BY <1>4, <2>4
    <3> QED BY <1>5, <2>1, <3>4, <3>5
  <2> QED BY <2>3, <2>4
<1>9. ASSUME NEW i \in DOMAIN ipSent', IpClean(i)', ipSent'[i].whole = "no",
             ipNext'[ipSent'[i].from] > 1, NEW k, k = ipNext'[ipSent'[i].from] - 1
      PROVE  IpAfter(c, Len(c), i, k)'
  <2>1. i \in DOMAIN ipSent
    BY <1>9 DEF IpSends
  <2>2. IpClean(i) /\ ipSent[i].whole = "no" /\ ipSent'[i].from = ipSent[i].from
    BY <1>2, <1>9, <2>1
  <2>3. CASE ipNext'[ipSent[i].from] = ipNext[ipSent[i].from]
    <3>1. IpAfter(b, n, i, k)
      BY <1>7, <1>9, <2>1, <2>2, <2>3
    <3>2. n \in 0..n /\ n <= Len(c) /\ Len(c) \in Nat
      BY <1>3, <1>4
    <3> QED BY <1>5, <2>1, <3>1, <3>2
  <2>4. CASE IpPut(i, b, c) /\ IpWent(i)
    <3>1. Len(c) = n + 1 /\ c[n + 1] = <<i, ipNext[ipSent[i].from]>>
      BY <1>4, <2>1, <2>2, <2>4
    <3>2. ipNext'[ipSent[i].from] = ipNext[ipSent[i].from] + 1
      BY <1>9, <2>4 DEF IpWent
    <3>3. c[n + 1] = <<i, k>> /\ n + 1 \in 1..Len(c)
      BY <1>2, <1>9, <2>1, <2>2, <3>1, <3>2
    <3> QED BY <3>3 DEF IpAfter
  <2> QED BY <1>2, <1>9, <2>1, <2>2, <2>3, <2>4
<1>10. ASSUME NEW i \in DOMAIN ipSent', IpClean(i)'
       PROVE  /\ \A x \in DOMAIN c : c[x][1] = i /\ c[x][2] > 1 => IpAfter(c, x - 1, i, c[x][2] - 1)'
              /\ \A k : /\ ipSent'[i].whole = "no" /\ ipNext'[ipSent'[i].from] > 1
                       /\ k = ipNext'[ipSent'[i].from] - 1
                       => IpAfter(c, Len(c), i, k)'
  BY <1>8, <1>9, <1>10
<1> QED BY <1>10 DEF IpLinked, IpAfter, IpCame

LEMMA IpGatheredStays ==
  ASSUME IpSending, NEW b, IpBuffered(b), NEW c, IpSends(b, c), ipPartial' = ipPartial, IpGathered(b)
  PROVE  IpGathered(c)'
<1>0. b \in Seq(IpPiece \cup {IpAbort})
  BY DEF IpBuffered
<1>1. c \in Seq(IpPiece \cup {IpAbort}) /\ IpPuts(b, c)
  BY <1>0, IpPutsAre
<1>2. \A i \in DOMAIN ipSent :
        /\ i \in DOMAIN ipSent' /\ IpKey(i)' = IpKey(i) /\ IpEnd(i)' = IpEnd(i)
        /\ (IpClean(i)' => IpClean(i)) /\ i \in Nat \ {0}
        /\ ipSent'[i].from = ipSent[i].from /\ ipNext[ipSent[i].from] \in Nat
        /\ ipSent'[i].pieces = ipSent[i].pieces
        /\ ipSent[i].whole \in {"no", "yes", "failed"}
        /\ ipSent[i].whole = "yes" => ipSent'[i].whole = "yes"
        /\ ipSent[i].whole = "failed" => ipSent'[i].whole = "failed"
        /\ ipSent[i].whole = "no" =>
             \/ ipSent'[i].whole = "no" /\ ipNext'[ipSent[i].from] = ipNext[ipSent[i].from]
             \/ ipSent'[i].whole = "failed"
             \/ IpPut(i, b, c) /\ IpWent(i)
  BY IpGrown, IpSentIs DEF IpSends, IpGrows
<1>3. PICK n \in Nat : n = Len(b) /\ Len(c) \in Nat /\ DOMAIN b = 1..n
  BY <1>0, <1>1
<1>4. /\ \A x \in DOMAIN b : x \in DOMAIN c /\ c[x] = b[x]
      /\ \A x \in DOMAIN c : (x \in DOMAIN b /\ c[x] = b[x]) \/ (x \notin DOMAIN b /\ x = n + 1)
      /\ \A x \in DOMAIN c : x \notin DOMAIN b /\ c[x] # IpAbort =>
             \E i \in DOMAIN ipSent : /\ ipSent[i].whole = "no" /\ IpWent(i)
                                      /\ c[x] = <<i, ipNext[ipSent[i].from]>>
      /\ \A i \in DOMAIN ipSent : ipSent[i].whole = "no" /\ IpPut(i, b, c) =>
             n + 1 \in DOMAIN c /\ c[n + 1] = <<i, ipNext[ipSent[i].from]>>
  BY <1>1, <1>3 DEF IpPuts
<1>6. ASSUME NEW i \in DOMAIN ipSent, NEW m \in Nat, IpBegun(b, i, m) PROVE IpBegun(c, i, m)'
  <2>2. ASSUME NEW x \in DOMAIN c, c[x][1] = i PROVE m < c[x][2]
    BY <1>2, <1>4, <1>6, <2>2 DEF IpBegun, IpAbort
  <2>3. ASSUME ipSent'[i].whole = "no" PROVE m < ipNext'[ipSent'[i].from]
    BY <1>2, <1>6, <2>3 DEF IpBegun, IpWent
  <2>4. ASSUME ipSent'[i].whole = "yes" PROVE \E z \in DOMAIN c : c[z] = IpEnd(i)'
    <3>1. CASE ipSent[i].whole = "yes"
      BY <1>2, <1>4, <1>6, <3>1 DEF IpBegun
    <3>2. CASE ipSent[i].whole = "no"
      <4>1. IpPut(i, b, c) /\ IpWent(i)
        BY <1>2, <2>4, <3>2
      <4>2. n + 1 \in DOMAIN c /\ c[n + 1] = <<i, ipNext[ipSent[i].from]>>
        BY <1>4, <3>2, <4>1
      <4> QED BY <1>2, <2>4, <4>1, <4>2 DEF IpEnd, IpWent
    <3> QED BY <1>2, <2>4, <3>1, <3>2
  <2> QED BY <1>2, <1>6, <2>2, <2>3, <2>4 DEF IpBegun, IpRun
<1>7. ASSUME NEW key \in DOMAIN ipPartial, NEW i \in DOMAIN ipSent, i = ipPartial[key][1][1]
      PROVE  /\ IpKey(i)' = key
             /\ \A x \in DOMAIN c : c[x] # IpAbort /\ IpKey(c[x][1])' = key => i <= c[x][1]
             /\ IpClean(i)' => \E m \in 1..(ipSent'[i].pieces - 1) : IpBegun(c, i, m)'
  <2>1. /\ IpKey(i) = key
        /\ \A x \in DOMAIN b : b[x] # IpAbort /\ IpKey(b[x][1]) = key => i <= b[x][1]
        /\ IpClean(i) => \E m \in 1..(ipSent[i].pieces - 1) : IpBegun(b, i, m)
    BY <1>7 DEF IpGathered
  <2>2. ASSUME NEW x \in DOMAIN c, c[x] # IpAbort, IpKey(c[x][1])' = key PROVE i <= c[x][1]
    <3>1. CASE x \in DOMAIN b
      BY <1>2, <1>4, <2>1, <2>2, <3>1 DEF IpBuffered, IpOnWay
    <3>2. CASE x \notin DOMAIN b
      BY <1>2, <1>4, <2>1, <2>2, <3>2 DEF IpKey, IpSending
    <3> QED BY <3>1, <3>2
  <2>3. ASSUME IpClean(i)' PROVE \E m \in 1..(ipSent'[i].pieces - 1) : IpBegun(c, i, m)'
    BY <1>2, <1>6, <2>1, <2>3
  <2> QED BY <1>2, <2>1, <2>2, <2>3
<1> QED BY <1>2, <1>7 DEF IpGathered

LEMMA IpHandedStays ==
  ASSUME IpSending, NEW r \in IpRecver, NEW b, b = ipBuffer[r], NEW c, c = ipBuffer'[r],
         IpBuffered(b), IpSends(b, c), ipPartial' = ipPartial, ipGot' = ipGot,
         ipListener'[r] = "ended" \/ ipListener[r] # "ended", IpHanded(r)
  PROVE  IpHanded(r)'
<1>1. IpPuts(b, c)
  BY IpPutsAre DEF IpBuffered
<1>2. \A i \in DOMAIN ipSent :
        /\ i \in DOMAIN ipSent' /\ IpKey(i)' = IpKey(i)
        /\ (IpClean(i)' => IpClean(i)) /\ i # 0
        /\ ipSent'[i].pieces = ipSent[i].pieces
        /\ ipSent[i].whole = "yes" => ipSent'[i].whole = "yes"
  BY IpGrown, IpSentIs DEF IpSends
<1>4. ASSUME NEW l \in DOMAIN ipGot[r], NEW i \in DOMAIN ipSent, i = ipGot[r][l][1][1], IpClean(i)'
      PROVE  IpIsHanded(r, l, i)'
  <2>1. IpIsHanded(r, l, i)
    BY <1>2, <1>4 DEF IpHanded
  <2>2. ASSUME ipListener'[r] # "ended", NEW x \in DOMAIN c, c[x][1] = i PROVE FALSE
    BY <1>1, <1>2, <2>1, <2>2 DEF IpAbort, IpIsHanded, IpPuts
  <2> QED BY <1>2, <2>1, <2>2 DEF IpIsHanded, IpRun
<1> QED BY <1>2, <1>4 DEF IpHanded

LEMMA IpSendsStay ==
  ASSUME IpInv, IpSending', IpTypes', ipPartial' = ipPartial, ipGot' = ipGot,
         \A r \in IpRecver : ipListener'[r] = "ended" \/ ipListener[r] # "ended",
         \A r \in IpRecver : \A b, c : b = ipBuffer[r] /\ c = ipBuffer'[r] => IpSends(b, c)
  PROVE  IpInv'
<1>1. ASSUME NEW r \in IpRecver PROVE IpReceiving(r)'
  <2>1. PICK b : b = ipBuffer[r]
    OBVIOUS
  <2>2. PICK c : c = ipBuffer'[r]
    OBVIOUS
  <2>3. /\ IpSending /\ IpBuffered(b) /\ IpHanded(r) /\ IpSends(b, c)
        /\ ipListener[r] # "ended" => IpLinked(b) /\ IpGathered(b)
    BY <2>1, <2>2 DEF IpInv, IpReceiving
  <2>6. IpHanded(r)'
    BY <2>1, <2>2, <2>3, IpHandedStays
  <2> QED BY <2>2, <2>3, <2>6, IpLinkedStays, IpGatheredStays, IpBufferedStays DEF IpReceiving
<1> QED BY <1>1 DEF IpInv

LEMMA IpSendStays ==
  ASSUME IpInv, NEW s \in IpSender, NEW n \in IpPieces, IpSend(s, n)
  PROVE  IpInv'
<1>1. IpSending /\ IpTypes
  BY DEF IpInv
<1>2. /\ Len(ipSent) < MaxIpMessages /\ ipNext[s] = 0
      /\ ipSent' = Append(ipSent, [from |-> s, pieces |-> n, whole |-> "no"])
      /\ ipNext' = [ipNext EXCEPT ![s] = 1] /\ ipBuffer' = ipBuffer /\ ipPartial' = ipPartial
      /\ ipListener' = ipListener /\ ipGot' = ipGot /\ ipStopped' = ipStopped /\ ipAddr' = ipAddr
  BY DEF IpSend, ipRecvVars
<1>3. /\ DOMAIN ipSent = 1..Len(ipSent) /\ Len(ipSent) \in Nat
      /\ ipSent \in Seq(IpRecord) /\ ipNext \in [IpSender -> 0..MaxIpPieces]
  BY <1>1, IpSentIs DEF IpSending
<1>4. PICK top \in Nat : top = Len(ipSent) + 1
  BY <1>3
<1>6. /\ ipSent' \in Seq(IpRecord) /\ DOMAIN ipSent' = 1..top /\ top \notin DOMAIN ipSent
      /\ Len(ipSent') = top
      /\ \A i \in DOMAIN ipSent : i \in DOMAIN ipSent' /\ ipSent'[i] = ipSent[i]
      /\ ipSent'[top] = [from |-> s, pieces |-> n, whole |-> "no"]
      /\ \A i \in DOMAIN ipSent' : i \in DOMAIN ipSent \/ i = top
  BY <1>2, <1>3, <1>4 DEF IpRecord
<1>7. MaxIpPieces \in Nat \ {0} /\ n \in 1..MaxIpPieces /\ MaxIpMessages \in Nat
  BY IpBoundsAssumption DEF IpPieces
<1>8. /\ ipNext' \in [IpSender -> 0..MaxIpPieces] /\ ipNext'[s] = 1
      /\ \A t \in IpSender : t # s => ipNext'[t] = ipNext[t]
  BY <1>2, <1>3, <1>7
<1>9. \A i \in DOMAIN ipSent : ipSent[i].whole = "no" => ipSent[i].from # s /\ ipSent[i].from \in IpSender
  BY <1>1, <1>2, IpSentIs DEF IpSending
<1>10. IpSending'
  <2>1. ASSUME NEW i \in DOMAIN ipSent', ipSent'[i].whole = "no"
        PROVE  /\ ipNext'[ipSent'[i].from] \in 1..ipSent'[i].pieces
               /\ \A j \in DOMAIN ipSent' : ipSent'[j].from = ipSent'[i].from => j <= i
    <3>1. CASE i = top
      BY <1>6, <1>7, <1>8, <3>1
    <3>2. CASE i \in DOMAIN ipSent
      <4>1. /\ ipNext[ipSent[i].from] \in 1..ipSent[i].pieces
            /\ \A j \in DOMAIN ipSent : ipSent[j].from = ipSent[i].from => j <= i
        BY <1>1, <1>6, <2>1, <3>2 DEF IpSending
      <4> QED BY <1>6, <1>8, <1>9, <2>1, <3>2, <4>1
    <3> QED BY <1>6, <3>1, <3>2
  <2>2. ASSUME NEW t \in IpSender, ipNext'[t] # 0
        PROVE  \E i \in DOMAIN ipSent' : ipSent'[i].from = t /\ ipSent'[i].whole = "no"
    <3>1. CASE t = s
      BY <1>3, <1>4, <1>6, <3>1
    <3>2. CASE t # s
      <4>2. PICK i \in DOMAIN ipSent : ipSent[i].from = t /\ ipSent[i].whole = "no"
        BY <1>1, <1>8, <2>2, <3>2 DEF IpSending
      <4> QED BY <1>6, <4>2
    <3> QED BY <3>1, <3>2
  <2>3. Len(ipSent') <= MaxIpMessages
    BY <1>2, <1>3, <1>4, <1>6, <1>7
  <2> QED BY <1>6, <1>8, <2>1, <2>2, <2>3 DEF IpSending
<1>11. ASSUME NEW b PROVE IpSends(b, b)
  BY <1>3, <1>4, <1>6, <1>8, <1>9 DEF IpGrows, IpSends
<1> QED BY <1>1, <1>2, <1>10, <1>11, IpSendsStay DEF IpTypes

(* A piece goes out, or the socket stays full                              *)
IpAlone == \A q, r \in IpRecver : q = r

IpEnding(s, i, whole, n) ==
  ipSent' = [ipSent EXCEPT ![i].whole = whole] /\ ipNext' = [ipNext EXCEPT ![s] = n]

LEMMA IpEnds ==
  ASSUME IpSending, NEW s \in IpSender, NEW i \in DOMAIN ipSent, ipSent[i].from = s,
         ipSent[i].whole = "no", NEW whole \in {"no", "yes", "failed"}, NEW n \in 0..MaxIpPieces,
         IpEnding(s, i, whole, n),
         whole = "no" => n \in 1..ipSent[i].pieces, whole # "no" => n = 0
  PROVE  /\ IpSending' /\ IpGrows /\ DOMAIN ipSent' = DOMAIN ipSent
         /\ ipSent'[i].whole = whole /\ ipNext'[s] = n
         /\ \A j \in DOMAIN ipSent : j # i =>
              /\ ipSent'[j] = ipSent[j]
              /\ ipSent[j].whole = "no" => ipNext'[ipSent[j].from] = ipNext[ipSent[j].from]
<1>1. /\ DOMAIN ipSent = 1..Len(ipSent) /\ Len(ipSent) \in Nat
      /\ ipSent \in Seq(IpRecord) /\ ipNext \in [IpSender -> 0..MaxIpPieces]
      /\ \A j \in DOMAIN ipSent : ipSent[j] \in IpRecord /\ ipSent[j].from \in IpSender /\ j \in Nat
  BY IpSentIs DEF IpSending
<1>2. PICK q : q = [ipSent[i] EXCEPT !.whole = whole]
  OBVIOUS
<1>3. q \in IpRecord /\ q.from = s /\ q.pieces = ipSent[i].pieces /\ q.whole = whole
  BY <1>1, <1>2 DEF IpRecord
<1>4. ipSent' = [ipSent EXCEPT ![i] = q]
  BY <1>2 DEF IpEnding
<1>5. /\ ipSent' \in Seq(IpRecord) /\ DOMAIN ipSent' = DOMAIN ipSent /\ Len(ipSent') = Len(ipSent)
      /\ \A j \in DOMAIN ipSent : ipSent'[j] = IF j = i THEN q ELSE ipSent[j]
  BY <1>1, <1>3, <1>4 DEF IpEnding
<1>6. /\ ipNext' \in [IpSender -> 0..MaxIpPieces] /\ ipNext'[s] = n
      /\ \A t \in IpSender : t # s => ipNext'[t] = ipNext[t]
  BY <1>1 DEF IpEnding
<1>7. IpGrows
  BY <1>3, <1>5 DEF IpGrows
<1>8. \A j \in DOMAIN ipSent : ipSent[j].whole = "no" /\ j # i => ipSent[j].from # s
  <2> SUFFICES ASSUME NEW j \in DOMAIN ipSent, ipSent[j].whole = "no", ipSent[j].from = s PROVE j = i
    OBVIOUS
  <2>1. j <= i /\ i <= j
    BY DEF IpSending
  <2> QED BY <1>1, <2>1
<1>9. IpSending'
  <2>1. ASSUME NEW j \in DOMAIN ipSent', ipSent'[j].whole = "no"
        PROVE  /\ ipNext'[ipSent'[j].from] \in 1..ipSent'[j].pieces
               /\ \A k \in DOMAIN ipSent' : ipSent'[k].from = ipSent'[j].from => k <= j
    <3>1. ipSent[j].whole = "no" /\ \A k \in DOMAIN ipSent : ipSent'[k].from = ipSent[k].from
      BY <1>3, <1>5, <2>1
    <3>2. /\ ipNext[ipSent[j].from] \in 1..ipSent[j].pieces
          /\ \A k \in DOMAIN ipSent : ipSent[k].from = ipSent[j].from => k <= j
      BY <1>5, <3>1 DEF IpSending
    <3>3. ipNext'[ipSent'[j].from] \in 1..ipSent'[j].pieces
      BY <1>1, <1>3, <1>5, <1>6, <1>8, <2>1, <3>1, <3>2
    <3> QED BY <1>5, <3>1, <3>2, <3>3
  <2>2. ASSUME NEW t \in IpSender, ipNext'[t] # 0
        PROVE  \E j \in DOMAIN ipSent' : ipSent'[j].from = t /\ ipSent'[j].whole = "no"
    <3>1. CASE t = s
      BY <1>3, <1>5, <1>6, <2>2, <3>1
    <3>2. CASE t # s
      <4>1. ipNext[t] # 0
        BY <1>6, <2>2, <3>2
      <4>2. PICK j \in DOMAIN ipSent : ipSent[j].from = t /\ ipSent[j].whole = "no"
        BY <4>1 DEF IpSending
      <4>3. j # i
        BY <3>2, <4>2
      <4> QED BY <1>5, <4>2, <4>3
    <3> QED BY <3>1, <3>2
  <2>3. Len(ipSent') <= MaxIpMessages
    BY <1>5 DEF IpSending
  <2> QED BY <1>5, <1>6, <2>1, <2>2, <2>3 DEF IpSending
<1> QED BY <1>1, <1>3, <1>5, <1>6, <1>7, <1>8, <1>9

LEMMA IpSendtoStays ==
  ASSUME IpAlone, IpInv, NEW s \in IpSender, IpSendto(s) \/ IpSendFails(s)
  PROVE  IpInv'
<1>1. IpSending /\ IpTypes
  BY DEF IpInv
<1>2. PICK i : i = IpCurrent(s)
  OBVIOUS
<1>3. ipNext[s] # 0 /\ UNCHANGED ipRecvVars
  BY DEF IpSendto, IpSendFails
<1>4. /\ i \in DOMAIN ipSent /\ ipSent[i].from = s /\ ipSent[i].whole = "no"
      /\ \A j \in DOMAIN ipSent : ipSent[j].from = s => j <= i
  BY <1>1, <1>2, <1>3, IpCurrentIs
<1>5. /\ ipNext[s] \in 1..ipSent[i].pieces /\ ipSent[i].pieces \in Nat \ {0}
      /\ ipSent[i].pieces <= MaxIpPieces /\ ipSent \in Seq(IpRecord)
      /\ ipNext \in [IpSender -> 0..MaxIpPieces] /\ MaxIpPieces \in Nat
  BY <1>1, <1>4, IpSentIs, IpBoundsAssumption DEF IpSending
<1>6. /\ ipPartial' = ipPartial /\ ipGot' = ipGot /\ ipListener' = ipListener
      /\ ipStopped' = ipStopped /\ ipAddr' = ipAddr
  BY <1>3 DEF ipRecvVars
<1>7. CASE IpSendFails(s)
  <2>1. /\ ipNext' = [ipNext EXCEPT ![s] = 0] /\ ipBuffer' = ipBuffer
        /\ ipSent' = [ipSent EXCEPT ![i].whole = "failed"]
    BY <1>2, <1>7 DEF IpSendFails
  <2>2. PICK whole \in {"no", "yes", "failed"} : whole = "failed"
    OBVIOUS
  <2>3. PICK n \in 0..MaxIpPieces : n = 0
    BY <1>5
  <2>4. IpEnding(s, i, whole, n)
    BY <2>1, <2>2, <2>3 DEF IpEnding
  <2>5. /\ whole = "no" => n \in 1..ipSent[i].pieces
        /\ whole # "no" => n = 0
    BY <2>2, <2>3
  <2>6. /\ IpSending' /\ IpGrows /\ DOMAIN ipSent' = DOMAIN ipSent
        /\ ipSent'[i].whole = "failed"
        /\ \A j \in DOMAIN ipSent : j # i =>
              /\ ipSent'[j] = ipSent[j]
              /\ ipSent[j].whole = "no" => ipNext'[ipSent[j].from] = ipNext[ipSent[j].from]
    BY <1>1, <1>4, <2>2, <2>4, <2>5, IpEnds
  <2>7. \A b : IpSends(b, b)
    BY <1>4, <2>6 DEF IpSends
  <2>8. IpTypes'
    BY <1>1, <1>6, <2>1 DEF IpTypes
  <2> QED BY <1>6, <2>1, <2>6, <2>7, <2>8, IpSendsStay
<1>8. CASE IpSendto(s)
  <2>1. PICK k \in Nat, p \in Nat : k = ipNext[s] /\ p = ipSent[i].pieces
    BY <1>5
  <2>2. PICK r : r = IpTo[s]
    OBVIOUS
  <2>3. /\ ipBuffer' = [ipBuffer EXCEPT ![r] = Append(@, <<i, ipNext[s]>>)]
        /\ ipNext' = [ipNext EXCEPT ![s] = IF k = p THEN 0 ELSE k + 1]
        /\ ipSent' = IF k = p THEN [ipSent EXCEPT ![i].whole = "yes"] ELSE ipSent
    BY <1>2, <1>5, <1>8, <2>1, <2>2 DEF IpSendto
  <2>4. PICK whole \in {"no", "yes", "failed"} :
          (k = p => whole = "yes") /\ (k # p => whole = "no")
    <3>1. CASE k = p
      BY <3>1
    <3>2. CASE k # p
      BY <3>2
    <3> QED BY <3>1, <3>2
  <2>5. ipSent' = [ipSent EXCEPT ![i].whole = whole]
    <3>1. CASE k = p
      BY <2>3, <2>4, <3>1
    <3>2. CASE k # p
      <4>1. [ipSent EXCEPT ![i].whole = "no"] = ipSent
        <5>1. i \in DOMAIN ipSent /\ ipSent[i] \in IpRecord
          BY <1>1, <1>4, IpSentIs
        <5>2. PICK q : q = [ipSent[i] EXCEPT !.whole = "no"]
          OBVIOUS
        <5>3. q = ipSent[i]
          BY <1>4, <5>1, <5>2 DEF IpRecord
        <5>4. [ipSent EXCEPT ![i] = q] = ipSent
          BY <1>5, <5>1, <5>3
        <5> QED BY <5>2, <5>4
      <4> QED BY <2>3, <2>4, <3>2, <4>1
    <3> QED BY <3>1, <3>2
  <2>6. PICK n \in 0..MaxIpPieces : (k = p => n = 0) /\ (k # p => n = k + 1)
    <3>1. k \in 1..p /\ p <= MaxIpPieces
      BY <1>5, <2>1
    <3>2. CASE k = p
      BY <1>5, <3>2
    <3>3. CASE k # p
      BY <1>5, <3>1, <3>3
    <3> QED BY <3>2, <3>3
  <2>7. ipNext' = [ipNext EXCEPT ![s] = n]
    BY <2>3, <2>6
  <2>8. whole = "no" => n \in 1..ipSent[i].pieces
    <3>1. k \in 1..p
      BY <1>5, <2>1
    <3>2. whole = "no" => k # p
      BY <2>4
    <3>3. k # p => n \in 1..p
      BY <2>6, <3>1
    <3> QED BY <2>1, <3>2, <3>3
  <2>13. whole # "no" => n = 0
    BY <2>4, <2>6
  <2>9. /\ IpSending' /\ IpGrows /\ DOMAIN ipSent' = DOMAIN ipSent
        /\ ipSent'[i].whole = whole /\ ipNext'[s] = n
        /\ \A j \in DOMAIN ipSent : j # i =>
              /\ ipSent'[j] = ipSent[j]
              /\ ipSent[j].whole = "no" => ipNext'[ipSent[j].from] = ipNext[ipSent[j].from]
    <3>1. ipSent[i].from = s /\ ipSent[i].whole = "no" /\ i \in DOMAIN ipSent /\ IpSending
      BY <1>1, <1>4
    <3>2. IpEnding(s, i, whole, n)
      BY <2>5, <2>7 DEF IpEnding
    <3> QED BY <2>8, <2>13, <3>1, <3>2, IpEnds
  <2>10. IpWent(i)
    <3>1. CASE k = p
      BY <1>4, <2>1, <2>4, <2>9, <3>1 DEF IpWent
    <3>2. CASE k # p
      <4>1. k < p
        BY <1>5, <2>1, <3>2
      <4> QED BY <1>4, <2>1, <2>4, <2>6, <2>9, <3>2, <4>1 DEF IpWent
    <3> QED BY <3>1, <3>2
  <2>11. ASSUME NEW q \in IpRecver, NEW b, NEW c, b = ipBuffer[q], c = ipBuffer'[q]
         PROVE  IpSends(b, c)
    <3>1. q = r
      <4>1. r \in IpRecver
        BY <2>2, IpToAssumption
      <4> QED BY <4>1 DEF IpAlone
    <3>2. c = Append(b, <<i, ipNext[s]>>)
      BY <1>1, <2>3, <2>11, <3>1 DEF IpTypes
    <3>3. IpPut(i, b, c)
      BY <1>4, <3>2 DEF IpPut
    <3> QED BY <1>4, <2>9, <2>10, <3>3 DEF IpSends
  <2>12. IpTypes'
    <3>1. ipBuffer' = [q \in IpRecver |-> ipBuffer'[q]]
      BY <1>1, <2>3 DEF IpTypes
    <3> QED BY <1>1, <1>6, <3>1 DEF IpTypes
  <2> QED BY <1>6, <2>9, <2>11, <2>12, IpSendsStay
<1> QED BY <1>7, <1>8

(* A receiver starts, or is told to stop                                   *)
LEMMA IpStill ==
  ASSUME IpSending, ipSent' = ipSent, ipNext' = ipNext
  PROVE  IpSending' /\ \A b : IpSends(b, b) /\ IpSends(b, Append(b, IpAbort))
  BY DEF IpSending, IpGrows, IpSends

LEMMA IpStopStays ==
  ASSUME IpInv, NEW r \in IpRecver, IpListen(r) \/ IpStop(r) \/ IpStopFails(r)
  PROVE  IpInv'
<1>1. IpSending /\ IpTypes
  BY DEF IpInv
<1>2. /\ ipSent' = ipSent /\ ipNext' = ipNext /\ ipPartial' = ipPartial /\ ipAddr' = ipAddr
      /\ ipGot' = ipGot
  BY DEF IpListen, IpStop, IpStopFails, ipSendVars
<1>3. IpSending' /\ \A b : IpSends(b, b) /\ IpSends(b, Append(b, IpAbort))
  BY <1>1, <1>2, IpStill
<1>4. CASE IpListen(r)
  BY <1>1, <1>2, <1>3, <1>4, IpSendsStay DEF IpListen, IpTypes
<1>5. CASE IpStop(r)
  <2>1. /\ ipListener' = ipListener /\ ipStopped' = [ipStopped EXCEPT ![r] = "yes"]
        /\ ipBuffer' = IF ipAddr[r] = r THEN [ipBuffer EXCEPT ![r] = Append(@, IpAbort)] ELSE ipBuffer
    BY <1>5 DEF IpStop
  <2>3. IpTypes'
    BY <1>1, <1>2, <2>1 DEF IpTypes
  <2>4. ASSUME NEW q \in IpRecver, NEW b, NEW c, b = ipBuffer[q], c = ipBuffer'[q]
        PROVE  IpSends(b, c)
    BY <1>1, <1>3, <2>1, <2>4 DEF IpTypes
  <2>5. \A q \in IpRecver : ipListener'[q] = "ended" \/ ipListener[q] # "ended"
    BY <1>5, <2>1 DEF IpStop
  <2> QED BY <1>2, <1>3, <2>1, <2>3, <2>4, <2>5, IpSendsStay
<1>6. CASE IpStopFails(r)
  <2>1. /\ ipListener' = ipListener /\ ipStopped' = [ipStopped EXCEPT ![r] = "failed"]
        /\ ipBuffer' = ipBuffer
    BY <1>6 DEF IpStopFails
  <2>2. IpTypes'
    BY <1>1, <1>2, <2>1 DEF IpTypes
  <2> QED BY <1>2, <1>3, <2>1, <2>2, IpSendsStay
<1> QED BY <1>4, <1>5, <1>6

(* What a receiver does to its datagrams b: the first one is taken         *)
IpTailed(b, c) ==
  /\ Len(b) \in Nat /\ Len(c) \in Nat /\ Len(b) = Len(c) + 1 /\ 1 \in DOMAIN b
  /\ DOMAIN b = 1..Len(b) /\ DOMAIN c = 1..Len(c)
  /\ \A x \in DOMAIN c : x \in Nat /\ x > 0 /\ x + 1 \in DOMAIN b /\ c[x] = b[x + 1]
  /\ \A y \in DOMAIN b : y \in Nat /\ y > 0
  /\ \A y \in DOMAIN b : y # 1 => y - 1 \in DOMAIN c /\ c[y - 1] = b[y]

LEMMA IpTailIs ==
  ASSUME NEW b \in Seq(IpPiece \cup {IpAbort}), b # <<>>, NEW c, c = Tail(b)
  PROVE  IpTailed(b, c) /\ c \in Seq(IpPiece \cup {IpAbort}) /\ Head(b) = b[1]
<1>1. PICK n \in Nat : n = Len(b) /\ DOMAIN b = 1..n /\ n # 0
  BY EmptySeq
<1>2. c \in Seq(IpPiece \cup {IpAbort}) /\ Head(b) = b[1] /\ Len(c) = n - 1
      /\ DOMAIN c = 1..(n - 1) /\ \A x \in 1..(n - 1) : c[x] = b[x + 1]
  BY <1>1
<1>5. ASSUME NEW y \in DOMAIN b, y # 1 PROVE y - 1 \in DOMAIN c /\ c[y - 1] = b[y]
  BY <1>1, <1>2, <1>5
<1> QED BY <1>1, <1>2, <1>5 DEF IpTailed

LEMMA IpTailBuffered ==
  ASSUME NEW b, IpBuffered(b), NEW c, IpTailed(b, c), c \in Seq(IpPiece \cup {IpAbort})
  PROVE  IpBuffered(c)
<1>1. ASSUME NEW x \in DOMAIN c, c[x] # IpAbort
      PROVE  /\ IpOnWay(c[x])
             /\ \A y \in DOMAIN c : x < y /\ c[y] # IpAbort => IpPast(c[x], c[y])
             /\ ipSent[c[x][1]].whole = "yes" => \E z \in DOMAIN c : x <= z /\ c[z] = IpEnd(c[x][1])
  <2>1. PICK w \in DOMAIN b : w = x + 1 /\ b[w] = c[x] /\ x \in Nat /\ x > 0 /\ w \in Nat
    BY DEF IpTailed
  <2>2. /\ IpOnWay(b[w])
        /\ \A y \in DOMAIN b : w < y /\ b[y] # IpAbort => IpPast(b[w], b[y])
        /\ ipSent[b[w][1]].whole = "yes" => \E z \in DOMAIN b : w <= z /\ b[z] = IpEnd(b[w][1])
    BY <1>1, <2>1 DEF IpBuffered
  <2>3. ASSUME NEW y \in DOMAIN c, x < y, c[y] # IpAbort PROVE IpPast(c[x], c[y])
    BY <2>1, <2>2, <2>3 DEF IpTailed
  <2>4. ASSUME ipSent[c[x][1]].whole = "yes"
        PROVE  \E z \in DOMAIN c : x <= z /\ c[z] = IpEnd(c[x][1])
    <3>1. PICK z \in DOMAIN b : w <= z /\ b[z] = IpEnd(c[x][1])
      BY <2>1, <2>2, <2>4
    <3>2. z \in Nat /\ z # 1 /\ x <= z - 1
      BY <2>1, <3>1 DEF IpTailed
    <3> QED BY <3>1, <3>2 DEF IpTailed
  <2> QED BY <2>1, <2>2, <2>3, <2>4
<1> QED BY <1>1 DEF IpBuffered

(* The piece in front is k of message i                                    *)
IpHead(b, i, k) ==
  /\ 1 \in DOMAIN b /\ b[1] = <<i, k>> /\ b[1] # IpAbort
  /\ i \in DOMAIN ipSent /\ k \in Nat /\ k > 0 /\ k <= ipSent[i].pieces
  /\ k = ipSent[i].pieces => ipSent[i].whole = "yes"
  /\ ipSent[i].whole = "no" => k < ipNext[ipSent[i].from]
  /\ ipSent[i].whole = "yes" => \E z \in DOMAIN b : b[z] = IpEnd(i)
  /\ \A x \in DOMAIN b : x # 1 /\ b[x] # IpAbort =>
       /\ b[x][1] \in Nat /\ b[x][1] > 0 /\ b[x][2] \in Nat
       /\ ipSent[b[x][1]].from = ipSent[i].from => i < b[x][1] \/ (i = b[x][1] /\ k < b[x][2])
       /\ b[x][1] = i => b[x][2] <= ipSent[i].pieces

LEMMA IpHeadIs ==
  ASSUME IpSending, NEW b, IpBuffered(b), NEW c, IpTailed(b, c), b[1] # IpAbort
  PROVE  \E i \in DOMAIN ipSent, k \in Nat : IpHead(b, i, k)
<1>1. b \in Seq(IpPiece \cup {IpAbort}) /\ 1 \in DOMAIN b
      /\ \A x \in DOMAIN b : x \in Nat /\ x > 0
  BY DEF IpBuffered, IpTailed
<1>2. PICK i, k \in Nat : i = b[1][1] /\ k = b[1][2] /\ b[1] = <<i, k>>
  BY <1>1, IpPieceIs
<1>3. /\ IpOnWay(b[1])
      /\ \A y \in DOMAIN b : 1 < y /\ b[y] # IpAbort => IpPast(b[1], b[y])
      /\ ipSent[b[1][1]].whole = "yes" => \E z \in DOMAIN b : 1 <= z /\ b[z] = IpEnd(b[1][1])
  BY <1>1 DEF IpBuffered
<1>4. /\ i \in DOMAIN ipSent /\ k \in 1..ipSent[i].pieces
      /\ k = ipSent[i].pieces => ipSent[i].whole = "yes"
      /\ ipSent[i].whole = "no" => k < ipNext[ipSent[i].from]
  BY <1>2, <1>3 DEF IpOnWay
<1>5. ipSent[i].pieces \in Nat
  BY <1>4, IpSentIs
<1>6. ASSUME NEW x \in DOMAIN b, x # 1, b[x] # IpAbort
      PROVE  /\ b[x][1] \in Nat /\ b[x][1] > 0 /\ b[x][2] \in Nat
             /\ ipSent[b[x][1]].from = ipSent[i].from =>
                  i < b[x][1] \/ (i = b[x][1] /\ k < b[x][2])
             /\ b[x][1] = i => b[x][2] <= ipSent[i].pieces
  BY <1>1, <1>2, <1>3, <1>5, <1>6, IpPieceIs DEF IpOnWay, IpBuffered, IpPast
<1>8. IpHead(b, i, k)
  BY <1>1, <1>2, <1>3, <1>4, <1>5, <1>6 DEF IpHead
<1> QED BY <1>4, <1>8

(* A message of the same key the pieces of which are in the map, with none *)
(* failed before, is the message of the piece in front                     *)
IpFirst(key, f) == key \in DOMAIN ipPartial /\ f = ipPartial[key][1][1]

LEMMA IpFirstIs ==
  ASSUME IpSending, NEW b, IpGathered(b), NEW i \in DOMAIN ipSent, NEW k, IpHead(b, i, k),
         NEW f, IpFirst(IpKey(i), f)
  PROVE  /\ f \in DOMAIN ipSent /\ IpKey(f) = IpKey(i) /\ f <= i /\ f \in Nat /\ i \in Nat
         /\ IpClean(f) => f = i /\ \E m \in 1..(ipSent[i].pieces - 1) : IpBegun(b, i, m)
<1>1. /\ f \in DOMAIN ipSent /\ IpKey(f) = IpKey(i)
      /\ \A x \in DOMAIN b : b[x] # IpAbort /\ IpKey(b[x][1]) = IpKey(i) => f <= b[x][1]
      /\ IpClean(f) => \E m \in 1..(ipSent[f].pieces - 1) : IpBegun(b, f, m)
  BY DEF IpGathered, IpFirst
<1>2. 1 \in DOMAIN b /\ b[1] # IpAbort /\ b[1][1] = i
  BY DEF IpHead
<1>3. f <= i /\ f \in Nat /\ i \in Nat
  BY <1>1, <1>2, IpSentIs
<1>4. ASSUME IpClean(f) PROVE f = i
  <2> SUFFICES ASSUME f # i PROVE FALSE
    OBVIOUS
  <2>1. f < i /\ ipSent[f].from = ipSent[i].from
    BY <1>1, <1>3 DEF IpKey
  <2>2. ipSent[f].whole # "no"
    BY <1>1, <1>3, <2>1 DEF IpSending
  <2>5. PICK z \in DOMAIN b : b[z] = IpEnd(f)
    BY <1>1, <1>3, <1>4, <2>2, IpSentIs DEF IpBegun, IpClean
  <2> QED BY <1>1, <1>2, <1>3, <2>1, <2>5, IpSentIs DEF IpHead, IpAbort, IpEnd
<1> QED BY <1>1, <1>3, <1>4

(* The pieces with the one in front are those of a message up to it        *)
IpBuilt(i, k, pieces) ==
  /\ pieces \in Seq(IpPiece) /\ pieces # <<>> /\ pieces[1][1] \in DOMAIN ipSent
  /\ IpKey(pieces[1][1]) = IpKey(i) /\ pieces[1][1] <= i
  /\ IpClean(pieces[1][1]) => IpClean(i)
  /\ IpClean(i) => pieces = IpRun(i, k) /\ pieces[1][1] = i /\ Len(pieces) = k
  /\ IpKey(i) \in DOMAIN ipPartial => pieces[1][1] = ipPartial[IpKey(i)][1][1]
  /\ IpClean(i) /\ IpKey(i) \in DOMAIN ipPartial => ipPartial[IpKey(i)] = IpRun(i, k - 1)

LEMMA IpRunIs ==
  ASSUME NEW i, NEW m \in Nat
  PROVE  /\ Len(IpRun(i, m)) = m /\ (m # 0 => IpRun(i, m)[1] = <<i, 1>> /\ IpRun(i, m)[1][1] = i)
         /\ Append(IpRun(i, m), <<i, m + 1>>) = IpRun(i, m + 1)
         /\ IpRun(i, 0) = <<>>
<1>1. PICK S : S = {i} \X Nat
  OBVIOUS
<1>2. \A l \in Nat : IpRun(i, l) \in Seq(S) /\ Len(IpRun(i, l)) = l
                     /\ \A x \in 1..l : IpRun(i, l)[x] = <<i, x>>
  BY <1>1 DEF IpRun
<1>3. IpRun(i, 0) = <<>>
  BY <1>2, EmptySeq
<1>4. m # 0 => IpRun(i, m)[1] = <<i, 1>>
  BY <1>2
<1>5. PICK p \in S : p = <<i, m + 1>>
  <2>2. <<i, m + 1>> \in S
    BY <1>1
  <2> QED BY <2>2
<1>6. Append(IpRun(i, m), p) = IpRun(i, m + 1)
  <2>1. PICK u \in Seq(S) : u = IpRun(i, m) /\ Len(u) = m /\ \A x \in 1..m : u[x] = <<i, x>>
    BY <1>2
  <2>2. PICK v \in Seq(S) : /\ v = IpRun(i, m + 1) /\ Len(v) = m + 1
                            /\ \A x \in 1..(m + 1) : v[x] = <<i, x>>
    BY <1>2
  <2>3. PICK w \in Seq(S) : /\ w = Append(u, p) /\ Len(w) = m + 1 /\ w[m + 1] = p
                            /\ \A x \in 1..m : w[x] = u[x]
    <3>1. /\ Append(u, p) \in Seq(S) /\ Len(Append(u, p)) = Len(u) + 1
          /\ Append(u, p)[Len(u) + 1] = p /\ \A x \in 1..Len(u) : Append(u, p)[x] = u[x]
      BY AppendProperties
    <3> QED BY <2>1, <3>1
  <2>4. ASSUME NEW x \in 1..(m + 1) PROVE w[x] = v[x]
    <3>1. x \in 1..m \/ x = m + 1
      OBVIOUS
    <3> QED BY <1>5, <2>1, <2>2, <2>3, <3>1
  <2> QED BY <2>1, <2>2, <2>3, <2>4
<1>8. Len(IpRun(i, m)) = m
  BY <1>2
<1> QED BY <1>3, <1>4, <1>5, <1>6, <1>8

IpCameBefore(key) == IF key \in DOMAIN ipPartial THEN ipPartial[key] ELSE <<>>

LEMMA IpBuiltIs ==
  ASSUME IpSending, IpTypes, NEW b, IpGathered(b), IpLinked(b), NEW i \in DOMAIN ipSent,
         NEW k \in Nat, IpHead(b, i, k), b \in Seq(IpPiece \cup {IpAbort}),
         NEW pieces, pieces = Append(IpCameBefore(IpKey(i)), b[1])
  PROVE  IpBuilt(i, k, pieces)
<1>1. PICK key : key = IpKey(i)
  OBVIOUS
<1>2. PICK p \in IpPiece : p = b[1] /\ p = <<i, k>> /\ p[1] = i /\ p[2] = k
  BY IpPieceIs DEF IpHead
<1>3. PICK came \in Seq(IpPiece) : came = IpCameBefore(key)
  <2>1. key \in DOMAIN ipPartial => ipPartial[key] \in Seq(IpPiece)
    BY DEF IpTypes
  <2>2. CASE key \in DOMAIN ipPartial
    BY <2>1, <2>2 DEF IpCameBefore
  <2>3. CASE key \notin DOMAIN ipPartial
    <3>1. <<>> \in Seq(IpPiece)
      OBVIOUS
    <3> QED BY <2>3, <3>1 DEF IpCameBefore
  <2> QED BY <2>2, <2>3
<1>4. pieces = Append(came, p)
  BY <1>1, <1>2, <1>3
<1>5. pieces \in Seq(IpPiece) /\ pieces # <<>> /\ Len(pieces) = Len(came) + 1
      /\ (came # <<>> => pieces[1] = came[1]) /\ (came = <<>> => pieces[1] = p)
  <2>1. Len(came) \in Nat /\ (came = <<>> <=> Len(came) = 0)
    BY <1>3, EmptySeq
  <2>2. /\ pieces \in Seq(IpPiece) /\ Len(pieces) = Len(came) + 1
        /\ \A x \in 1..Len(came) : pieces[x] = came[x]
        /\ pieces[Len(came) + 1] = p
    BY <1>4, AppendProperties
  <2>3. pieces # <<>>
    BY <2>1, <2>2, EmptySeq
  <2> QED BY <2>1, <2>2, <2>3
<1>6. ASSUME key \in DOMAIN ipPartial
      PROVE  /\ came = ipPartial[key] /\ came # <<>> /\ pieces[1][1] = ipPartial[key][1][1]
             /\ IpFirst(key, pieces[1][1])
  BY <1>3, <1>5, <1>6 DEF IpCameBefore, IpGathered, IpFirst
<1>7. ASSUME key \notin DOMAIN ipPartial
      PROVE  came = <<>> /\ pieces[1][1] = i
  BY <1>2, <1>3, <1>5, <1>7 DEF IpCameBefore
<1>8. i \in Nat /\ i <= i
  BY IpSentIs
<1>9. /\ pieces[1][1] \in DOMAIN ipSent /\ IpKey(pieces[1][1]) = key /\ pieces[1][1] <= i
      /\ IpClean(pieces[1][1]) => pieces[1][1] = i
  <2>1. CASE key \in DOMAIN ipPartial
    <3>1. IpFirst(IpKey(i), pieces[1][1])
      BY <1>1, <1>6, <2>1
    <3> QED BY <1>1, <3>1, IpFirstIs
  <2>2. CASE key \notin DOMAIN ipPartial
    BY <1>1, <1>7, <1>8, <2>2
  <2> QED BY <2>1, <2>2
<1>10. ASSUME IpClean(i)
       PROVE  /\ key \in DOMAIN ipPartial => ipPartial[key] = IpRun(i, k - 1)
              /\ came = IpRun(i, k - 1)
  <2>1. ASSUME key \in DOMAIN ipPartial PROVE IpClean(pieces[1][1])
    <3>1. pieces[1][1] <= i /\ IpKey(pieces[1][1]) = IpKey(i) /\ pieces[1][1] \in Nat /\ i \in Nat
      BY <1>1, <1>9, IpSentIs
    <3> QED BY <1>10, <3>1 DEF IpClean
  <2>2. ASSUME key \in DOMAIN ipPartial
        PROVE  k > 1
    <3>1. PICK m \in 1..(ipSent[i].pieces - 1) : IpBegun(b, i, m)
      <4>1. IpFirst(IpKey(i), pieces[1][1]) /\ IpClean(pieces[1][1])
        BY <1>1, <1>6, <2>1, <2>2
      <4> QED BY <4>1, IpFirstIs
    <3>2. m < k
      BY <1>2, <3>1 DEF IpBegun, IpHead
    <3>3. ipSent[i].pieces \in Nat
      BY IpSentIs
    <3> QED BY <3>1, <3>2, <3>3
  <2>3. ASSUME k > 1 PROVE key \in DOMAIN ipPartial /\ ipPartial[key] = IpRun(i, k - 1)
    <3>1. 1 \in DOMAIN b /\ b[1][1] = i /\ b[1][2] > 1 /\ b[1][2] = k
      BY <1>2, <2>3 DEF IpHead
    <3>2. IpAfter(b, 1 - 1, i, k - 1)
      BY <1>10, <3>1 DEF IpLinked
    <3>3. 1..(1 - 1) = {}
      OBVIOUS
    <3> QED BY <1>1, <3>2, <3>3 DEF IpAfter, IpCame
  <2>4. CASE k > 1
    <3>1. key \in DOMAIN ipPartial /\ ipPartial[key] = IpRun(i, k - 1)
      BY <2>3, <2>4
    <3> QED BY <1>6, <3>1
  <2>5. CASE ~(k > 1)
    <3>1. k = 1
      BY <2>5 DEF IpHead
    <3>2. key \notin DOMAIN ipPartial
      BY <2>2, <2>5
    <3>3. IpRun(i, k - 1) = <<>>
      BY <3>1, IpRunIs
    <3> QED BY <1>7, <3>2, <3>3
  <2> QED BY <2>4, <2>5
<1>11. ASSUME IpClean(i) PROVE pieces = IpRun(i, k) /\ pieces[1][1] = i /\ Len(pieces) = k
  <2>1. PICK m \in Nat : m = k - 1 /\ k = m + 1
    BY DEF IpHead
  <2>2. pieces = Append(IpRun(i, m), <<i, m + 1>>)
    BY <1>2, <1>4, <1>10, <1>11, <2>1
  <2>3. pieces = IpRun(i, m + 1)
    BY <2>2, IpRunIs
  <2>4. m + 1 \in Nat /\ m + 1 # 0
    OBVIOUS
  <2>5. Len(IpRun(i, m + 1)) = m + 1 /\ IpRun(i, m + 1)[1][1] = i
    BY <2>4, IpRunIs
  <2> QED BY <2>1, <2>3, <2>5
<1>12. IpClean(pieces[1][1]) => IpClean(i)
  BY <1>9
<1> QED BY <1>1, <1>5, <1>6, <1>9, <1>10, <1>11, <1>12 DEF IpBuilt

(* A receiver takes the piece in front: the pieces of its key are kept in  *)
(* the map, or are the whole message and leave it                          *)
IpTakes(i, pieces) ==
  /\ ipSent' = ipSent /\ ipNext' = ipNext
  /\ \/ /\ Len(pieces) = ipSent[i].pieces
        /\ DOMAIN ipPartial' = DOMAIN ipPartial \ {IpKey(i)}
     \/ /\ Len(pieces) # ipSent[i].pieces
        /\ DOMAIN ipPartial' = DOMAIN ipPartial \cup {IpKey(i)} /\ ipPartial'[IpKey(i)] = pieces
  /\ \A key \in DOMAIN ipPartial : key # IpKey(i) => ipPartial'[key] = ipPartial[key]

LEMMA IpSame ==
  ASSUME ipSent' = ipSent, ipNext' = ipNext
  PROVE  /\ \A i : IpKey(i)' = IpKey(i) /\ IpEnd(i)' = IpEnd(i) /\ (IpClean(i)' <=> IpClean(i))
         /\ \A c : IpBuffered(c) => IpBuffered(c)'
<1>1. \A i : IpKey(i)' = IpKey(i) /\ IpEnd(i)' = IpEnd(i)
  BY DEF IpKey, IpEnd
<1>4. ASSUME NEW c, IpBuffered(c) PROVE IpBuffered(c)'
  BY <1>1, <1>4 DEF IpBuffered, IpOnWay, IpPast
<1> QED BY <1>1, <1>4 DEF IpClean, IpKey

LEMMA IpAfterTail ==
  ASSUME IpSending, NEW b, NEW c, IpTailed(b, c), NEW i \in DOMAIN ipSent, NEW k \in Nat,
         IpHead(b, i, k), NEW pieces, IpBuilt(i, k, pieces), IpTakes(i, pieces),
         NEW y \in Nat, y <= Len(b), NEW m \in Nat, m > 0, NEW j \in DOMAIN ipSent, IpClean(j),
         IpAfter(b, y, j, m), j = i => m + 1 # k,
         j = i /\ m = k => k # ipSent[i].pieces
  PROVE  IpAfter(c, y - 1, j, m)'
<1>1. IpKey(j)' = IpKey(j) /\ IpKey(i)' = IpKey(i)
  BY IpSame DEF IpTakes
<1>2. CASE \E w \in 1..y : b[w] = <<j, m>>
  <2>1. PICK w \in 1..y : b[w] = <<j, m>>
    BY <1>2
  <2>2. w \in DOMAIN b /\ w \in Nat
    BY DEF IpTailed
  <2>3. CASE w = 1
    <3>1. j = i /\ m = k
      BY <2>1, <2>3 DEF IpHead
    <3> QED BY <1>1, <3>1 DEF IpAfter, IpCame, IpRun, IpTakes, IpBuilt
  <2>4. CASE w # 1
    <3>2. w - 1 \in 1..(y - 1)
      BY <2>2, <2>4
    <3> QED BY <2>1, <2>2, <2>4, <3>2 DEF IpAfter, IpTailed
  <2> QED BY <2>3, <2>4
<1>3. CASE IpCame(j, m)
  <2>1. IpKey(j) \in DOMAIN ipPartial /\ ipPartial[IpKey(j)] = IpRun(j, m)
    BY <1>3 DEF IpCame
  <2>2. CASE IpKey(j) # IpKey(i)
    BY <1>1, <2>1, <2>2 DEF IpTakes, IpCame, IpRun, IpAfter
  <2>3. CASE IpKey(j) = IpKey(i)
    <3>1. pieces[1][1] = j
      <4>2. m # 0
        OBVIOUS
      <4>3. IpRun(j, m)[1][1] = j
        BY <4>2, IpRunIs
      <4> QED BY <2>1, <2>3, <4>3 DEF IpBuilt
    <3>5. PICK l \in Nat : l = k - 1
      BY DEF IpHead
    <3> QED BY <2>1, <2>3, <3>1, <3>5, IpRunIs DEF IpBuilt
  <2> QED BY <2>2, <2>3
<1> QED BY <1>2, <1>3 DEF IpAfter

LEMMA IpTailLinked ==
  ASSUME IpSending, NEW b, IpBuffered(b), IpLinked(b), NEW c, IpTailed(b, c),
         NEW i \in DOMAIN ipSent, NEW k \in Nat, IpHead(b, i, k), NEW pieces,
         IpBuilt(i, k, pieces), IpTakes(i, pieces)
  PROVE  IpLinked(c)'
<1>1. ipSent' = ipSent /\ ipNext' = ipNext /\ \A j : IpClean(j)' => IpClean(j)
  BY IpSame DEF IpTakes
<1>2. ASSUME NEW j \in DOMAIN ipSent, IpClean(j), NEW x \in DOMAIN c, c[x][1] = j, c[x][2] > 1
      PROVE  IpAfter(c, x - 1, j, c[x][2] - 1)'
  <2>1. PICK w \in DOMAIN b : w = x + 1 /\ b[w] = c[x] /\ x \in Nat /\ x > 0 /\ x <= Len(b)
    BY DEF IpTailed
  <2>3. PICK l \in Nat : l = c[x][2] /\ (j = i => k < l /\ l <= ipSent[i].pieces)
    BY <1>2, <2>1, IpSentIs DEF IpHead, IpAbort
  <2>4. PICK m \in Nat : m = c[x][2] - 1 /\ m > 0 /\ (j = i => k # m + 1)
                         /\ (j = i /\ m = k => k # ipSent[i].pieces)
    BY <1>2, <2>3, IpSentIs
  <2> QED BY <1>2, <2>1, <2>4, IpAfterTail DEF IpLinked
<1>3. ASSUME NEW j \in DOMAIN ipSent, IpClean(j), ipSent[j].whole = "no",
             ipNext[ipSent[j].from] > 1
      PROVE  IpAfter(c, Len(c), j, ipNext[ipSent[j].from] - 1)'
  <2>1. ipNext[ipSent[j].from] \in Nat /\ Len(b) \in Nat /\ Len(c) \in Nat /\ Len(c) = Len(b) - 1
    BY IpSentIs DEF IpTailed
  <2>2. PICK m \in Nat : m = ipNext[ipSent[j].from] - 1 /\ m > 0
    BY <1>3, <2>1
  <2>3. (j = i => k # m + 1) /\ (j = i /\ m = k => k # ipSent[i].pieces)
    BY <1>3, <2>1, <2>2 DEF IpHead
  <2>5. PICK y \in Nat : y = Len(b)
    BY <2>1
  <2>6. IpAfter(c, y - 1, j, m)'
    <3>1. IpAfter(b, y, j, m) /\ y <= Len(b)
      BY <1>3, <2>1, <2>2, <2>5 DEF IpLinked
    <3> QED BY <1>3, <2>2, <2>3, <3>1, IpAfterTail
  <2> QED BY <1>1, <2>1, <2>2, <2>5, <2>6 DEF IpAfter, IpCame
<1> QED BY <1>1, <1>2, <1>3 DEF IpLinked

LEMMA IpTailGathered ==
  ASSUME IpSending, NEW b, IpBuffered(b), IpGathered(b), NEW c, IpTailed(b, c),
         NEW i \in DOMAIN ipSent, NEW k \in Nat, IpHead(b, i, k), NEW pieces,
         IpBuilt(i, k, pieces), IpTakes(i, pieces)
  PROVE  IpGathered(c)'
<1>1. /\ ipSent' = ipSent /\ ipNext' = ipNext
      /\ \A j : IpKey(j)' = IpKey(j) /\ IpEnd(j)' = IpEnd(j) /\ (IpClean(j)' => IpClean(j))
  BY IpSame DEF IpTakes
<1>2. ASSUME NEW x \in DOMAIN c PROVE x + 1 \in DOMAIN b /\ c[x] = b[x + 1] /\ x + 1 # 1
  BY DEF IpTailed
<1>3. ASSUME NEW j \in DOMAIN ipSent, ipSent[j].whole = "yes", NEW z \in DOMAIN b,
             b[z] = IpEnd(j), z # 1
      PROVE  \E v \in DOMAIN c : c[v] = IpEnd(j)
  BY <1>3 DEF IpTailed
<1>4. ASSUME NEW key \in DOMAIN ipPartial, key # IpKey(i), ipPartial'[key] = ipPartial[key]
      PROVE  /\ ipPartial'[key] # <<>> /\ ipPartial'[key][1][1] \in DOMAIN ipSent'
             /\ \A j \in DOMAIN ipSent' : j = ipPartial'[key][1][1] =>
                  /\ IpKey(j)' = key
                  /\ \A x \in DOMAIN c : c[x] # IpAbort /\ IpKey(c[x][1])' = key => j <= c[x][1]
                  /\ IpClean(j)' => \E m \in 1..(ipSent'[j].pieces - 1) : IpBegun(c, j, m)'
  <2>1. PICK j \in DOMAIN ipSent : j = ipPartial[key][1][1]
    BY DEF IpGathered
  <2>2. /\ ipPartial[key] # <<>> /\ IpKey(j) = key
        /\ \A x \in DOMAIN b : b[x] # IpAbort /\ IpKey(b[x][1]) = key => j <= b[x][1]
        /\ IpClean(j) => \E m \in 1..(ipSent[j].pieces - 1) : IpBegun(b, j, m)
    BY <2>1 DEF IpGathered
  <2>4. ASSUME NEW m, IpBegun(b, j, m) PROVE IpBegun(c, j, m)'
    <3>1. /\ ipPartial[IpKey(j)] = IpRun(j, m)
          /\ \A x \in DOMAIN b : b[x][1] = j => m < b[x][2]
          /\ ipSent[j].whole = "no" => m < ipNext[ipSent[j].from]
          /\ ipSent[j].whole = "yes" => \E z \in DOMAIN b : b[z] = IpEnd(j)
      BY <2>4 DEF IpBegun
    <3>3. ASSUME ipSent[j].whole = "yes" PROVE \E v \in DOMAIN c : c[v] = IpEnd(j)
      BY <1>3, <1>4, <2>2, <3>1, <3>3 DEF IpHead, IpEnd
    <3> QED BY <1>1, <1>2, <1>4, <2>2, <3>1, <3>3 DEF IpBegun, IpRun
  <2> QED BY <1>1, <1>2, <1>4, <2>1, <2>2, <2>4
<1>5. ASSUME NEW key, key = IpKey(i), ipPartial'[key] = pieces, Len(pieces) # ipSent[i].pieces
      PROVE  /\ ipPartial'[key] # <<>> /\ ipPartial'[key][1][1] \in DOMAIN ipSent'
             /\ \A j \in DOMAIN ipSent' : j = ipPartial'[key][1][1] =>
                  /\ IpKey(j)' = key
                  /\ \A x \in DOMAIN c : c[x] # IpAbort /\ IpKey(c[x][1])' = key => j <= c[x][1]
                  /\ IpClean(j)' => \E m \in 1..(ipSent'[j].pieces - 1) : IpBegun(c, j, m)'
  <2>1. PICK j \in DOMAIN ipSent : j = pieces[1][1]
    BY DEF IpBuilt
  <2>2. pieces # <<>> /\ IpKey(j) = key /\ j <= i /\ j \in Nat /\ i \in Nat
        /\ (IpClean(j) => IpClean(i) /\ j = i /\ pieces = IpRun(i, k) /\ Len(pieces) = k)
    BY <1>5, <2>1, IpSentIs DEF IpBuilt
  <2>3. ASSUME NEW x \in DOMAIN c, c[x] # IpAbort, IpKey(c[x][1])' = key PROVE j <= c[x][1]
    BY <1>1, <1>2, <1>5, <2>2, <2>3 DEF IpKey, IpHead
  <2>4. ASSUME IpClean(j) PROVE j = i /\ k \in 1..(ipSent[i].pieces - 1) /\ IpBegun(c, i, k)'
    <3>1. j = i /\ pieces = IpRun(i, k) /\ k # ipSent[i].pieces
      BY <1>5, <2>2, <2>4
    <3>3. ASSUME NEW x \in DOMAIN c, c[x][1] = i PROVE k < c[x][2]
      BY <1>2, <2>2, <3>3, IpSentIs DEF IpAbort, IpHead
    <3>4. ASSUME ipSent[i].whole = "yes" PROVE \E v \in DOMAIN c : c[v] = IpEnd(i)
      BY <1>3, <3>1, <3>4 DEF IpHead, IpEnd
    <3> QED BY <1>1, <1>5, <3>1, <3>3, <3>4, IpSentIs DEF IpHead, IpBegun, IpRun
  <2> QED BY <1>1, <1>5, <2>1, <2>2, <2>3, <2>4
<1>6. CASE /\ Len(pieces) = ipSent[i].pieces
           /\ DOMAIN ipPartial' = DOMAIN ipPartial \ {IpKey(i)}
  BY <1>4, <1>6 DEF IpTakes, IpGathered
<1>7. CASE /\ Len(pieces) # ipSent[i].pieces /\ ipPartial'[IpKey(i)] = pieces
           /\ DOMAIN ipPartial' = DOMAIN ipPartial \cup {IpKey(i)}
  BY <1>4, <1>5, <1>7 DEF IpTakes, IpGathered
<1> QED BY <1>6, <1>7 DEF IpTakes

(* The message the piece in front ends is handed over                      *)
IpGives(r, i, pieces) ==
  /\ Len(pieces) = ipSent[i].pieces => ipGot'[r] = Append(ipGot[r], pieces)
  /\ Len(pieces) # ipSent[i].pieces => ipGot'[r] = ipGot[r]

LEMMA IpTailHanded ==
  ASSUME IpSending, NEW r, NEW b, NEW c, IpTailed(b, c), ipBuffer[r] = b, ipBuffer'[r] = c,
         IpHanded(r), ipListener[r] # "ended", NEW i \in DOMAIN ipSent, NEW k \in Nat,
         IpHead(b, i, k), NEW pieces, IpBuilt(i, k, pieces), IpTakes(i, pieces),
         IpGives(r, i, pieces)
  PROVE  IpHanded(r)'
<1>1. /\ ipSent' = ipSent /\ ipNext' = ipNext
      /\ \A j : IpKey(j)' = IpKey(j) /\ (IpClean(j)' <=> IpClean(j))
  BY IpSame DEF IpTakes
<1>2. 1 \in DOMAIN b /\ b[1][1] = i /\ \A x \in DOMAIN c : c[x] = b[x + 1] /\ x + 1 \in DOMAIN b
  BY DEF IpHead, IpTailed
<1>3. ASSUME NEW j \in DOMAIN ipSent, IpClean(j), NEW l, IpIsHanded(r, l, j)
      PROVE  /\ ipGot[r][l] = IpRun(j, ipSent[j].pieces) /\ ipSent[j].whole = "yes" /\ j # i
             /\ \A m \in DOMAIN ipGot[r] : ipGot[r][m][1][1] = j => m = l
             /\ \A x \in DOMAIN c : c[x][1] # j
             /\ IpKey(j) \in DOMAIN ipPartial' => ipPartial'[IpKey(j)][1][1] # j
             /\ pieces[1][1] # j
  <2>1. /\ ipGot[r][l] = IpRun(j, ipSent[j].pieces) /\ ipSent[j].whole = "yes"
        /\ \A m \in DOMAIN ipGot[r] : ipGot[r][m][1][1] = j => m = l
        /\ \A x \in DOMAIN b : b[x][1] # j
        /\ IpKey(j) \in DOMAIN ipPartial => ipPartial[IpKey(j)][1][1] # j
    BY <1>3 DEF IpIsHanded
  <2>2. j # i /\ \A x \in DOMAIN c : c[x][1] # j
    BY <1>2, <2>1
  <2>3. pieces[1][1] # j
    BY <1>3, <2>2 DEF IpBuilt
  <2>4. ASSUME IpKey(j) \in DOMAIN ipPartial' PROVE ipPartial'[IpKey(j)][1][1] # j
    <3>1. CASE IpKey(j) = IpKey(i)
      <4>1. ipPartial'[IpKey(i)] = pieces
        BY <2>4, <3>1 DEF IpTakes
      <4> QED BY <2>3, <3>1, <4>1
    <3>2. CASE IpKey(j) # IpKey(i)
      <4>1. IpKey(j) \in DOMAIN ipPartial /\ ipPartial'[IpKey(j)] = ipPartial[IpKey(j)]
        BY <2>4, <3>2 DEF IpTakes
      <4> QED BY <2>1, <4>1
    <3> QED BY <3>1, <3>2
  <2> QED BY <2>1, <2>2, <2>3, <2>4
<1>4. /\ ipGot[r] \in Seq(Seq(IpPiece))
      /\ \A l \in DOMAIN ipGot[r] :
           /\ ipGot[r][l] # <<>> /\ ipGot[r][l][1][1] \in DOMAIN ipSent
           /\ \A j \in DOMAIN ipSent : j = ipGot[r][l][1][1] /\ IpClean(j) => IpIsHanded(r, l, j)
  BY DEF IpHanded
<1>5. CASE Len(pieces) # ipSent[i].pieces
  <2>1. ipGot'[r] = ipGot[r]
    BY <1>5 DEF IpGives
  <2>2. ASSUME NEW l \in DOMAIN ipGot[r], NEW j \in DOMAIN ipSent, j = ipGot[r][l][1][1], IpClean(j)
        PROVE  IpIsHanded(r, l, j)'
    <3>1. IpIsHanded(r, l, j)
      BY <1>4, <2>2
    <3>2. /\ ipGot[r][l] = IpRun(j, ipSent[j].pieces) /\ ipSent[j].whole = "yes"
          /\ \A m \in DOMAIN ipGot[r] : ipGot[r][m][1][1] = j => m = l
          /\ \A x \in DOMAIN c : c[x][1] # j
          /\ IpKey(j) \in DOMAIN ipPartial' => ipPartial'[IpKey(j)][1][1] # j
      BY <1>3, <2>2, <3>1
    <3> QED BY <1>1, <2>1, <3>2 DEF IpIsHanded, IpRun
  <2> QED BY <1>1, <1>4, <2>1, <2>2 DEF IpHanded
<1>6. CASE Len(pieces) = ipSent[i].pieces
  <2>1. ipGot'[r] = Append(ipGot[r], pieces) /\ IpKey(i) \notin DOMAIN ipPartial'
    BY <1>6 DEF IpGives, IpTakes
  <2>2. PICK g \in Seq(Seq(IpPiece)) : g = ipGot[r]
    BY <1>4
  <2>3. PICK n \in Nat : n = Len(g) /\ DOMAIN g = 1..n
    OBVIOUS
  <2>4. pieces \in Seq(IpPiece)
    BY DEF IpBuilt
  <2>5. PICK h \in Seq(Seq(IpPiece)) :
          h = ipGot'[r] /\ Len(h) = n + 1 /\ h[n + 1] = pieces /\ \A l \in 1..n : h[l] = g[l]
    <3>1. /\ Append(g, pieces) \in Seq(Seq(IpPiece)) /\ Len(Append(g, pieces)) = Len(g) + 1
          /\ Append(g, pieces)[Len(g) + 1] = pieces
          /\ \A l \in 1..Len(g) : Append(g, pieces)[l] = g[l]
      BY <2>4, AppendProperties
    <3> QED BY <2>1, <2>2, <2>3, <3>1
  <2>6. /\ \A l \in DOMAIN g : l \in DOMAIN h /\ h[l] = g[l] /\ l # n + 1
        /\ \A l \in DOMAIN h : l \in DOMAIN g \/ l = n + 1
        /\ n + 1 \in DOMAIN h
    <3>1. DOMAIN h = 1..(n + 1)
      BY <2>5
    <3>2. \A l : (l \in 1..n => l \in 1..(n + 1) /\ l # n + 1)
                 /\ (l \in 1..(n + 1) => l \in 1..n \/ l = n + 1)
      OBVIOUS
    <3>3. n + 1 \in 1..(n + 1)
      OBVIOUS
    <3> QED BY <2>3, <2>5, <3>1, <3>2, <3>3
  <2>7. ASSUME NEW l \in DOMAIN g
        PROVE  /\ h[l] # <<>> /\ h[l][1][1] \in DOMAIN ipSent'
               /\ \A j \in DOMAIN ipSent' : j = h[l][1][1] /\ IpClean(j)' => IpIsHanded(r, l, j)'
    <3>1. ASSUME NEW j \in DOMAIN ipSent, j = g[l][1][1], IpClean(j) PROVE IpIsHanded(r, l, j)'
      <4>1. IpIsHanded(r, l, j)
        BY <1>4, <2>2, <3>1
      <4>0. /\ ipGot[r][l] = IpRun(j, ipSent[j].pieces) /\ ipSent[j].whole = "yes"
            /\ \A m \in DOMAIN ipGot[r] : ipGot[r][m][1][1] = j => m = l
            /\ \A x \in DOMAIN c : c[x][1] # j
            /\ IpKey(j) \in DOMAIN ipPartial' => ipPartial'[IpKey(j)][1][1] # j
            /\ pieces[1][1] # j
        BY <1>3, <3>1, <4>1, Zenon
      <4>2. /\ g[l] = IpRun(j, ipSent[j].pieces)
            /\ \A m \in DOMAIN g : g[m][1][1] = j => m = l
        BY <2>2, <4>0
      <4>3. \A m \in DOMAIN h : h[m][1][1] = j => m = l
        BY <2>5, <2>6, <4>0, <4>2
      <4>4. h[l] = g[l]
        BY <2>6
      <4> QED BY <1>1, <2>5, <4>0, <4>2, <4>3, <4>4 DEF IpIsHanded, IpRun
    <3>2. h[l] = g[l] /\ g[l] # <<>> /\ g[l][1][1] \in DOMAIN ipSent
      BY <1>4, <2>2, <2>6
    <3> QED BY <1>1, <3>1, <3>2
  <2>8. /\ pieces # <<>> /\ pieces[1][1] \in DOMAIN ipSent'
        /\ \A j \in DOMAIN ipSent' : j = pieces[1][1] /\ IpClean(j)' => IpIsHanded(r, n + 1, j)'
    <3>1. ASSUME IpClean(pieces[1][1]) PROVE IpIsHanded(r, n + 1, i)' /\ pieces[1][1] = i
      <4>1. IpClean(i) /\ pieces = IpRun(i, k) /\ pieces[1][1] = i /\ Len(pieces) = k
        BY <3>1 DEF IpBuilt
      <4>2. k = ipSent[i].pieces /\ ipSent[i].whole = "yes"
        BY <1>6, <4>1 DEF IpHead
      <4>3. ASSUME NEW m \in DOMAIN g, g[m][1][1] = i PROVE FALSE
        <5>1. IpIsHanded(r, m, i)
          BY <1>4, <2>2, <4>1, <4>3
        <5> QED BY <1>3, <4>1, <5>1
      <4>4. \A m \in DOMAIN h : h[m][1][1] = i => m = n + 1
        BY <2>6, <4>3
      <4>5. ASSUME NEW x \in DOMAIN c PROVE c[x][1] # i
        <5> SUFFICES ASSUME c[x][1] = i PROVE FALSE
          OBVIOUS
        <5>1. PICK w \in DOMAIN b : b[w] = c[x] /\ w # 1
          BY DEF IpTailed
        <5>2. i \in Nat /\ i # 0 /\ ipSent[i].pieces \in Nat
          BY IpSentIs
        <5>3. b[w] # IpAbort /\ b[w][1] = i
          BY <5>1, <5>2 DEF IpAbort
        <5>6. PICK z : z = b[w]
          OBVIOUS
        <5>7. /\ z[2] \in Nat /\ z[1] = i
              /\ ipSent[z[1]].from = ipSent[i].from => i < z[1] \/ (i = z[1] /\ k < z[2])
              /\ z[1] = i => z[2] <= ipSent[i].pieces
          BY <5>1, <5>3, <5>6 DEF IpHead
        <5>4. b[w][2] \in Nat /\ k < b[w][2] /\ b[w][2] <= ipSent[i].pieces
          BY <5>2, <5>6, <5>7
        <5>5. PICK p \in Nat, y \in Nat : p = ipSent[i].pieces /\ y = b[w][2]
          BY <5>2, <5>4
        <5>8. k = p /\ k < y /\ y <= p
          BY <4>2, <5>4, <5>5
        <5> QED BY <5>5, <5>8
      <4> QED BY <1>1, <2>1, <2>5, <4>1, <4>2, <4>4, <4>5 DEF IpIsHanded, IpRun
    <3>2. pieces # <<>> /\ pieces[1][1] \in DOMAIN ipSent
      BY DEF IpBuilt
    <3> QED BY <1>1, <3>1, <3>2
  <2>9. ASSUME NEW l \in DOMAIN h
        PROVE  /\ h[l] # <<>> /\ h[l][1][1] \in DOMAIN ipSent'
               /\ \A j \in DOMAIN ipSent' : j = h[l][1][1] /\ IpClean(j)' => IpIsHanded(r, l, j)'
    BY <2>5, <2>6, <2>7, <2>8
  <2> QED BY <2>5, <2>9 DEF IpHanded
<1> QED BY <1>5, <1>6

(* A receiver that ends leaves what is on the way to nobody                *)
LEMMA IpEndStays ==
  ASSUME IpAlone, IpInv, NEW r \in IpRecver, ipSent' = ipSent, ipNext' = ipNext, ipGot' = ipGot,
         IpTypes', ipListener'[r] = "ended",
         \A c : c = ipBuffer'[r] => IpBuffered(c)
  PROVE  IpInv'
<1>1. IpSending' /\ \A j : IpKey(j)' = IpKey(j) /\ (IpClean(j)' <=> IpClean(j))
  BY IpSame, IpStill DEF IpInv
<1>2. ASSUME NEW q \in IpRecver PROVE IpReceiving(q)'
  <2>2. PICK c : c = ipBuffer'[q]
    OBVIOUS
  <2>5. ASSUME NEW l \in DOMAIN ipGot[r], NEW j \in DOMAIN ipSent, IpIsHanded(r, l, j)
        PROVE  IpIsHanded(r, l, j)'
    BY <2>5 DEF IpIsHanded, IpRun
  <2> QED BY <1>1, <2>2, <2>5, IpSame DEF IpReceiving, IpHanded, IpInv, IpAlone
<1> QED BY <1>1, <1>2 DEF IpInv

LEMMA IpTakesIs ==
  ASSUME NEW r \in IpRecver, NEW p, IpGather(r, p), ipSent' = ipSent, ipNext' = ipNext,
         ipGot = [q \in IpRecver |-> ipGot[q]], NEW pieces,
         pieces = Append(IpCameBefore(IpKey(p[1])), p)
  PROVE  IpTakes(p[1], pieces) /\ IpGives(r, p[1], pieces)
<1>1. PICK key : key = IpKey(p[1])
  OBVIOUS
<1>2. /\ ipPartial' = IF Len(pieces) = ipSent[p[1]].pieces THEN IpWithout(key)
                      ELSE [k \in DOMAIN ipPartial \cup {key} |->
                              IF k = key THEN pieces ELSE ipPartial[k]]
      /\ ipGot' = IF Len(pieces) = ipSent[p[1]].pieces
                  THEN [ipGot EXCEPT ![r] = Append(@, pieces)] ELSE ipGot
  BY <1>1 DEF IpGather, IpCameBefore
<1>3. CASE Len(pieces) = ipSent[p[1]].pieces
  BY <1>1, <1>2, <1>3 DEF IpWithout, IpTakes, IpGives
<1>4. CASE Len(pieces) # ipSent[p[1]].pieces
  BY <1>1, <1>2, <1>4 DEF IpTakes, IpGives
<1> QED BY <1>3, <1>4

LEMMA IpRecvStays ==
  ASSUME IpAlone, IpInv, NEW r \in IpRecver, IpRecvfrom(r) \/ IpRecvFails(r)
  PROVE  IpInv'
<1>1. IpSending /\ IpTypes /\ IpReceiving(r) /\ ipListener[r] = "listening"
  BY DEF IpInv, IpRecvfrom, IpRecvFails
<1>2. ipSent' = ipSent /\ ipNext' = ipNext /\ ipStopped' = ipStopped
  BY DEF IpRecvfrom, IpRecvFails, ipSendVars
<1>3. PICK b : b = ipBuffer[r]
  OBVIOUS
<1>4. /\ IpBuffered(b) /\ IpLinked(b) /\ IpGathered(b) /\ IpHanded(r)
      /\ b \in Seq(IpPiece \cup {IpAbort})
  BY <1>1, <1>3 DEF IpReceiving, IpBuffered
<1>5. CASE IpRecvFails(r)
  BY <1>1, <1>2, <1>3, <1>4, <1>5, IpEndStays DEF IpRecvFails, IpTypes
<1>6. CASE IpRecvfrom(r)
  <2>1. b # <<>> /\ ipBuffer' = [ipBuffer EXCEPT ![r] = Tail(b)]
    BY <1>3, <1>6 DEF IpRecvfrom
  <2>2. PICK c : c = Tail(b)
    OBVIOUS
  <2>3. IpTailed(b, c) /\ c \in Seq(IpPiece \cup {IpAbort}) /\ Head(b) = b[1]
    BY <1>4, <2>1, <2>2, IpTailIs
  <2>4. IpBuffered(c)
    BY <1>4, <2>3, IpTailBuffered
  <2>5. c = ipBuffer'[r] /\ ipBuffer' = [q \in IpRecver |-> ipBuffer'[q]]
    BY <1>1, <2>1, <2>2 DEF IpTypes
  <2>6. CASE b[1] = IpAbort
    <3>1. /\ ipListener' = [ipListener EXCEPT ![r] = "ended"]
          /\ ipPartial' = ipPartial /\ ipGot' = ipGot /\ ipAddr' = ipAddr
      BY <1>3, <1>6, <2>3, <2>6 DEF IpRecvfrom
    <3> QED BY <1>1, <1>2, <2>4, <2>5, <3>1, IpEndStays DEF IpTypes
  <2>7. CASE b[1] # IpAbort
    <3>1. PICK i \in DOMAIN ipSent, k \in Nat : IpHead(b, i, k)
      BY <1>1, <1>4, <2>3, <2>7, IpHeadIs
    <3>2. PICK p : p = b[1] /\ p[1] = i
      BY <3>1 DEF IpHead
    <3>3. PICK pieces : pieces = Append(IpCameBefore(IpKey(i)), p)
      OBVIOUS
    <3>4. IpBuilt(i, k, pieces)
      BY <1>1, <1>4, <3>1, <3>2, <3>3, IpBuiltIs
    <3>5. IpGather(r, p) /\ ipListener' = ipListener
          /\ ipAddr' = [ipAddr EXCEPT ![r] =
                          IF ipSent[i].from \in IpNamed THEN ipSent[i].from ELSE @]
      BY <1>3, <1>6, <2>3, <2>7, <3>2 DEF IpRecvfrom
    <3>6. IpTakes(i, pieces) /\ IpGives(r, i, pieces)
      BY <1>1, <1>2, <3>2, <3>3, <3>5, IpTakesIs DEF IpTypes
    <3>7. IpLinked(c)'
      BY <1>1, <1>4, <2>3, <3>1, <3>4, <3>6, IpTailLinked
    <3>8. IpGathered(c)'
      BY <1>1, <1>4, <2>3, <3>1, <3>4, <3>6, IpTailGathered
    <3>9. IpHanded(r)'
      BY <1>1, <1>3, <1>4, <2>3, <2>5, <3>1, <3>4, <3>6, IpTailHanded
    <3>10. IpBuffered(c)'
      BY <1>2, <2>4, IpSame
    <3>11. IpReceiving(r)'
      BY <2>5, <3>7, <3>8, <3>9, <3>10 DEF IpReceiving
    <3>12. IpTypes'
      <4>2. ipAddr' \in [IpRecver -> IpSender \cup IpRecver]
        BY <1>1, <3>1, <3>5, IpSentIs DEF IpTypes
      <4>4. \A key \in DOMAIN ipPartial' :
              key \in IpSender \X IpPieces /\ ipPartial'[key] \in Seq(IpPiece)
        <5> TAKE key \in DOMAIN ipPartial'
        <5>1. CASE key = IpKey(i)
          BY <1>1, <3>1, <3>4, <3>6, <5>1, IpSentIs DEF IpTakes, IpBuilt, IpRecord, IpKey
        <5>2. CASE key # IpKey(i)
          BY <1>1, <3>6, <5>2 DEF IpTakes, IpTypes
        <5> QED BY <5>1, <5>2
      <4> QED BY <1>1, <1>2, <2>5, <3>5, <4>2, <4>4 DEF IpTypes, IpGather
    <3> QED BY <1>1, <1>2, <3>11, <3>12, IpStill DEF IpInv, IpAlone
  <2> QED BY <2>6, <2>7
<1> QED BY <1>5, <1>6

LEMMA IpBegins == IpInit => IpInv
<1> SUFFICES ASSUME IpInit PROVE IpInv
  OBVIOUS
<1>1. /\ ipSent = <<>> /\ DOMAIN ipSent = {} /\ Len(ipSent) = 0
      /\ ipNext = [s \in IpSender |-> 0]
      /\ ipBuffer = [r \in IpRecver |-> <<>>] /\ ipPartial = <<>> /\ DOMAIN ipPartial = {}
      /\ ipListener = [r \in IpRecver |-> "no"] /\ ipStopped = [r \in IpRecver |-> "no"]
      /\ ipAddr = [r \in IpRecver |-> r] /\ ipGot = [r \in IpRecver |-> <<>>]
  BY DEF IpInit
<1>5. ASSUME NEW r \in IpRecver PROVE IpReceiving(r)
  <2>1. PICK b : b = ipBuffer[r]
    OBVIOUS
  <2> QED BY <1>1, <2>1 DEF IpReceiving, IpLinked, IpGathered, IpBuffered, IpHanded
<1> QED BY <1>1, <1>5, IpBoundsAssumption DEF IpInv, IpTypes, IpSending

LEMMA IpStays ==
  ASSUME IpAlone, IpInv, [IpNext]_ipVars
  PROVE  IpInv'
<1>1. ASSUME NEW s \in IpSender, IpSendto(s) \/ IpSendFails(s) PROVE IpInv'
  BY <1>1, IpSendtoStays
<1>2. ASSUME NEW s \in IpSender, NEW n \in IpPieces, IpSend(s, n) PROVE IpInv'
  BY <1>2, IpSendStays
<1>3. ASSUME NEW r \in IpRecver, IpListen(r) \/ IpStop(r) \/ IpStopFails(r)
      PROVE  IpInv'
  BY <1>3, IpStopStays
<1>4. ASSUME NEW r \in IpRecver, IpRecvfrom(r) \/ IpRecvFails(r) PROVE IpInv'
  BY <1>4, IpRecvStays
<1>5. CASE UNCHANGED ipVars
  BY <1>5, IpStill, IpSendsStay DEF ipVars, IpInv, IpTypes
<1> QED BY <1>1, <1>2, <1>3, <1>4, <1>5 DEF IpNext

IpRight(r, k, got, i) ==
  \/ \E j \in 1..i : ipSent[j].whole = "failed" /\ IpKey(j) = IpKey(i)
  \/ /\ got = [n \in 1..ipSent[i].pieces |-> <<i, n>>]
     /\ IpTo[ipSent[i].from] = r
     /\ \A l \in DOMAIN ipGot[r] : ipGot[r][l] = got => l = k

LEMMA IpGotIs ==
  ASSUME IpAlone, IpInv
  PROVE  GotWhatWasSent
<1>1. ASSUME NEW r \in IpRecver, NEW k \in DOMAIN ipGot[r], NEW got, got = ipGot[r][k],
             NEW i, i = got[1][1]
      PROVE  IpRight(r, k, got, i)
  <2>1. i \in DOMAIN ipSent /\ (IpClean(i) => IpIsHanded(r, k, i))
    BY <1>1 DEF IpInv, IpReceiving, IpHanded
  <2>2. CASE IpClean(i)
    BY <1>1, <2>1, <2>2, IpSentIs, IpToAssumption DEF IpInv, IpAlone, IpRun, IpRight, IpIsHanded
  <2>3. CASE ~IpClean(i)
    BY <2>3 DEF IpClean, IpRight
  <2> QED BY <2>2, <2>3
<1>2. ASSUME NEW r \in IpRecver, NEW k \in DOMAIN ipGot[r]
      PROVE  IpRight(r, k, ipGot[r][k], ipGot[r][k][1][1])
  <2>1. PICK got : got = ipGot[r][k]
    OBVIOUS
  <2>2. PICK i : i = got[1][1]
    OBVIOUS
  <2> QED BY <1>1, <2>1, <2>2
<1> QED BY <1>2 DEF GotWhatWasSent, IpRight

LEMMA IpcMoves == [ServicesNext]_serviceVars => [IpNext]_ipVars
BY DEF ServicesNext, serviceVars, QueueStep, IpcStep, ClientsStep, SentencesStep

(* A message that is sent from one thread or process to another has one    *)
(* owner, and arrives with all its pieces, in order and once, however the  *)
(* pieces of several senders mix and whatever fails.  The receiver is the  *)
(* only one of its process: a recvfrom that fails for another one would    *)
(* clear the map that they share.  No timer calls back while the task is   *)
(* destroyed (linked_list.c:115-207, MsgTask.cpp:76-95,                    *)
(* LocIpc.cpp:102-180).                                                    *)
THEOREM MessagesAlwaysArriveWhole ==
  MqTroubles = {} /\ IpAlone => (ServicesSpec => []MessagesArriveWhole)
<1> SUFFICES ASSUME MqTroubles = {}, IpAlone PROVE ServicesSpec => []MessagesArriveWhole
  OBVIOUS
<1>1. ServicesInit => IpInv
  BY IpBegins DEF ServicesInit
<1>2. IpInv /\ [ServicesNext]_serviceVars => IpInv'
  BY IpcMoves, IpStays
<1>3. ServicesSpec => []MqInv
  BY QueueKept
<1>4. MqInv /\ IpInv => MessagesArriveWhole
  BY IpGotIs, MqOneOwner DEF MessagesArriveWhole
<1> QED BY <1>1, <1>2, <1>3, <1>4, PTL DEF ServicesSpec

-----------------------------------------------------------------------------
(* Types *)

(* What the message thread finds in a message of each kind *)
LEMMA MessageParts ==
  ASSUME NEW m \in Message
  PROVE  /\ m.kind \in {"subscribe", "request", "update", "unsubscribe"} =>
              m.client \in Client /\ m.items \in SUBSET Item
         /\ m.kind = "unsubscribeAll" => m.client \in Client
         /\ m.kind = "notify" => m.news \in Report
BY DEF Message

LEMMA HeadParts ==
  ASSUME TypeOK, inbox # <<>>
  PROVE  Head(inbox) \in Message /\ Tail(inbox) \in Seq(Message)
BY DEF TypeOK

LEMMA MapsType ==
  ASSUME NEW map \in [Item -> SUBSET Client], NEW keys \in SUBSET Item,
         NEW c \in Client
  PROVE  /\ Added(map, keys, c) \in [Item -> SUBSET Client]
         /\ Trimmed(map, keys, c) \in [Item -> SUBSET Client]
         /\ NewKeys(map, keys) \in SUBSET Item
         /\ GoneKeys(map, keys, c) \in SUBSET Item
         /\ Keys(map) \in SUBSET Item
BY DEF Added, Trimmed, NewKeys, GoneKeys, Keys

LEMMA CachedType ==
  ASSUME TypeOK, NEW c \in Client, NEW items \in SUBSET Item,
         SendCachedDataItems(c, items)
  PROVE  told' \in [Client -> [Item -> Value \cup {None}]]
BY DEF SendCachedDataItems, TypeOK

LEMMA AskType ==
  ASSUME TypeOK, NEW watch \in SUBSET Item, NEW poll \in SUBSET Item,
         NEW stop \in SUBSET Item, Ask(watch, poll, stop)
  PROVE  framework' \in SUBSET Item /\ polled' \in SUBSET Item
BY DEF Ask, TypeOK

LEMMA SendType ==
  ASSUME TypeOK, NEW m \in Message, Send(m)
  PROVE  /\ inbox' \in Seq(Message) /\ sent' \in Nat
         /\ UNCHANGED <<clientToItems, itemToClients, cache, connected,
                        framework, polled, told>>
BY DEF Send, TypeOK

LEMMA DropType ==
  ASSUME TypeOK, NEW c \in Client, NEW items \in SUBSET Item, Drop(c, items)
  PROVE  /\ clientToItems' \in [Client -> SUBSET Item]
         /\ itemToClients' \in [Item -> SUBSET Client]
         /\ framework' \in SUBSET Item /\ polled' \in SUBSET Item
         /\ UNCHANGED <<cache, connected, told>>
<1> DEFINE dropped == clientToItems[c] \cap items
<1> QED BY AskType, MapsType DEF Drop, TypeOK

(* Every variable keeps its type: no message carries what its handler does *)
(* not expect.                                                             *)
THEOREM TypeCorrect == Spec => []TypeOK
<1>1. Init => TypeOK
  <2> SUFFICES ASSUME Init PROVE TypeOK
    OBVIOUS
  <2>1. inbox \in Seq(Message)
    BY DEF Init
  <2> QED BY <2>1 DEF Init, TypeOK
<1>2. TypeOK /\ [Next]_vars => TypeOK'
  <2> SUFFICES ASSUME TypeOK, [Next]_vars PROVE TypeOK'
    OBVIOUS
  <2>1. CASE ClientNext
    <3>1. ASSUME NEW c \in Client, NEW items \in SUBSET Item,
                 NEW kind \in {"subscribe", "request", "update", "unsubscribe"},
                 SendItems(kind, c, items), wants' \in [Client -> SUBSET Item]
          PROVE  TypeOK'
      BY <3>1, SendType DEF Message, SendItems, TypeOK
    <3>2. ASSUME NEW c \in Client, UnsubscribeAll(c) PROVE TypeOK'
      BY <3>2, SendType DEF Message, UnsubscribeAll, TypeOK
    <3>3. ASSUME NEW c \in Client, NEW items \in SUBSET Item
          PROVE  /\ [wants EXCEPT ![c] = @ \cup items] \in [Client -> SUBSET Item]
                 /\ [wants EXCEPT ![c] = items] \in [Client -> SUBSET Item]
                 /\ [wants EXCEPT ![c] = @ \ items] \in [Client -> SUBSET Item]
      BY DEF TypeOK
    <3>4. ASSUME NEW c \in Client, NEW items \in SUBSET Item, Subscribe(c, items)
          PROVE  TypeOK'
      BY <3>1, <3>3, <3>4 DEF Subscribe
    <3>5. ASSUME NEW c \in Client, NEW items \in SUBSET Item, RequestData(c, items)
          PROVE  TypeOK'
      BY <3>1, <3>3, <3>5 DEF RequestData
    <3>6. ASSUME NEW c \in Client, NEW items \in SUBSET Item,
                 UpdateSubscription(c, items)
          PROVE  TypeOK'
      BY <3>1, <3>3, <3>6 DEF UpdateSubscription
    <3>7. ASSUME NEW c \in Client, NEW items \in SUBSET Item, Unsubscribe(c, items)
          PROVE  TypeOK'
      BY <3>1, <3>3, <3>7 DEF Unsubscribe
    <3> QED BY <2>1, <3>2, <3>4, <3>5, <3>6, <3>7 DEF ClientNext
  <2>2. CASE FrameworkNext
    BY <2>2, SendType DEF Message, Notify, TypeOK, SetSubscriptionObj, FrameworkNext
  <2>3. CASE MsgTaskNext
    <3> DEFINE c == Head(inbox).client
               items == Head(inbox).items
    <3>1. ASSUME NEW kind \in {"subscribe", "request"}, HandleSubscribe(kind)
          PROVE  TypeOK'
      <4>1. c \in Client /\ items \in SUBSET Item /\ Tail(inbox) \in Seq(Message)
        BY <3>1, HeadParts, MessageParts DEF HandleSubscribe, Receive
      <4>2. /\ Added(itemToClients, items, c) \in [Item -> SUBSET Client]
            /\ NewKeys(itemToClients, items) \in SUBSET Item
        BY <4>1, MapsType DEF TypeOK
      <4>4. framework' \in SUBSET Item /\ polled' \in SUBSET Item
        BY <3>1, <4>2, AskType DEF HandleSubscribe
      <4> QED BY <3>1, <4>1, <4>2, <4>4, CachedType DEF HandleSubscribe, Receive, TypeOK
    <3>2. ASSUME HandleUpdateSubscription PROVE TypeOK'
      <4>1. c \in Client /\ items \in SUBSET Item /\ Tail(inbox) \in Seq(Message)
        BY <3>2, HeadParts, MessageParts DEF HandleUpdateSubscription, Receive
      <4> DEFINE trimmed(common) == Trimmed(itemToClients, common, c)
                 rest(common) == items \ common
      <4>2. PICK common \in Intersets(clientToItems[c], items) :
              /\ itemToClients' = Added(trimmed(common), rest(common), c)
              /\ SendCachedDataItems(c, rest(common))
              /\ Ask(NewKeys(trimmed(common), rest(common)), {},
                     GoneKeys(itemToClients, common, c))
        BY <3>2 DEF HandleUpdateSubscription
      <4>3. common \in SUBSET Item /\ rest(common) \in SUBSET Item
        BY <4>1, <4>2 DEF Intersets, TypeOK
      <4>4. trimmed(common) \in [Item -> SUBSET Client]
        BY <4>1, <4>3, MapsType DEF TypeOK
      <4> HIDE DEF trimmed, rest
      <4>5. /\ Added(trimmed(common), rest(common), c) \in [Item -> SUBSET Client]
            /\ NewKeys(trimmed(common), rest(common)) \in SUBSET Item
            /\ GoneKeys(itemToClients, common, c) \in SUBSET Item
        BY <4>1, <4>3, <4>4, MapsType DEF TypeOK
      <4>6. told' \in [Client -> [Item -> Value \cup {None}]]
        BY <4>1, <4>2, <4>3, CachedType
      <4> QED BY <3>2, <4>1, <4>2, <4>5, <4>6, AskType DEF HandleUpdateSubscription, Receive,
        TypeOK
    <3>3. ASSUME HandleUnsubscribe PROVE TypeOK'
      BY <3>3, HeadParts, MessageParts, DropType DEF HandleUnsubscribe, Receive, TypeOK
    <3>4. ASSUME HandleUnsubscribeAll PROVE TypeOK'
      BY <3>4, HeadParts, MessageParts, DropType DEF HandleUnsubscribeAll, Receive, TypeOK
    <3>5. ASSUME HandleNotify PROVE TypeOK'
      BY <3>5, HeadParts, MessageParts DEF HandleNotify, Receive, TypeOK, Report
    <3>6. ASSUME HandleConnect PROVE TypeOK'
      BY <3>6, HeadParts DEF HandleConnect, Receive, TypeOK, Keys
    <3> QED BY <2>3, <3>1, <3>2, <3>3, <3>4, <3>5, <3>6 DEF MsgTaskNext
  <2>4. CASE UNCHANGED vars
    BY <2>4 DEF vars, TypeOK
  <2> QED BY <2>1, <2>2, <2>3, <2>4 DEF Next
<1> QED BY <1>1, <1>2, PTL DEF Spec

-----------------------------------------------------------------------------
(* The inductive invariant                                                 *)

HasClient(m) == m.kind \notin {"notify", "connect"}
From(m, c) == HasClient(m) /\ m.client = c

(* A client that has sent nothing has nothing, here or under way, and an   *)
(* update is the first that its client sent.                               *)
UpdatesComeFirst ==
  /\ \A c \in Client \ started :
       /\ clientToItems[c] = {}
       /\ \A k \in 1..Len(inbox) : ~From(inbox[k], c)
  /\ \A k \in 1..Len(inbox) : inbox[k].kind = "update" =>
       /\ clientToItems[inbox[k].client] = {}
       /\ \A j \in 1..(k - 1) : ~From(inbox[j], inbox[k].client)

(* Whoever has an item was told its latest value, and nobody was told of   *)
(* an item without one                                                     *)
NobodyIsStale ==
  \A c \in Client, i \in Item :
    /\ i \in clientToItems[c] => told[c][i] = cache[i]
    /\ cache[i] = None => told[c][i] = None

(* A message decides whether its client has the item, and how *)
Touches(m, c, i) ==
  From(m, c) /\ (m.kind \in {"update", "unsubscribeAll"} \/ i \in m.items)
Adds(m, i) == m.kind \in {"subscribe", "request", "update"} /\ i \in m.items

(* What a client wants of an item is what the last message about it says,  *)
(* or else what the client has                                             *)
WantsFollow ==
  \A c \in Client, i \in Item :
    /\ (\A k \in 1..Len(inbox) : ~Touches(inbox[k], c, i)) =>
         (i \in wants[c] <=> i \in clientToItems[c])
    /\ \A k \in 1..Len(inbox) :
         /\ Touches(inbox[k], c, i)
         /\ \A j \in (k + 1)..Len(inbox) : ~Touches(inbox[j], c, i)
         => (i \in wants[c] <=> Adds(inbox[k], i))

Inv ==
  /\ TypeOK
  /\ UpdatesComeFirst
  /\ MapsMatch
  /\ FrameworkIsAsked
  /\ NobodyIsStale
  /\ WantsFollow

-----------------------------------------------------------------------------
(* The inbox *)

LEMMA InboxSend ==
  ASSUME TypeOK, NEW m \in Message, Send(m)
  PROVE  /\ Len(inbox) \in Nat
         /\ Len(inbox') = Len(inbox) + 1
         /\ inbox'[Len(inbox) + 1] = m
         /\ \A k \in 1..Len(inbox) : inbox'[k] = inbox[k]
BY DEF Send, TypeOK

LEMMA InboxReceive ==
  ASSUME TypeOK, NEW kind, Receive(kind)
  PROVE  /\ Len(inbox) \in Nat \ {0}
         /\ Len(inbox') = Len(inbox) - 1
         /\ Head(inbox) = inbox[1]
         /\ inbox[1].kind = kind
         /\ \A k \in 1..Len(inbox') : inbox'[k] = inbox[k + 1]
BY DEF Receive, TypeOK

LEMMA SendKeepsFirst ==
  ASSUME TypeOK, UpdatesComeFirst, NEW m \in Message, Send(m),
         started \subseteq started',
         \A c \in Client : From(m, c) => c \in started',
         m.kind = "update" => m.client \notin started
  PROVE  UpdatesComeFirst'
<1>2. ASSUME NEW c \in Client \ started', NEW k \in 1..Len(inbox')
      PROVE  ~From(inbox'[k], c)
  <2>1. CASE k \in 1..Len(inbox)
    BY <2>1, InboxSend DEF UpdatesComeFirst
  <2>2. CASE k = Len(inbox) + 1
    BY <2>2, InboxSend
  <2> QED BY <2>1, <2>2, InboxSend
<1>3. ASSUME NEW k \in 1..Len(inbox'), inbox'[k].kind = "update"
      PROVE  /\ clientToItems[inbox'[k].client] = {}
             /\ \A j \in 1..(k - 1) : ~From(inbox'[j], inbox'[k].client)
  <2>1. CASE k \in 1..Len(inbox)
    <3>1. \A j \in 1..(k - 1) : j \in 1..Len(inbox)
      BY <2>1, InboxSend
    <3> QED BY <1>3, <2>1, <3>1, InboxSend DEF UpdatesComeFirst
  <2>2. CASE k = Len(inbox) + 1
    BY <1>3, <2>2, InboxSend, MessageParts DEF UpdatesComeFirst
  <2> QED BY <2>1, <2>2, InboxSend
<1> QED BY <1>2, <1>3 DEF UpdatesComeFirst, Send

LEMMA ReceiveKeepsFirst ==
  ASSUME TypeOK, UpdatesComeFirst, NEW kind, Receive(kind),
         \A c \in Client :
           From(Head(inbox), c) \/ clientToItems'[c] = clientToItems[c]
  PROVE  UpdatesComeFirst'
<1>2. \A k \in 1..Len(inbox') : k + 1 \in 1..Len(inbox) /\ inbox'[k] = inbox[k + 1]
  BY InboxReceive
<1>3. 1 \in 1..Len(inbox) /\ Head(inbox) = inbox[1]
  BY InboxReceive
<1>4. ASSUME NEW c \in Client \ started
      PROVE  /\ clientToItems'[c] = {}
             /\ \A k \in 1..Len(inbox') : ~From(inbox'[k], c)
  BY <1>2, <1>3, <1>4 DEF UpdatesComeFirst
<1>5. ASSUME NEW k \in 1..Len(inbox'), inbox'[k].kind = "update"
      PROVE  /\ clientToItems'[inbox'[k].client] = {}
             /\ \A j \in 1..(k - 1) : ~From(inbox'[j], inbox'[k].client)
  <2> DEFINE c == inbox[k + 1].client
  <2>1. inbox[k + 1] \in Message /\ inbox[k + 1].kind = "update" /\ k + 1 \in 1..Len(inbox)
    BY <1>2, <1>5 DEF TypeOK
  <2>3. clientToItems[c] = {} /\ \A j \in 1..k : ~From(inbox[j], c)
    BY <2>1 DEF UpdatesComeFirst
  <2>4. \A j \in 1..(k - 1) : j + 1 \in 1..k /\ j \in 1..Len(inbox')
    OBVIOUS
  <2>5. ~From(Head(inbox), c)
    BY <1>3, <2>3
  <2> QED BY <1>2, <2>1, <2>3, <2>4, <2>5, MessageParts
<1> QED BY <1>4, <1>5 DEF UpdatesComeFirst, Receive

LEMMA SendKeepsWants ==
  ASSUME TypeOK, WantsFollow, NEW m \in Message, Send(m),
         \A c \in Client, i \in Item :
           i \in wants'[c] <=> IF Touches(m, c, i) THEN Adds(m, i) ELSE i \in wants[c]
  PROVE  WantsFollow'
<1> SUFFICES ASSUME NEW c \in Client, NEW i \in Item
    PROVE  /\ (\A k \in 1..Len(inbox') : ~Touches(inbox'[k], c, i)) =>
                (i \in wants'[c] <=> i \in clientToItems[c])
           /\ \A k \in 1..Len(inbox') :
                /\ Touches(inbox'[k], c, i)
                /\ \A j \in (k + 1)..Len(inbox') : ~Touches(inbox'[j], c, i)
                => (i \in wants'[c] <=> Adds(inbox'[k], i))
  BY DEF WantsFollow, Send
<1> DEFINE n == Len(inbox) + 1
<1>2. /\ Len(inbox') = n /\ inbox'[n] = m /\ n \in Nat
      /\ \A k \in 1..Len(inbox) : inbox'[k] = inbox[k] /\ k \in 1..n
      /\ \A k \in 1..n : k \in 1..Len(inbox) \/ k = n
  BY InboxSend
<1>3. CASE Touches(m, c, i)
  BY <1>2, <1>3
<1>4. CASE ~Touches(m, c, i)
  BY <1>2, <1>4 DEF WantsFollow
<1> QED BY <1>3, <1>4

LEMMA ReceiveKeepsWants ==
  ASSUME TypeOK, WantsFollow, NEW kind, Receive(kind),
         \A c \in Client, i \in Item :
           i \in clientToItems'[c] <=>
             IF Touches(Head(inbox), c, i) THEN Adds(Head(inbox), i)
             ELSE i \in clientToItems[c]
  PROVE  WantsFollow'
<1> SUFFICES ASSUME NEW c \in Client, NEW i \in Item
    PROVE  /\ (\A k \in 1..Len(inbox') : ~Touches(inbox'[k], c, i)) =>
                (i \in wants[c] <=> i \in clientToItems'[c])
           /\ \A k \in 1..Len(inbox') :
                /\ Touches(inbox'[k], c, i)
                /\ \A j \in (k + 1)..Len(inbox') : ~Touches(inbox'[j], c, i)
                => (i \in wants[c] <=> Adds(inbox'[k], i))
  BY DEF WantsFollow, Receive
<1>2. /\ Len(inbox) \in Nat \ {0} /\ Len(inbox') = Len(inbox) - 1
      /\ Head(inbox) = inbox[1] /\ 1 \in 1..Len(inbox)
      /\ \A k \in 1..Len(inbox') : inbox'[k] = inbox[k + 1] /\ k + 1 \in 1..Len(inbox)
  BY InboxReceive
<1>3. \A k \in 2..Len(inbox) : k - 1 \in 1..Len(inbox') /\ inbox'[k - 1] = inbox[k]
  BY <1>2, InboxReceive
<1>4. ASSUME \A k \in 1..Len(inbox') : ~Touches(inbox'[k], c, i)
      PROVE  i \in wants[c] <=> i \in clientToItems'[c]
  <2>1. \A k \in (1 + 1)..Len(inbox) : ~Touches(inbox[k], c, i)
    BY <1>3, <1>4
  <2>2. CASE Touches(inbox[1], c, i)
    BY <1>2, <2>1, <2>2 DEF WantsFollow
  <2>3. CASE ~Touches(inbox[1], c, i)
    BY <1>2, <2>1, <2>3 DEF WantsFollow
  <2> QED BY <2>2, <2>3
<1>5. ASSUME NEW k \in 1..Len(inbox'), Touches(inbox'[k], c, i),
             \A j \in (k + 1)..Len(inbox') : ~Touches(inbox'[j], c, i)
      PROVE  i \in wants[c] <=> Adds(inbox'[k], i)
  BY <1>2, <1>3, <1>5 DEF WantsFollow
<1> QED BY <1>4, <1>5

-----------------------------------------------------------------------------
(* The handlers *)

(* What HandleSubscribeReq does, and HandleUpdateSubscriptionReq for a      *)
(* client that has nothing yet                                             *)
Subscribed(c, items) ==
  /\ clientToItems' = [clientToItems EXCEPT ![c] = @ \cup items]
  /\ itemToClients' = Added(itemToClients, items, c)
  /\ SendCachedDataItems(c, items)
  /\ framework' \cup polled' =
       framework \cup polled \cup IF connected THEN NewKeys(itemToClients, items) ELSE {}
  /\ UNCHANGED <<cache, connected>>

LEMMA SubscribeIsSubscribed ==
  ASSUME NEW kind \in {"subscribe", "request"}, HandleSubscribe(kind)
  PROVE  Subscribed(Head(inbox).client, Head(inbox).items)
BY DEF HandleSubscribe, Subscribed, Ask

LEMMA UpdateIsSubscribed ==
  ASSUME TypeOK, UpdatesComeFirst, HandleUpdateSubscription
  PROVE  /\ Subscribed(Head(inbox).client, Head(inbox).items)
         /\ clientToItems[Head(inbox).client] = {}
<1> DEFINE c == Head(inbox).client
           items == Head(inbox).items
<1>1. Receive("update") /\ Head(inbox) \in Message
  BY HeadParts DEF HandleUpdateSubscription, Receive
<1>2. Head(inbox) = inbox[1] /\ 1 \in 1..Len(inbox) /\ Head(inbox).kind = "update"
  BY <1>1, InboxReceive
<1>3. c \in Client /\ items \in SUBSET Item
  BY <1>1, <1>2, MessageParts
<1>6. Trimmed(itemToClients, {}, c) = itemToClients /\ GoneKeys(itemToClients, {}, c) = {}
  BY DEF Trimmed, GoneKeys, TypeOK
<1> QED BY <1>2, <1>6 DEF Subscribed, Ask, HandleUpdateSubscription, Intersets, UpdatesComeFirst

LEMMA SubscribedKeeps ==
  ASSUME TypeOK, MapsMatch, FrameworkIsAsked, NobodyIsStale,
         NEW c \in Client, NEW items \in SUBSET Item, Subscribed(c, items)
  PROVE  MapsMatch' /\ FrameworkIsAsked' /\ NobodyIsStale'
<1>1. \A d \in Client, i \in Item :
        /\ i \in clientToItems'[d] <=> i \in clientToItems[d] \/ (d = c /\ i \in items)
        /\ d \in itemToClients'[i] <=> d \in itemToClients[i] \/ (d = c /\ i \in items)
  BY DEF Subscribed, Added, TypeOK
<1>2. Keys(itemToClients') = Keys(itemToClients) \cup NewKeys(itemToClients, items)
  BY DEF Keys, NewKeys, Subscribed, Added, TypeOK
<1>4. NobodyIsStale'
  BY <1>1 DEF Subscribed, SendCachedDataItems, TypeOK, NobodyIsStale
<1> QED BY <1>1, <1>2, <1>4 DEF MapsMatch, FrameworkIsAsked, Subscribed

LEMMA DropKeeps ==
  ASSUME TypeOK, MapsMatch, FrameworkIsAsked, NobodyIsStale,
         NEW c \in Client, NEW items \in SUBSET Item, Drop(c, items)
  PROVE  MapsMatch' /\ FrameworkIsAsked' /\ NobodyIsStale'
<1> DEFINE dropped == clientToItems[c] \cap items
<1>2. Keys(itemToClients') = Keys(itemToClients) \ GoneKeys(itemToClients, dropped, c)
  BY DEF Keys, GoneKeys, Drop, Trimmed, TypeOK
<1>4. FrameworkIsAsked'
  BY <1>2 DEF FrameworkIsAsked, Drop, Ask
<1> QED BY <1>4 DEF MapsMatch, NobodyIsStale, Drop, Trimmed, TypeOK

LEMMA NotifyKeeps ==
  ASSUME TypeOK, MapsMatch, FrameworkIsAsked, NobodyIsStale, HandleNotify
  PROVE  MapsMatch' /\ FrameworkIsAsked' /\ NobodyIsStale'
<1> DEFINE news == Head(inbox).news
           changed == {i \in Item : news[i] \notin {None, cache[i]}}
<1> QED BY DEF MapsMatch, FrameworkIsAsked, Keys, NobodyIsStale, HandleNotify

-----------------------------------------------------------------------------
(* The invariant *)

LEMMA SendKeeps ==
  ASSUME Inv, NEW m \in Message, Send(m), UpdatesComeFirst', WantsFollow', TypeOK'
  PROVE  Inv'
BY DEF Send, Inv, MapsMatch, FrameworkIsAsked, NobodyIsStale, Keys

LEMMA ItemsKeep ==
  ASSUME UpdatesAgain = FALSE, Inv, TypeOK', NEW c \in Client, NEW items \in SUBSET Item,
         \/ Subscribe(c, items) \/ RequestData(c, items)
         \/ UpdateSubscription(c, items) \/ Unsubscribe(c, items)
  PROVE  Inv'
<1>1. PICK kind \in {"subscribe", "request", "update", "unsubscribe"} :
        /\ SendItems(kind, c, items)
        /\ kind = "update" => c \notin started
        /\ wants' = [wants EXCEPT ![c] = CASE kind = "update" -> items
                                           [] kind = "unsubscribe" -> @ \ items
                                           [] OTHER -> @ \cup items]
  BY DEF Subscribe, RequestData, UpdateSubscription, Unsubscribe
<1> DEFINE m == [kind |-> kind, client |-> c, items |-> items]
<1>2. m \in Message
  BY DEF Message
<1>3. Send(m) /\ started' = started \cup {c}
  BY <1>1 DEF SendItems
<1>5. WantsFollow'
  <2>1. \A d \in Client, i \in Item :
          /\ Touches(m, d, i) <=> d = c /\ (kind = "update" \/ i \in items)
          /\ Adds(m, i) <=> kind # "unsubscribe" /\ i \in items
    BY DEF Touches, From, HasClient, Adds
  <2> HIDE DEF m
  <2> QED BY <1>1, <1>2, <1>3, <2>1, SendKeepsWants DEF Inv, TypeOK
<1> QED BY <1>1, <1>2, <1>3, <1>5, SendKeeps, SendKeepsFirst DEF From, Inv

LEMMA OthersKeep ==
  ASSUME Inv, TypeOK', NEW m \in Message, Send(m), UNCHANGED <<wants, started>>,
         ~HasClient(m)
  PROVE  Inv'
  BY SendKeepsFirst, SendKeepsWants, SendKeeps DEF From, Touches, Inv, HasClient

LEMMA UnsubscribeAllKeeps ==
  ASSUME Inv, TypeOK', NEW c \in Client, UnsubscribeAll(c)
  PROVE  Inv'
<1> DEFINE m == [kind |-> "unsubscribeAll", client |-> c]
<1>1. m \in Message
  BY DEF Message
<1>2. Send(m) /\ started' = started \cup {c} /\ wants' = [wants EXCEPT ![c] = {}]
  BY DEF UnsubscribeAll
<1>3. \A d \in Client :
        /\ From(m, d) <=> d = c
        /\ \A i \in Item : (Touches(m, d, i) <=> d = c) /\ ~Adds(m, i)
  BY DEF Touches, From, HasClient, Adds
<1>4. m.kind # "update"
  OBVIOUS
<1> HIDE DEF m
<1>6. UpdatesComeFirst'
  BY <1>1, <1>2, <1>3, <1>4, SendKeepsFirst DEF Inv
<1> QED BY <1>1, <1>2, <1>3, <1>6, SendKeeps, SendKeepsWants DEF Inv, TypeOK

LEMMA SubscribedKeepsInv ==
  ASSUME Inv, TypeOK', NEW kind \in {"subscribe", "request", "update"}, Receive(kind),
         Subscribed(Head(inbox).client, Head(inbox).items),
         kind = "update" => clientToItems[Head(inbox).client] = {}
  PROVE  Inv'
<1> DEFINE c == Head(inbox).client
           items == Head(inbox).items
<1>1. Head(inbox) \in Message /\ Head(inbox).kind = kind
  BY HeadParts DEF Receive, Inv
<1>3. \A d \in Client :
        /\ From(Head(inbox), d) <=> d = c
        /\ \A i \in Item :
             /\ Touches(Head(inbox), d, i) <=> d = c /\ (kind = "update" \/ i \in items)
             /\ Adds(Head(inbox), i) <=> i \in items
  BY <1>1 DEF Touches, From, HasClient, Adds
<1>4. \A d \in Client : clientToItems'[d] =
        IF d = c THEN clientToItems[d] \cup items ELSE clientToItems[d]
  BY DEF Subscribed, Inv, TypeOK
<1>5. UpdatesComeFirst'
  BY <1>3, <1>4, ReceiveKeepsFirst DEF Inv
<1>6. WantsFollow'
  BY <1>3, <1>4, ReceiveKeepsWants DEF Inv
<1> QED BY <1>1, <1>5, <1>6, SubscribedKeeps, MessageParts DEF Inv

LEMMA DropKeepsInv ==
  ASSUME Inv, TypeOK', HandleUnsubscribe \/ HandleUnsubscribeAll
  PROVE  Inv'
<1> DEFINE c == Head(inbox).client
           items == IF Head(inbox).kind = "unsubscribe" THEN Head(inbox).items ELSE Item
<1>1. PICK kind \in {"unsubscribe", "unsubscribeAll"} :
        Receive(kind) /\ Drop(c, items)
  BY DEF HandleUnsubscribe, HandleUnsubscribeAll, Receive
<1>2. Head(inbox) \in Message /\ Head(inbox).kind = kind
  BY <1>1, HeadParts DEF Receive, Inv
<1>4. \A d \in Client :
        /\ From(Head(inbox), d) <=> d = c
        /\ \A i \in Item :
             /\ Touches(Head(inbox), d, i) <=> d = c /\ i \in items
             /\ ~Adds(Head(inbox), i)
  BY <1>1, <1>2 DEF Touches, From, HasClient, Adds
<1>5. \A d \in Client : clientToItems'[d] =
        IF d = c THEN clientToItems[d] \ items ELSE clientToItems[d]
  BY <1>1 DEF Drop, Inv, TypeOK
<1>6. UpdatesComeFirst'
  BY <1>1, <1>4, <1>5, ReceiveKeepsFirst DEF Inv
<1>7. WantsFollow'
  BY <1>1, <1>4, <1>5, ReceiveKeepsWants DEF Inv
<1> QED BY <1>1, <1>2, <1>6, <1>7, DropKeeps, MessageParts DEF Inv

LEMMA ReportsKeepInv ==
  ASSUME Inv, TypeOK', HandleNotify \/ HandleConnect
  PROVE  Inv'
<1>1. PICK kind \in {"notify", "connect"} : Receive(kind)
  BY DEF HandleNotify, HandleConnect
<1>2. clientToItems' = clientToItems
  BY DEF HandleNotify, HandleConnect
<1>6. MapsMatch' /\ FrameworkIsAsked' /\ NobodyIsStale'
  <2>1. CASE HandleNotify
    BY <2>1, NotifyKeeps DEF Inv
  <2>2. CASE HandleConnect
    BY <2>2 DEF HandleConnect, Inv, MapsMatch, FrameworkIsAsked, NobodyIsStale, Keys, TypeOK
  <2> QED BY <2>1, <2>2
<1> QED BY <1>1, <1>2, <1>6, ReceiveKeepsFirst, ReceiveKeepsWants DEF Inv, Receive, From,
  Touches, HasClient

LEMMA InvStep ==
  ASSUME UpdatesAgain = FALSE, Inv, TypeOK', [Next]_vars
  PROVE  Inv'
<1>1. CASE ClientNext
  BY <1>1, ItemsKeep, UnsubscribeAllKeeps DEF ClientNext
<1>2. CASE FrameworkNext
  <2>1. ASSUME NEW news \in Report, Notify(news) PROVE Inv'
    BY <2>1, OthersKeep DEF Message, Notify, HasClient
  <2>2. ASSUME SetSubscriptionObj PROVE Inv'
    BY <2>2, OthersKeep DEF Message, SetSubscriptionObj, HasClient
  <2> QED BY <1>2, <2>1, <2>2 DEF FrameworkNext
<1>3. CASE MsgTaskNext
  <2>1. ASSUME NEW kind \in {"subscribe", "request"}, HandleSubscribe(kind) PROVE Inv'
    BY <2>1, SubscribeIsSubscribed, SubscribedKeepsInv DEF HandleSubscribe
  <2>2. ASSUME HandleUpdateSubscription PROVE Inv'
    BY <2>2, UpdateIsSubscribed, SubscribedKeepsInv DEF HandleUpdateSubscription, Inv
  <2> QED BY <1>3, <2>1, <2>2, DropKeepsInv, ReportsKeepInv DEF MsgTaskNext
<1>4. CASE UNCHANGED vars
  <2>1. UpdatesComeFirst'
    BY <1>4 DEF Inv, vars, UpdatesComeFirst
  <2>2. WantsFollow'
    BY <1>4 DEF Inv, vars, WantsFollow
  <2> QED BY <1>4, <2>1, <2>2
          DEF Inv, vars, MapsMatch, FrameworkIsAsked, NobodyIsStale, Keys
<1> QED BY <1>1, <1>2, <1>3, <1>4 DEF Next

LEMMA InitInv == Init /\ TypeOK => Inv
<1> SUFFICES ASSUME Init, TypeOK PROVE Inv
  OBVIOUS
<1>3. MapsMatch /\ FrameworkIsAsked /\ NobodyIsStale
  BY DEF Init, MapsMatch, FrameworkIsAsked, NobodyIsStale, Keys
<1> QED BY <1>3 DEF Inv, Init, UpdatesComeFirst, WantsFollow

LEMMA InvHolds == ASSUME UpdatesAgain = FALSE PROVE Spec => []Inv
<1>1. Inv /\ TypeOK' /\ [Next]_vars => Inv'
  BY InvStep
<1> QED BY <1>1, InitInv, TypeCorrect, PTL DEF Spec

-----------------------------------------------------------------------------
(* The properties *)

(* The two maps never part, in whatever order requests, reports and the    *)
(* framework come.                                                         *)
THEOREM MapsAlwaysMatch == ASSUME UpdatesAgain = FALSE PROVE Spec => []MapsMatch
<1>1. Inv => MapsMatch
  BY DEF Inv
<1> QED BY <1>1, InvHolds, PTL

(* Once it is there the framework is asked for what somebody has, and for  *)
(* nothing else.                                                           *)
THEOREM FrameworkAlwaysAsked ==
  ASSUME UpdatesAgain = FALSE PROVE Spec => []FrameworkIsAsked
<1>1. Inv => FrameworkIsAsked
  BY DEF Inv
<1> QED BY <1>1, InvHolds, PTL

(* Whenever nothing is under way, every client was told the latest value   *)
(* of each item that it asked for.                                         *)
THEOREM WantedAlwaysHeard ==
  ASSUME UpdatesAgain = FALSE PROVE Spec => []WantedIsHeard
<1>1. Inv => WantedIsHeard
  <2> SUFFICES ASSUME Inv, inbox = <<>>, NEW c \in Client, NEW i \in wants[c]
      PROVE  told[c][i] = cache[i]
    BY DEF WantedIsHeard
  <2> QED BY DEF Inv, NobodyIsStale, WantsFollow, TypeOK
<1> QED BY <1>1, InvHolds, PTL

-----------------------------------------------------------------------------
(* Refinement *)

LEMMA PairsOf ==
  ASSUME NEW c \in Client, NEW items \in SUBSET Item
  PROVE  /\ \A p \in Client \X Item : p \in {c} \X items <=> p[1] = c /\ p[2] \in items
         /\ {c} \X items \subseteq Client \X Item
OBVIOUS

LEMMA SubscribedImplements ==
  ASSUME TypeOK, NEW c \in Client, NEW items \in SUBSET Item, Subscribed(c, items)
  PROVE  AbstractDataItems!Subscribe(c, items)
<1>2. Subs' = Subs \cup ({c} \X items)
  <2>1. /\ Subs' = {p \in Client \X Item : p[2] \in clientToItems'[p[1]]}
        /\ Subs = {p \in Client \X Item : p[2] \in clientToItems[p[1]]}
    BY DEF Subs
  <2>3. ASSUME NEW p \in Client \X Item
        PROVE  p \in Subs' <=> p \in Subs \/ p \in {c} \X items
    <3> DEFINE d == p[1]
               i == p[2]
    <3> HIDE DEF d, i
    <3> QED BY <2>1, PairsOf DEF Subscribed, TypeOK
  <2> QED BY <2>1, <2>3, PairsOf
<1>3. told' = AbstractDataItems!ToldOf({c}, items, cache)
  <2> DEFINE new == [i \in Item |-> IF i \in items /\ cache[i] # None THEN cache[i] ELSE told[c][i]]
             abstract == [d \in Client |-> [i \in Item |->
               IF d \in {c} /\ i \in items /\ cache[i] # None THEN cache[i] ELSE told[d][i]]]
  <2>3. told' \in [Client -> [Item -> Value \cup {None}]]
    BY CachedType DEF Subscribed
  <2>4. ASSUME NEW d \in Client PROVE told'[d] = abstract[d]
    <3>2. \A i \in Item : told'[d][i] = abstract[d][i]
      BY DEF TypeOK, Subscribed, SendCachedDataItems
    <3>3. abstract[d] = [i \in Item |-> abstract[d][i]]
      OBVIOUS
    <3> HIDE DEF abstract
    <3> QED BY <2>3, <3>2, <3>3
  <2>5. told' = [d \in Client |-> told'[d]] /\ abstract = [d \in Client |-> abstract[d]]
    BY <2>3
  <2>6. told' = abstract
    <3> HIDE DEF abstract
    <3> QED BY <2>4, <2>5
  <2> QED BY <2>6 DEF AbstractDataItems!ToldOf
<1> QED BY <1>2, <1>3 DEF AbstractDataItems!Subscribe, Subscribed

LEMMA DropImplements ==
  ASSUME TypeOK, NEW c \in Client, NEW items \in SUBSET Item, Drop(c, items)
  PROVE  AbstractDataItems!Unsubscribe(c, items)
<1>2. Subs' = Subs \ ({c} \X items)
  <2>1. /\ Subs' = {p \in Client \X Item : p[2] \in clientToItems'[p[1]]}
        /\ Subs = {p \in Client \X Item : p[2] \in clientToItems[p[1]]}
    BY DEF Subs
  <2>3. ASSUME NEW p \in Client \X Item
        PROVE  p \in Subs' <=> p \in Subs /\ p \notin {c} \X items
    <3> DEFINE d == p[1]
               i == p[2]
    <3> HIDE DEF d, i
    <3> QED BY <2>1, PairsOf DEF Drop, TypeOK
  <2> QED BY <2>1, <2>3, PairsOf
<1> QED BY <1>2 DEF AbstractDataItems!Unsubscribe, Drop

LEMMA NotifyImplements ==
  ASSUME TypeOK, MapsMatch, HandleNotify
  PROVE  AbstractDataItems!Report(Head(inbox).news)
<1> DEFINE news == Head(inbox).news
           changed == {i \in Item : news[i] \notin {None, cache[i]}}
           clients == UNION {itemToClients[i] : i \in changed}
<1>1. \A c \in Client, i \in Item :
        (c \in clients /\ i \in clientToItems[c] \cap changed) <=>
        (i \in changed /\ <<c, i>> \in Subs)
  BY DEF MapsMatch, Subs
<1>2. told' = [c \in Client |-> [i \in Item |->
                 IF c \in clients /\ i \in clientToItems[c] \cap changed
                 THEN news[i] ELSE told[c][i]]]
  BY DEF HandleNotify
<1>3. told' = [c \in Client |-> [i \in Item |->
                 IF i \in changed /\ <<c, i>> \in Subs THEN news[i] ELSE told[c][i]]]
  <2> HIDE DEF changed, clients
  <2> QED BY <1>1, <1>2
<1> QED BY <1>3 DEF AbstractDataItems!Report, HandleNotify, Subs

LEMMA StepImplements ==
  ASSUME UpdatesAgain = FALSE, Inv, [Next]_vars
  PROVE  [AbstractDataItems!Next]_(AbstractDataItems!vars)
<1> DEFINE c == Head(inbox).client
           items == Head(inbox).items
<1>1. ASSUME UNCHANGED <<clientToItems, cache, told>>
      PROVE  UNCHANGED AbstractDataItems!vars
  BY <1>1 DEF AbstractDataItems!vars, Subs
<1>2. CASE ClientNext \/ FrameworkNext \/ UNCHANGED vars
  <2>1. UNCHANGED <<clientToItems, cache, told>>
    BY <1>2 DEF ClientNext, FrameworkNext, Subscribe, RequestData, UpdateSubscription,
                Unsubscribe, UnsubscribeAll, Notify, SetSubscriptionObj, SendItems, Send, vars
  <2> QED BY <1>1, <2>1
<1>3. CASE MsgTaskNext
  <2>1. ASSUME NEW kind \in {"subscribe", "request", "update"}, Receive(kind),
               Subscribed(c, items)
        PROVE  AbstractDataItems!Next
    BY <2>1, HeadParts, MessageParts, SubscribedImplements DEF Receive, Inv,
      AbstractDataItems!Next
  <2>2. ASSUME NEW kind \in {"subscribe", "request"}, HandleSubscribe(kind)
        PROVE  AbstractDataItems!Next
    BY <2>1, <2>2, SubscribeIsSubscribed DEF HandleSubscribe
  <2>3. ASSUME HandleUpdateSubscription PROVE AbstractDataItems!Next
    BY <2>1, <2>3, UpdateIsSubscribed DEF HandleUpdateSubscription, Inv
  <2>4. ASSUME HandleUnsubscribe PROVE AbstractDataItems!Next
    BY <2>4, HeadParts, MessageParts, DropImplements DEF HandleUnsubscribe, Receive, Inv,
      AbstractDataItems!Next
  <2>5. ASSUME HandleUnsubscribeAll PROVE AbstractDataItems!Next
    BY <2>5, HeadParts, MessageParts, DropImplements DEF HandleUnsubscribeAll, Receive, Inv,
      AbstractDataItems!Next
  <2>6. ASSUME HandleNotify PROVE AbstractDataItems!Next
    BY <2>6, HeadParts, MessageParts, NotifyImplements DEF HandleNotify, Receive, Inv, Report,
      AbstractDataItems!Next
  <2>7. ASSUME HandleConnect PROVE UNCHANGED AbstractDataItems!vars
    BY <1>1, <2>7 DEF HandleConnect
  <2> QED BY <1>3, <2>2, <2>3, <2>4, <2>5, <2>6, <2>7 DEF MsgTaskNext
<1> QED BY <1>2, <1>3 DEF Next

(* The observer implements one relation of clients and items: whoever is   *)
(* in it hears of every change, whoever is not hears of none.              *)
THEOREM ImplementsRelation ==
  ASSUME UpdatesAgain = FALSE PROVE Spec => ImplementsDataItems
<1>1. Init => AbstractDataItems!Init
  BY DEF Init, AbstractDataItems!Init, Subs
<1>2. Inv /\ [Next]_vars => [AbstractDataItems!Next]_(AbstractDataItems!vars)
  BY StepImplements
<1> QED BY <1>1, <1>2, InvHolds, PTL
        DEF Spec, ImplementsDataItems, AbstractDataItems!Spec

=============================================================================
