------------------------------- MODULE LocHeap -------------------------------
(***************************************************************************)
(* The heap of the timer service (utils/LocHeap.cpp): a binary tree whose  *)
(* nodes count their subtrees, so that a push goes to the smaller one.     *)
(* LocTimer takes a heap for the set of its members whose top nobody       *)
(* outranks; here is the tree that is to be that set.                      *)
(*                                                                         *)
(* A tree is <<>> or a node with two trees.  The object in a node is known *)
(* by its id and its rank, the time a LocTimerDelegate expires.            *)
(***************************************************************************)
EXTENDS Naturals, FiniteSets

CONSTANTS
  HpId,       \* the objects
  HpRank      \* their ranks: the smaller outranks the larger

ASSUME HpRankAssumption == HpRank \subseteq Nat

VARIABLES
  hpTree,     \* LocHeap::mTree
  hpPushed    \* the objects its user has pushed and not got back

hpVars == <<hpTree, hpPushed>>

-----------------------------------------------------------------------------
(* Trees *)

RECURSIVE HpData(_), HpPush(_, _), HpPop(_), HpRemove(_, _), HpCheckNodes(_)

HpNil == <<>>
HpLeaf(d) == [data |-> d, size |-> 1, left |-> HpNil, right |-> HpNil]
HpSize(t) == IF t = HpNil THEN 0 ELSE t.size
HpOutRanks(d, e) == d.rank < e.rank

HpData(t) == IF t = HpNil THEN {} ELSE {t.data} \cup HpData(t.left) \cup HpData(t.right)

(* The lower ranked of the node's data and the new one goes on to the      *)
(* smaller subtree.                                                        *)
HpPush(t, d) ==
  IF t = HpNil THEN HpLeaf(d)
  ELSE LET up == HpOutRanks(d, t.data)
           node == [t EXCEPT !.data = IF up THEN d ELSE @, !.size = @ + 1]
           low == IF up THEN t.data ELSE d
       IN IF t.left = HpNil \/ (t.right # HpNil /\ t.left.size <= t.right.size)
          THEN [node EXCEPT !.left = HpPush(@, low)]
          ELSE [node EXCEPT !.right = HpPush(@, low)]

(* The subtree whose data moves up when a node loses its own *)
HpGoesLeft(t) ==
  /\ t.left # HpNil
  /\ t.right = HpNil \/ HpOutRanks(t.left.data, t.right.data)

HpPop(t) ==
  IF t.left = HpNil /\ t.right = HpNil THEN HpNil
  ELSE IF HpGoesLeft(t)
       THEN [t EXCEPT !.data = t.left.data, !.size = @ - 1, !.left = HpPop(@)]
       ELSE [t EXCEPT !.data = t.right.data, !.size = @ - 1, !.right = HpPop(@)]

(* Mutant: a subtree whose top ranks the same is not searched *)
MutantHpMayHold(t, d) == t # HpNil /\ HpOutRanks(t.data, d)

(* The subtree may hold d: nothing in it outranks its top *)
HpMayHold(t, d) == t # HpNil /\ ~HpOutRanks(d, t.data)

HpRemove(t, d) ==
  IF t # HpNil /\ t.data = d THEN HpPop(t)
  ELSE IF ~HpMayHold(t, d) THEN t
  ELSE LET left == HpRemove(t.left, d)
           right == HpRemove(t.right, d)
       IN IF left # t.left THEN [t EXCEPT !.left = left, !.size = @ - 1]
          ELSE IF right # t.right THEN [t EXCEPT !.right = right, !.size = @ - 1]
          ELSE t

(* checkNodes: sizes add up and nobody outranks the node above *)
HpCheckNodes(t) ==
  t = HpNil
    \/ /\ t.size = 1 + HpSize(t.left) + HpSize(t.right)
       /\ \A s \in {t.left, t.right} \ {HpNil} :
            ~HpOutRanks(s.data, t.data) /\ HpCheckNodes(s)

-----------------------------------------------------------------------------
(* The calls of its user *)

HpInit == hpTree = HpNil /\ hpPushed = {}

(* push *)
HpPushCall(d) ==
  /\ d.id \notin {e.id : e \in hpPushed}
  /\ hpTree' = HpPush(hpTree, d)
  /\ hpPushed' = hpPushed \cup {d}

(* pop *)
HpPopCall ==
  /\ hpTree # HpNil
  /\ hpTree' = HpPop(hpTree)
  /\ hpPushed' = hpPushed \ {hpTree.data}

(* remove, of what was pushed or of what was not *)
HpRemoveCall(d) ==
  /\ hpTree' = HpRemove(hpTree, d)
  /\ hpPushed' = hpPushed \ {d}

HpObject == [id: HpId, rank: HpRank]

HpNext == HpPopCall \/ \E d \in HpObject : HpPushCall(d) \/ HpRemoveCall(d)

HpSpec == HpInit /\ [][HpNext]_hpVars

-----------------------------------------------------------------------------
(* Properties *)

HpTypeOK == hpPushed \subseteq HpObject

(* However often it is pushed, popped and cut, the tree holds what was     *)
(* pushed and not taken out, each once, with the highest ranked at the top *)
(* (LocHeap.cpp:102-228): remove may skip a subtree only because no member *)
(* outranks the top of its subtree, and the sizes steer every push.        *)
TreeHoldsWhatWasPushed ==
  /\ HpCheckNodes(hpTree)
  /\ HpData(hpTree) = hpPushed
  /\ HpSize(hpTree) = Cardinality(hpPushed)
  /\ \A d \in hpPushed : ~HpOutRanks(d, hpTree.data)

=============================================================================
