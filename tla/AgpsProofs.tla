----------------------------- MODULE AgpsProofs -----------------------------
(***************************************************************************)
(* Proofs about Agps, for any set of connection handles, any behaviour of  *)
(* the framework and any number of modem restarts.                         *)
(***************************************************************************)
EXTENDS Agps, TLAPS

(***************************************************************************)
(* What the helpers leave in the variables they set.                       *)
(***************************************************************************)
LEMMA EffectiveTypeType ==
  ASSUME NEW t \in AtlType
  PROVE  /\ EffectiveType(t) \in AtlType
         /\ NifOf(EffectiveType(t)) \in Nif
  BY DEF EffectiveType, AtlType, NifOf, Nif

LEMMA NotifyType ==
  ASSUME TypeOK, NEW H, NEW s \in AtlStatus, Notify(H, s)
  PROVE  atl' \in [Handle -> AtlStatus]
  BY DEF Notify, TypeOK

LEMMA SendType ==
  ASSUME TypeOK, NEW n \in Nif, NEW cmds \in Seq(Command),
         NEW request \in BOOLEAN, NEW type \in AtlType,
         Send(n, cmds, request, type)
  PROVE  inbox' \in [Nif -> Seq(Command)]
<1> DEFINE c == [request |-> request, type |-> type]
           new == IF Heard(n) THEN Append(cmds, c) ELSE cmds
<1>1. c \in Command
  BY DEF Command
<1>2. inbox' = [inbox EXCEPT ![n] = new]
  BY DEF Send
<1> HIDE DEF c
<1>3. new \in Seq(Command)
  BY <1>1
<1> HIDE DEF new
<1> QED BY <1>2, <1>3 DEF TypeOK

LEMMA RegisteredType ==
  ASSUME NEW cb \in Registered
  PROVE  /\ cb.priority \in Nat
         /\ \A t \in cb.types : NifOf(t) \in Nif
         /\ "no_priority" \notin Troubles /\ (\E t \in cb.types : NifOf(t) = "agnss")
              => cb.priority > 0
  BY DEF Registered, NifOf, Nif

LEMMA TransitionType ==
  ASSUME TypeOK, NEW n \in Nif, NEW s \in AgpsState, Transition(n, s)
  PROVE  state' \in [Nif -> AgpsState]
  BY DEF Transition, TypeOK

LEMMA TailType ==
  ASSUME TypeOK, NEW n \in Nif, inbox[n] # <<>>
  PROVE  /\ Head(inbox[n]) \in Command
         /\ Tail(inbox[n]) \in Seq(Command)
  BY DEF TypeOK

LEMMA SubscriberType ==
  ASSUME NEW h \in Handle, NEW b \in BOOLEAN
  PROVE  [handle |-> h, inactive |-> b] \in Subscriber
  BY DEF Subscriber

(***************************************************************************)
(* Type correctness.                                                       *)
(***************************************************************************)
LEMMA RequestType ==
  ASSUME TypeOK, NEW h \in Handle, NEW t \in AtlType, RequestATL(h, t)
  PROVE  TypeOK'
<1> DEFINE type == EffectiveType(t)
           n == NifOf(type)
<1>1. type \in AtlType /\ n \in Nif
  BY EffectiveTypeType
<1>2. /\ n \notin created /\ Notify({h}, "failed")
         /\ UNCHANGED <<state, subscribers, agpsType, inbox>>
      \/ /\ n \in created
         /\ agpsType' = [agpsType EXCEPT ![n] = type]
         /\ Subscribe(n, h, type)
  BY DEF RequestATL
<1>3. UNCHANGED <<created, cbPriority, held, lookups, ssrs>>
  BY DEF RequestATL
<1> HIDE DEF type, n
<1>4. CASE n \notin created
  BY <1>2, <1>3, <1>4, NotifyType DEF AtlStatus, TypeOK
<1>5. CASE n \in created
  <2>1. /\ agpsType' = [agpsType EXCEPT ![n] = type]
        /\ Subscribe(n, h, type)
    BY <1>2, <1>5
  <2>2. subscribers' \in [Nif -> SUBSET Subscriber]
    BY <1>1, <2>1, SubscriberType DEF Subscribe, AddSubscriber, TypeOK
  <2>3. state' \in [Nif -> AgpsState]
    BY <1>1, <2>1, TransitionType DEF Subscribe, AgpsState, TypeOK
  <2>4. atl' \in [Handle -> AtlStatus]
    BY <2>1, NotifyType DEF Subscribe, AtlStatus
  <2>5. inbox' \in [Nif -> Seq(Command)]
    BY <1>1, <2>1, SendType DEF Subscribe, TypeOK
  <2>6. agpsType' \in [Nif -> AtlType]
    BY <1>1, <2>1 DEF TypeOK
  <2> QED BY <1>3, <2>2, <2>3, <2>4, <2>5, <2>6 DEF TypeOK
<1> QED BY <1>4, <1>5

LEMMA UnsubscribeType ==
  ASSUME TypeOK, NEW n \in Nif, NEW h \in Handle, Unsubscribe(n, h)
  PROVE  /\ subscribers' \in [Nif -> SUBSET Subscriber]
         /\ state' \in [Nif -> AgpsState]
         /\ atl' \in [Handle -> AtlStatus]
         /\ inbox' \in [Nif -> Seq(Command)]
  BY SubscriberType, TransitionType, SendType, NotifyType DEF Unsubscribe, TypeOK, AgpsState,
    AtlStatus

LEMMA AnswerType ==
  ASSUME TypeOK, NEW n \in Nif, NEW cmds \in Seq(Command),
         Released(n, cmds) \/ Denied(n, cmds)
  PROVE  /\ subscribers' \in [Nif -> SUBSET Subscriber]
         /\ state' \in [Nif -> AgpsState]
         /\ atl' \in [Handle -> AtlStatus]
         /\ inbox' \in [Nif -> Seq(Command)]
<1>1. CASE EndReleasing(n, cmds)
  BY <1>1, TransitionType, NotifyType, SendType DEF EndReleasing, AgpsState, AtlStatus, TypeOK,
    Active
<1>2. ASSUME NEW s \in {"idle", "failed"}, DropAll(n, cmds, s)
      PROVE  /\ subscribers' \in [Nif -> SUBSET Subscriber]
             /\ state' \in [Nif -> AgpsState]
             /\ atl' \in [Handle -> AtlStatus]
             /\ inbox' \in [Nif -> Seq(Command)]
  BY <1>2, TransitionType, NotifyType DEF DropAll, AgpsState, AtlStatus, TypeOK
<1>3. CASE Ignore(n, cmds)
  BY <1>3 DEF Ignore, TypeOK
<1> QED BY <1>1, <1>2, <1>3 DEF Released, Denied

LEMMA GrantedType ==
  ASSUME TypeOK, NEW n \in Nif, Granted(n)
  PROVE  /\ subscribers' = subscribers
         /\ state' \in [Nif -> AgpsState]
         /\ atl' \in [Handle -> AtlStatus]
  BY TransitionType, NotifyType DEF Granted, AgpsState, AtlStatus, TypeOK

LEMMA RestartType ==
  ASSUME TypeOK, HandleModemSSR
  PROVE  TypeOK'
<1>2. ASSUME NEW n \in Nif
      PROVE  Append(inbox[n], [request |-> FALSE, type |-> agpsType[n]]) \in Seq(Command)
  <2>1. [request |-> FALSE, type |-> agpsType[n]] \in Command
    BY DEF TypeOK, Command
  <2> QED BY <2>1 DEF TypeOK
<1> QED BY <1>2, NotifyType DEF HandleModemSSR, TypeOK, AgpsState, AtlStatus

LEMMA TypeStep == TypeOK /\ [Next]_vars => TypeOK'
<1> SUFFICES ASSUME TypeOK, [Next]_vars PROVE TypeOK'
  OBVIOUS
<1>1. ASSUME NEW cb \in Registered, CreateAgpsStateMachines(cb)
      PROVE  TypeOK'
  BY <1>1, RegisteredType DEF CreateAgpsStateMachines, TypeOK
<1>2. ASSUME NEW h \in Handle, NEW t \in AtlType, RequestATL(h, t)
      PROVE  TypeOK'
  BY <1>2, RequestType
<1>3. ASSUME NEW h \in Handle, ReleaseATL(h)
      PROVE  TypeOK'
  BY <1>3, UnsubscribeType DEF ReleaseATL, TypeOK, Nif
<1>4. CASE HandleModemSSR
  BY <1>4, RestartType
<1>5. ASSUME NEW n \in Nif, DataConnOpen(n)
      PROVE  TypeOK'
  <2>3. lookups' \in [Nif -> Nat]
    BY <1>5 DEF DataConnOpen, TypeOK
  <2> QED BY <1>5, <2>3, GrantedType, TailType DEF DataConnOpen, TypeOK, Answers
<1>6. ASSUME NEW n \in Nif, DataConnOpenBadApn(n)
      PROVE  TypeOK'
  BY <1>6, AnswerType, TailType DEF DataConnOpenBadApn, Answers, TypeOK
<1>7. ASSUME NEW n \in Nif, DataConnFailed(n)
      PROVE  TypeOK'
  BY <1>7, TailType, AnswerType DEF DataConnFailed, Answers, Command, TypeOK
<1>8. ASSUME NEW n \in Nif, DataConnClosed(n)
      PROVE  TypeOK'
  BY <1>8, AnswerType, TailType DEF DataConnClosed, Answers, TypeOK
<1>9. ASSUME NEW n \in Nif, ReportPdnTypeFromWds(n)
      PROVE  TypeOK'
  BY <1>9, GrantedType DEF ReportPdnTypeFromWds, TypeOK
<1>10. ASSUME NEW n \in Nif, DataConnLost(n)
       PROVE  TypeOK'
  BY <1>10, AnswerType DEF DataConnLost, TypeOK
<1>11. CASE UNCHANGED vars
  BY <1>11 DEF vars, TypeOK
<1> QED
  BY <1>1, <1>2, <1>3, <1>4, <1>5, <1>6, <1>7, <1>8, <1>9, <1>10, <1>11
     DEF Next, FrameworkAnswer

(* Every variable keeps its type: the base of the other proofs.            *)
THEOREM TypeCorrect == Spec => []TypeOK
<1>1. Init => TypeOK
  BY DEF Init, TypeOK, Nif, AgpsState, AtlType, AtlStatus, Command
<1> QED BY <1>1, TypeStep, PTL DEF Spec

(***************************************************************************)
(* The subscriber lists, the states and what the modem knows.              *)
(*                                                                         *)
(* ReleasedIffNoSubscribers is not inductive by itself: that an open which *)
(* is denied empties the list, or that a request in RELEASED fills it,     *)
(* depends on the handles in the list, and for these on what the modem may *)
(* ask for next.  Together with the other parts it is.                     *)
(***************************************************************************)
UncreatedIsReleased == \A n \in Nif : n \notin created => state[n] = "RELEASED"

Inv ==
  /\ TypeOK
  /\ UncreatedIsReleased
  /\ ReleasedIffNoSubscribers
  /\ ConnectionIsWanted
  /\ SubscribersMatchModem

(* The part of Inv that does not mention types *)
Consistent ==
  /\ UncreatedIsReleased
  /\ ReleasedIffNoSubscribers
  /\ ConnectionIsWanted
  /\ StatusMatches
  /\ OneSubscriptionPerHandle
  /\ UsedHandlesSubscribe

LEMMA SubscribeKeeps ==
  ASSUME Inv, NEW h \in Handle, NEW type \in AtlType, NEW n \in created,
         atl[h] \in {"idle", "failed"},
         Subscribe(n, h, type), created' = created
  PROVE  Consistent'
<1> DEFINE new == [handle |-> h, inactive |-> FALSE]
<1>1. n \in Nif /\ n \in created'
  BY DEF Inv, TypeOK
<1>2. \A m \in Nif : \A s \in subscribers[m] : s.handle # h /\ s.handle \in Handle
  <2>2. \A m \in Nif : \A s \in subscribers[m] : s.handle # h
    BY DEF Inv, SubscribersMatchModem, StatusMatches
  <2> QED BY <2>2 DEF Inv, TypeOK, Subscriber
<1>3. subscribers' = [subscribers EXCEPT ![n] = @ \union {new}]
  BY <1>1, <1>2 DEF Subscribe, AddSubscriber, HandlesOf
<1>4. /\ state' = [state EXCEPT ![n] = IF @ = "RELEASED" THEN "PENDING" ELSE @]
      /\ atl' = [atl EXCEPT ![h] = IF state[n] = "ACQUIRED" THEN "open" ELSE "opening"]
  BY <1>1 DEF Subscribe, Transition, Notify, Inv, TypeOK, AgpsState
<1>5. new.handle = h /\ new.inactive = FALSE
  OBVIOUS
<1> HIDE DEF new
<1>6. \A m \in Nif : subscribers'[m] = IF m = n THEN subscribers[n] \union {new}
                                       ELSE subscribers[m]
  BY <1>1, <1>3 DEF Inv, TypeOK
<1>7. \A m \in Nif : state'[m] = IF m = n /\ state[n] = "RELEASED" THEN "PENDING"
                                 ELSE state[m]
  BY <1>1, <1>4 DEF Inv, TypeOK
<1>8. \A g \in Handle : atl'[g] = IF g # h THEN atl[g]
                                  ELSE IF state[n] = "ACQUIRED" THEN "open" ELSE "opening"
  BY <1>4 DEF Inv, TypeOK
<1>9. UncreatedIsReleased'
  BY <1>1, <1>7 DEF Inv, UncreatedIsReleased
<1>10. ReleasedIffNoSubscribers'
  BY <1>6, <1>7 DEF Inv, ReleasedIffNoSubscribers
<1>11. ConnectionIsWanted'
  BY <1>5, <1>6, <1>7 DEF Inv, ConnectionIsWanted, Active
<1>12. StatusMatches'
  BY <1>1, <1>2, <1>5, <1>6, <1>7, <1>8
     DEF Inv, SubscribersMatchModem, StatusMatches, ReleasedIffNoSubscribers
<1>13. OneSubscriptionPerHandle'
  BY <1>2, <1>5, <1>6 DEF Inv, SubscribersMatchModem, OneSubscriptionPerHandle
<1>14. UsedHandlesSubscribe'
  BY <1>1, <1>5, <1>6, <1>8
     DEF Inv, SubscribersMatchModem, UsedHandlesSubscribe, HandlesOf
<1> QED BY <1>9, <1>10, <1>11, <1>12, <1>13, <1>14 DEF Consistent

LEMMA UnsubscribeKeeps ==
  ASSUME Inv, NEW n \in Nif, NEW h \in Handle, h \in HandlesOf(subscribers[n]),
         Unsubscribe(n, h), created' = created
  PROVE  Consistent'
<1> DEFINE new == [handle |-> h, inactive |-> TRUE]
           others == {s \in subscribers[n] : s.handle # h}
<1>1. \A m \in Nif : \A s \in subscribers[m] :
         s.handle \in Handle /\ (s.handle = h => m = n)
  <2>1. PICK u \in subscribers[n] : u.handle = h
    BY DEF HandlesOf
  <2> QED BY <2>1 DEF Inv, SubscribersMatchModem, OneSubscriptionPerHandle, TypeOK, Subscriber
<1>2. /\ subscribers' = [subscribers EXCEPT ![n] = others \union {new}]
      /\ \A m \in Nif : state'[m] = IF m = n /\ \A s \in others : s.inactive
                                    THEN "RELEASING" ELSE state[m]
      /\ atl' = [g \in Handle |-> IF g = h THEN "closing" ELSE atl[g]]
  <2>2. state[n] \in {"PENDING", "ACQUIRED", "RELEASING"}
    BY DEF Inv, ReleasedIffNoSubscribers, TypeOK, AgpsState, HandlesOf
  <2> QED BY <2>2 DEF Unsubscribe, Transition, Notify, Inv, TypeOK
<1>3. new.handle = h /\ new.inactive = TRUE
  OBVIOUS
<1>4. \A s : s \in others <=> s \in subscribers[n] /\ s.handle # h
  OBVIOUS
<1> HIDE DEF new, others
<1>5. \A m \in Nif : subscribers'[m] = IF m = n THEN others \union {new}
                                       ELSE subscribers[m]
  BY <1>2 DEF Inv, TypeOK
<1>6. n \in created /\ subscribers[n] # {}
  BY DEF HandlesOf, Inv, UncreatedIsReleased, ReleasedIffNoSubscribers
<1>7. UncreatedIsReleased'
  BY <1>2, <1>6 DEF Inv, UncreatedIsReleased
<1>8. ReleasedIffNoSubscribers'
  BY <1>2, <1>5, <1>6 DEF Inv, ReleasedIffNoSubscribers
<1>9. ConnectionIsWanted'
  BY <1>2, <1>5 DEF Inv, ConnectionIsWanted, Active
<1>10. StatusMatches'
  BY <1>1, <1>2, <1>3, <1>4, <1>5 DEF Inv, SubscribersMatchModem, StatusMatches
<1>11. OneSubscriptionPerHandle'
  BY <1>1, <1>3, <1>4, <1>5 DEF Inv, SubscribersMatchModem, OneSubscriptionPerHandle
<1>12. UsedHandlesSubscribe'
  BY <1>2, <1>3, <1>4, <1>5
     DEF Inv, SubscribersMatchModem, UsedHandlesSubscribe, HandlesOf
<1> QED BY <1>7, <1>8, <1>9, <1>10, <1>11, <1>12 DEF Consistent

LEMMA RestartKeeps ==
  ASSUME Inv, HandleModemSSR
  PROVE  Consistent'
<1>1. \A n \in Nif : subscribers'[n] = {} /\ state'[n] = "RELEASED"
  BY DEF HandleModemSSR, Inv, UncreatedIsReleased, ReleasedIffNoSubscribers
<1>2. \A h \in Handle : atl'[h] = "idle"
  BY DEF HandleModemSSR, Notify
<1> QED
  BY <1>1, <1>2
     DEF Consistent, UncreatedIsReleased, ReleasedIffNoSubscribers, ConnectionIsWanted,
         StatusMatches, OneSubscriptionPerHandle, UsedHandlesSubscribe

LEMMA GrantedKeeps ==
  ASSUME Inv, NEW n \in Nif, Granted(n), created' = created
  PROVE  Consistent'
<1>1. CASE state[n] # "PENDING"
  BY <1>1
     DEF Granted, Inv, SubscribersMatchModem, Consistent, UncreatedIsReleased,
         ReleasedIffNoSubscribers, ConnectionIsWanted, Active, StatusMatches,
         OneSubscriptionPerHandle, UsedHandlesSubscribe, HandlesOf
<1>2. CASE state[n] = "PENDING"
  <2>1. /\ subscribers' = subscribers
        /\ \A m \in Nif : state'[m] = IF m = n THEN "ACQUIRED" ELSE state[m]
        /\ \A h \in Handle : atl'[h] = IF h \in HandlesOf(Active(n)) THEN "open" ELSE atl[h]
    BY <1>2 DEF Granted, Transition, Notify, Inv, TypeOK
  <2>2. \A m \in Nif : \A s \in subscribers[m] :
          /\ s.handle \in Handle
          /\ s.handle \in HandlesOf(Active(n)) <=> m = n /\ ~s.inactive
    <3> SUFFICES ASSUME NEW m \in Nif, NEW s \in subscribers[m]
                 PROVE  s.handle \in HandlesOf(Active(n)) <=> m = n /\ ~s.inactive
      BY DEF Inv, TypeOK, Subscriber
    <3> QED BY DEF HandlesOf, Active, Inv, SubscribersMatchModem, OneSubscriptionPerHandle
  <2>3. UncreatedIsReleased' /\ ReleasedIffNoSubscribers' /\ ConnectionIsWanted'
    BY <1>2, <2>1 DEF Inv, UncreatedIsReleased, ReleasedIffNoSubscribers,
                      ConnectionIsWanted, Active
  <2>6. UsedHandlesSubscribe'
    <3> SUFFICES ASSUME NEW h \in Handle, atl'[h] \in {"opening", "open", "closing"}
                 PROVE  \E m \in Nif : h \in HandlesOf(subscribers[m])
      BY <2>1 DEF UsedHandlesSubscribe
    <3>1. CASE h \in HandlesOf(Active(n))
      BY <3>1 DEF HandlesOf, Active
    <3>2. CASE h \notin HandlesOf(Active(n))
      BY <2>1, <3>2 DEF Inv, SubscribersMatchModem, UsedHandlesSubscribe
    <3> QED BY <3>1, <3>2
  <2> QED BY <1>2, <2>1, <2>2, <2>3, <2>6 DEF Consistent, Inv, SubscribersMatchModem,
    OneSubscriptionPerHandle, StatusMatches
<1> QED BY <1>1, <1>2

(* When some subscribers of n are told that they are out of use and leave  *)
(* the list, the rest stays as it was.                                     *)
LEMMA LeavingKeeps ==
  ASSUME Inv, NEW n \in Nif, subscribers'[n] \subseteq subscribers[n],
         \A m \in Nif : m # n => state'[m] = state[m] /\ subscribers'[m] = subscribers[m],
         NEW status \in {"idle", "failed"},
         Notify(HandlesOf(subscribers[n] \ subscribers'[n]), status),
         \A s \in subscribers'[n] :
           ~s.inactive /\ (state[n] = "ACQUIRED" <=> state'[n] = "ACQUIRED")
  PROVE  StatusMatches' /\ OneSubscriptionPerHandle' /\ UsedHandlesSubscribe'
<1> DEFINE gone == HandlesOf(subscribers[n] \ subscribers'[n])
<1>1. \A m \in Nif : \A s \in subscribers'[m] : s \in subscribers[m]
  OBVIOUS
<1>3. \A m \in Nif : \A s \in subscribers'[m] : s.handle \notin gone
  <2> SUFFICES ASSUME NEW m \in Nif, NEW s \in subscribers'[m],
                      NEW u \in subscribers[n] \ subscribers'[n], s.handle = u.handle
               PROVE  FALSE
    BY DEF HandlesOf
  <2> QED BY <1>1 DEF Inv, SubscribersMatchModem, OneSubscriptionPerHandle
<1>4. \A h \in Handle : atl'[h] = IF h \in gone THEN status ELSE atl[h]
  BY DEF Notify
<1> HIDE DEF gone
<1>5. StatusMatches'
  BY <1>1, <1>3, <1>4 DEF Inv, SubscribersMatchModem, StatusMatches, TypeOK, Subscriber
<1>7. UsedHandlesSubscribe'
  <2> SUFFICES ASSUME NEW h \in Handle, atl'[h] \in {"opening", "open", "closing"}
               PROVE  \E m \in Nif : h \in HandlesOf(subscribers'[m])
    BY DEF UsedHandlesSubscribe, HandlesOf
  <2>1. h \notin gone /\ atl[h] \in {"opening", "open", "closing"}
    BY <1>4
  <2>2. PICK m \in Nif : h \in HandlesOf(subscribers[m])
    BY <2>1 DEF Inv, SubscribersMatchModem, UsedHandlesSubscribe
  <2>3. PICK s \in subscribers[m] : s.handle = h
    BY <2>2 DEF HandlesOf
  <2> QED BY <2>1, <2>3 DEF HandlesOf, gone
<1> QED BY <1>1, <1>5, <1>7 DEF Inv, SubscribersMatchModem, OneSubscriptionPerHandle

LEMMA AnswerKeeps ==
  ASSUME Inv, NEW n \in Nif, NEW cmds \in Seq(Command),
         Released(n, cmds) \/ Denied(n, cmds), created' = created
  PROVE  Consistent'
<1>1. CASE EndReleasing(n, cmds)
  <2> DEFINE left == Active(n)
  <2>1. left \subseteq subscribers[n] /\ \A s \in left : ~s.inactive
    BY DEF Active
  <2>2. subscribers[n] \ left = Inactive(n)
    BY DEF Active, Inactive, Inv, TypeOK, Subscriber
  <2>3. /\ state[n] = "RELEASING"
        /\ subscribers' = [subscribers EXCEPT ![n] = left]
        /\ Notify(HandlesOf(subscribers[n] \ left), "idle")
        /\ \A m \in Nif : state'[m] = IF m # n THEN state[m]
                                      ELSE IF left = {} THEN "RELEASED" ELSE "PENDING"
    BY <1>1, <2>2 DEF EndReleasing, Transition, Inv, TypeOK
  <2> HIDE DEF left
  <2>4. \A m \in Nif : subscribers'[m] = IF m = n THEN left ELSE subscribers[m]
    BY <2>3 DEF Inv, TypeOK
  <2>7. ConnectionIsWanted'
    BY <2>1, <2>3, <2>4 DEF Inv, ConnectionIsWanted, Active
  <2> QED BY <2>1, <2>3, <2>4, <2>7, LeavingKeeps DEF Consistent, Inv, UncreatedIsReleased,
    ReleasedIffNoSubscribers
<1>2. ASSUME NEW status \in {"idle", "failed"}, DropAll(n, cmds, status)
      PROVE  Consistent'
  <2>1. /\ \A m \in Nif : subscribers'[m] = IF m = n THEN {} ELSE subscribers[m]
        /\ \A m \in Nif : state'[m] = IF m = n THEN "RELEASED" ELSE state[m]
    BY <1>2 DEF DropAll, Transition, Inv, TypeOK
  <2>2. Notify(HandlesOf(subscribers[n] \ subscribers'[n]), status)
    <3>1. subscribers[n] \ subscribers'[n] = subscribers[n]
      BY <2>1
    <3> QED BY <1>2, <3>1 DEF DropAll
  <2>4. UncreatedIsReleased' /\ ReleasedIffNoSubscribers' /\ ConnectionIsWanted'
    BY <2>1 DEF Inv, UncreatedIsReleased, ReleasedIffNoSubscribers,
                ConnectionIsWanted, Active
  <2> QED BY <2>1, <2>2, <2>4, LeavingKeeps DEF Consistent
<1>3. CASE Ignore(n, cmds)
  BY <1>3
     DEF Ignore, Inv, SubscribersMatchModem, Consistent, UncreatedIsReleased,
         ReleasedIffNoSubscribers, ConnectionIsWanted, Active, StatusMatches,
         OneSubscriptionPerHandle, UsedHandlesSubscribe, HandlesOf
<1> QED BY <1>1, <1>2, <1>3 DEF Released, Denied

LEMMA UnchangedKeeps ==
  ASSUME Inv, UNCHANGED <<created, state, subscribers>>,
         \A h \in Handle :
           \/ atl'[h] = atl[h]
           \/ atl[h] \in {"idle", "failed"} /\ atl'[h] \in {"idle", "failed"}
  PROVE  Consistent'
<1>1. \A m \in Nif : \A s \in subscribers[m] : s.handle \in Handle
  BY DEF Inv, TypeOK, Subscriber
<1>2. StatusMatches'
  BY <1>1 DEF Inv, SubscribersMatchModem, StatusMatches
<1>3. UsedHandlesSubscribe'
  BY DEF Inv, SubscribersMatchModem, UsedHandlesSubscribe, HandlesOf
<1> QED
  BY <1>2, <1>3 DEF Inv, SubscribersMatchModem, Consistent, UncreatedIsReleased,
         ReleasedIffNoSubscribers, ConnectionIsWanted, Active, OneSubscriptionPerHandle

(* Any step of the adapter's thread, the framework or the modem.           *)
LEMMA InvStep == Inv /\ TypeOK' /\ [Next]_vars => Inv'
<1> SUFFICES ASSUME Inv, TypeOK', [Next]_vars PROVE Consistent'
  BY DEF Inv, Consistent, SubscribersMatchModem
<1>1. ASSUME NEW cb \in Registered, CreateAgpsStateMachines(cb)
      PROVE  Consistent'
  <2>1. created \subseteq created' /\ UNCHANGED <<state, subscribers, atl>>
    BY <1>1 DEF CreateAgpsStateMachines
  <2>2. UncreatedIsReleased'
    BY <2>1 DEF Inv, UncreatedIsReleased
  <2> QED
    BY <2>1, <2>2 DEF Inv, SubscribersMatchModem, Consistent, ReleasedIffNoSubscribers,
         ConnectionIsWanted, Active, StatusMatches, OneSubscriptionPerHandle,
         UsedHandlesSubscribe, HandlesOf
<1>2. ASSUME NEW h \in Handle, NEW t \in AtlType, RequestATL(h, t)
      PROVE  Consistent'
  <2> DEFINE type == EffectiveType(t)
             n == NifOf(type)
  <2>1. type \in AtlType /\ atl[h] \in {"idle", "failed"} /\ created' = created
    BY <1>2, EffectiveTypeType DEF RequestATL
  <2>2. \/ n \in created /\ Subscribe(n, h, type)
        \/ Notify({h}, "failed") /\ UNCHANGED <<state, subscribers>>
    BY <1>2 DEF RequestATL
  <2> HIDE DEF type, n
  <2>3. CASE n \in created /\ Subscribe(n, h, type)
    BY <2>1, <2>3, SubscribeKeeps
  <2>4. CASE Notify({h}, "failed") /\ UNCHANGED <<state, subscribers>>
    BY <2>1, <2>4, UnchangedKeeps DEF Notify
  <2> QED BY <2>2, <2>3, <2>4
<1>3. ASSUME NEW h \in Handle, ReleaseATL(h)
      PROVE  Consistent'
  BY <1>3, UnsubscribeKeeps, UnchangedKeeps DEF ReleaseATL, Nif
<1>4. CASE HandleModemSSR
  BY <1>4, RestartKeeps
<1>5. ASSUME NEW n \in Nif, DataConnOpen(n)
      PROVE  Consistent'
  BY <1>5, GrantedKeeps, UnchangedKeeps DEF DataConnOpen
<1>6. ASSUME NEW n \in Nif,
             DataConnOpenBadApn(n) \/ DataConnFailed(n) \/ DataConnClosed(n)
      PROVE  Consistent'
  BY <1>6, TailType, AnswerKeeps DEF Inv, DataConnOpenBadApn, DataConnFailed, DataConnClosed,
    Answers
<1>7. ASSUME NEW n \in Nif, ReportPdnTypeFromWds(n)
      PROVE  Consistent'
  BY <1>7, GrantedKeeps DEF ReportPdnTypeFromWds
<1>8. ASSUME NEW n \in Nif, DataConnLost(n)
      PROVE  Consistent'
  BY <1>8, AnswerKeeps DEF DataConnLost, Inv, TypeOK
<1>9. CASE UNCHANGED vars
  BY <1>9, UnchangedKeeps DEF vars
<1> QED
  BY <1>1, <1>2, <1>3, <1>4, <1>5, <1>6, <1>7, <1>8, <1>9 DEF Next, FrameworkAnswer

LEMMA InvHolds == Spec => []Inv
<1>1. Init /\ TypeOK => Inv
  BY DEF Init, Inv, UncreatedIsReleased, ReleasedIffNoSubscribers, ConnectionIsWanted,
         SubscribersMatchModem, StatusMatches, OneSubscriptionPerHandle,
         UsedHandlesSubscribe
<1> QED BY <1>1, InvStep, TypeCorrect, PTL DEF Spec

(* A machine is in RELEASED exactly when its list is empty (Agps.cpp:208). *)
THEOREM ReleasedMeansUnused == Spec => []ReleasedIffNoSubscribers
<1>1. Inv => ReleasedIffNoSubscribers
  BY DEF Inv
<1> QED BY <1>1, InvHolds, PTL

(* While a data connection is pending or acquired somebody active wants it *)
(* (Agps.cpp:140-150).                                                     *)
THEOREM ConnectionAlwaysWanted == Spec => []ConnectionIsWanted
<1>1. Inv => ConnectionIsWanted
  BY DEF Inv
<1> QED BY <1>1, InvHolds, PTL

(* The subscriber lists and what the modem was told never drift apart.     *)
THEOREM SubscribersAlwaysMatch == Spec => []SubscribersMatchModem
<1>1. Inv => SubscribersMatchModem
  BY DEF Inv
<1> QED BY <1>1, InvHolds, PTL

(***************************************************************************)
(* The service the modem relies on.                                        *)
(***************************************************************************)
USE DEF Service!Status, Service!Unused, Service!MayBecome

LEMMA StepOfOne ==
  ASSUME Inv, TypeOK', NEW h \in Handle,
         \A g \in Handle : g # h => atl'[g] = atl[g],
         atl'[h] = atl[h] \/ atl'[h] \in Service!MayBecome(atl[h])
  PROVE  Service!Step
  BY DEF Service!Step, TypeOK, AtlStatus

LEMMA StepOfUsed ==
  ASSUME Inv, TypeOK',
         \A h \in Handle :
           atl'[h] = atl[h] \/ (/\ atl[h] \notin Service!Unused
                               /\ atl'[h] \in Service!MayBecome(atl[h]))
  PROVE  Service!Step
  BY DEF Service!Step, TypeOK, AtlStatus

LEMMA AnswerIsService ==
  ASSUME Inv, TypeOK', NEW n \in Nif, NEW cmds \in Seq(Command),
         Released(n, cmds) \/ Denied(n, cmds)
  PROVE  Service!Step
<1>1. ASSUME NEW h \in HandlesOf(subscribers[n]), h \in Handle
      PROVE  /\ state[n] = "PENDING" => atl[h] \in {"opening", "closing"}
             /\ state[n] = "ACQUIRED" => atl[h] \in {"open", "closing"}
             /\ h \in HandlesOf(Inactive(n)) => atl[h] = "closing"
  BY <1>1 DEF HandlesOf, Inactive, Inv, SubscribersMatchModem, StatusMatches
<1>3. CASE EndReleasing(n, cmds)
  BY <1>1, <1>3, StepOfUsed DEF EndReleasing, Notify, HandlesOf, Inactive
<1>4. CASE state[n] = "ACQUIRED" /\ DropAll(n, cmds, "idle")
  BY <1>1, <1>4, StepOfUsed DEF DropAll, Notify
<1>5. CASE state[n] = "PENDING" /\ DropAll(n, cmds, "failed")
  BY <1>1, <1>5, StepOfUsed DEF DropAll, Notify
<1>6. CASE Ignore(n, cmds)
  BY <1>6, StepOfUsed DEF Ignore
<1> QED BY <1>3, <1>4, <1>5, <1>6 DEF Released, Denied

LEMMA GrantedIsService ==
  ASSUME Inv, TypeOK', NEW n \in Nif, Granted(n)
  PROVE  Service!Step
<1>1. \A h \in Handle : h \in HandlesOf(Active(n)) /\ state[n] = "PENDING"
                          => atl[h] = "opening"
  BY DEF HandlesOf, Active, Inv, SubscribersMatchModem, StatusMatches
<1> QED BY <1>1, StepOfUsed DEF Granted, Notify

LEMMA ReleaseIsService ==
  ASSUME Inv, TypeOK', NEW h \in Handle, ReleaseATL(h)
  PROVE  Service!Step
<1>1. CASE UNCHANGED atl
  BY <1>1, StepOfUsed
<1>2. ASSUME NEW n \in Nif, h \in HandlesOf(subscribers[n]), Unsubscribe(n, h)
      PROVE  Service!Step
  <2>1. atl[h] \in {"opening", "open"}
    BY <1>2 DEF ReleaseATL, HandlesOf, Inv, SubscribersMatchModem, StatusMatches
  <2> QED BY <1>2, <2>1, StepOfOne DEF Unsubscribe, Notify
<1> QED BY <1>1, <1>2 DEF ReleaseATL, Nif

LEMMA RequestIsService ==
  ASSUME Inv, TypeOK', NEW h \in Handle, NEW t \in AtlType, RequestATL(h, t)
  PROVE  Service!Step
  BY StepOfOne DEF RequestATL, Subscribe, Notify

LEMMA ServiceStep == Inv /\ TypeOK' /\ [Next]_vars => [Service!Next]_atl
<1> SUFFICES ASSUME Inv, TypeOK', [Next]_vars
             PROVE  Service!Step \/ Service!Restart \/ UNCHANGED atl
  BY DEF Service!Next
<1>1. ASSUME NEW cb \in Registered, CreateAgpsStateMachines(cb)
      PROVE  UNCHANGED atl
  BY <1>1 DEF CreateAgpsStateMachines
<1>2. ASSUME NEW h \in Handle, NEW t \in AtlType, RequestATL(h, t)
      PROVE  Service!Step
  BY <1>2, RequestIsService
<1>3. ASSUME NEW h \in Handle, ReleaseATL(h)
      PROVE  Service!Step
  BY <1>3, ReleaseIsService
<1>4. CASE HandleModemSSR
  BY <1>4 DEF HandleModemSSR, Notify, Service!Restart
<1>5. ASSUME NEW n \in Nif, DataConnOpen(n)
      PROVE  Service!Step \/ UNCHANGED atl
  BY <1>5, GrantedIsService DEF DataConnOpen
<1>6. ASSUME NEW n \in Nif,
             DataConnOpenBadApn(n) \/ DataConnFailed(n) \/ DataConnClosed(n)
      PROVE  Service!Step
  BY <1>6, TailType, AnswerIsService DEF Inv, DataConnOpenBadApn, DataConnFailed,
    DataConnClosed, Answers
<1>7. ASSUME NEW n \in Nif, ReportPdnTypeFromWds(n)
      PROVE  Service!Step
  BY <1>7, GrantedIsService DEF ReportPdnTypeFromWds
<1>8. ASSUME NEW n \in Nif, DataConnLost(n)
      PROVE  Service!Step
  BY <1>8, AnswerIsService DEF DataConnLost, Inv, TypeOK
<1>9. CASE UNCHANGED vars
  BY <1>9 DEF vars
<1> QED
  BY <1>1, <1>2, <1>3, <1>4, <1>5, <1>6, <1>7, <1>8, <1>9 DEF Next, FrameworkAnswer

(* What the modem relies on: every behaviour of the state machines, for    *)
(* any failures of the framework, is one AtlService allows.                *)
THEOREM ImplementsService == Spec => ImplementsAtlService
<1>1. Init => Service!Init
  BY DEF Init, Service!Init
<1> QED
  BY <1>1, ServiceStep, InvHolds, TypeCorrect, PTL DEF Spec, ImplementsAtlService, Service!Spec

(***************************************************************************)
(* No machine waits for an answer that will not come.                      *)
(***************************************************************************)
LEMMA NewestOfAppend ==
  ASSUME NEW cmds \in Seq(Command), NEW c \in Command
  PROVE  /\ Append(cmds, c) # <<>>
         /\ Append(cmds, c)[Len(Append(cmds, c))] = c
  OBVIOUS

(* Answering a command leaves the newest one, unless it was the newest *)
LEMMA NewestOfTail ==
  ASSUME NEW s \in Seq(Command), s # <<>>, NEW r \in BOOLEAN,
         Head(s).request # r, s[Len(s)].request = r
  PROVE  Tail(s) # <<>> /\ Tail(s)[Len(Tail(s))].request = r
<1>2. Len(s) > 1
  OBVIOUS
<1>3. /\ Len(Tail(s)) = Len(s) - 1
      /\ Tail(s)[Len(s) - 1] = s[Len(s)]
  BY <1>2
<1>4. Tail(s) # <<>>
  BY <1>2, <1>3
<1> QED BY <1>3, <1>4

(* AnswerIsComing for one interface *)
Coming(n) ==
  /\ state[n] = "PENDING" => NewestIs(n, TRUE) \/ lookups[n] > 0
  /\ state[n] = "RELEASING" => NewestIs(n, FALSE)

LEMMA SendComing ==
  ASSUME TypeOK, NEW n \in Nif, NEW cmds \in Seq(Command), NEW request \in BOOLEAN,
         NEW type \in AtlType, Send(n, cmds, request, type), Heard(n)
  PROVE  NewestIs(n, request)'
<1> DEFINE c == [request |-> request, type |-> type]
<1>1. c \in Command /\ c.request = request
  BY DEF Command
<1> HIDE DEF c
<1> QED BY <1>1, NewestOfAppend DEF NewestIs, Send, TypeOK

(* Every machine has a callback to ask *)
CreatedIsHeard == \A n \in Nif : n \in created => Heard(n)

LEMMA CreatedIsHeardInit == Init => CreatedIsHeard
  BY DEF Init, CreatedIsHeard

LEMMA CreatedIsHeardStep ==
  ASSUME TypeOK, CreatedIsHeard, [Next]_vars, "no_priority" \notin Troubles
  PROVE  CreatedIsHeard'
<1>1. ASSUME NEW cb \in Registered, CreateAgpsStateMachines(cb)
      PROVE  CreatedIsHeard'
  <2>1. cb.priority \in Nat /\ cbPriority \in Nat
    BY RegisteredType DEF TypeOK
  <2>2. /\ cbPriority' \in Nat /\ cbPriority' >= cbPriority /\ cbPriority' >= cb.priority
        /\ \A n \in created' : n \in created \/ \E t \in cb.types : NifOf(t) = n
    BY <1>1, <2>1 DEF CreateAgpsStateMachines
  <2>3. SUFFICES ASSUME NEW n \in Nif, n \in created', n # "internet"
                 PROVE  cbPriority' > 0
    BY DEF CreatedIsHeard, Heard
  <2>4. n = "agnss"
    BY <2>3 DEF Nif
  <2>5. CASE n \in created
    BY <2>1, <2>2, <2>3, <2>5 DEF CreatedIsHeard, Heard
  <2>6. CASE \E t \in cb.types : NifOf(t) = n
    BY <2>1, <2>2, <2>4, <2>6, RegisteredType
  <2> QED BY <2>2, <2>3, <2>5, <2>6
<1>2. CASE UNCHANGED <<created, cbPriority>>
  BY <1>2 DEF CreatedIsHeard, Heard
<1>3. \/ \E cb \in Registered : CreateAgpsStateMachines(cb)
      \/ UNCHANGED <<created, cbPriority>>
  BY DEF Next, FrameworkAnswer, RequestATL, ReleaseATL, HandleModemSSR, DataConnOpen,
    DataConnOpenBadApn, DataConnFailed, DataConnClosed, ReportPdnTypeFromWds, DataConnLost, vars
<1> QED BY <1>1, <1>2, <1>3

(* The other interface is not concerned *)
LEMMA OtherComing ==
  ASSUME TypeOK, NEW m \in Nif, Coming(m),
         state'[m] = state[m], inbox'[m] = inbox[m], lookups'[m] = lookups[m]
  PROVE  Coming(m)'
  BY DEF Coming, NewestIs

(* The answer to the oldest command, or a close nobody asked for *)
LEMMA AnswerComing ==
  ASSUME TypeOK, NEW n \in Nif, NEW cmds \in Seq(Command),
         Released(n, cmds) \/ Denied(n, cmds), lookups' = lookups,
         state[n] # "RELEASED" => Heard(n),
         state[n] = "PENDING" /\ state'[n] = "PENDING" =>
           lookups[n] > 0 \/ (cmds # <<>> /\ cmds[Len(cmds)].request = TRUE)
  PROVE  /\ Coming(n)'
         /\ \A m \in Nif : m # n => state'[m] = state[m] /\ inbox'[m] = inbox[m]
<1>2. CASE EndReleasing(n, cmds)
  <2>1. CASE Active(n) # {}
    BY <1>2, <2>1, SendComing DEF EndReleasing, Transition, TypeOK, Send, Coming
  <2>2. CASE Active(n) = {}
    BY <1>2, <2>2 DEF EndReleasing, Transition, Coming, TypeOK
  <2> QED BY <2>1, <2>2
<1>3. ASSUME NEW status, DropAll(n, cmds, status)
      PROVE  /\ Coming(n)'
             /\ \A m \in Nif : m # n => state'[m] = state[m] /\ inbox'[m] = inbox[m]
  BY <1>3 DEF DropAll, Transition, Coming, TypeOK
<1>4. CASE Ignore(n, cmds) /\ state[n] \in {"RELEASED", "PENDING", "ACQUIRED"}
  BY <1>4 DEF Ignore, Coming, NewestIs, TypeOK
<1> QED BY <1>2, <1>3, <1>4 DEF Released, Denied

LEMMA GrantedComing ==
  ASSUME TypeOK, NEW n \in Nif, Granted(n)
  PROVE  /\ state'[n] # "PENDING"
         /\ state'[n] = "RELEASING" => state[n] = "RELEASING"
         /\ \A m \in Nif : m # n => state'[m] = state[m]
  BY DEF Granted, Transition, TypeOK

(* While a machine is pending or releasing, the answer that moves it on is *)
(* still due, unless the framework may report a bad APN, which consumes    *)
(* the command and leaves a pending machine to wait for ever, or may       *)
(* register without a priority, which leaves the machine without a         *)
(* callback (Agps.cpp:549).                                                *)
THEOREM AnswerAlwaysComing ==
  ASSUME "bad_apn" \notin Troubles, "no_priority" \notin Troubles
  PROVE  Spec => []AnswerIsComing
<1>1. AnswerIsComing <=> \A n \in Nif : Coming(n)
  BY DEF AnswerIsComing, Coming
<1>2. Init => \A n \in Nif : Coming(n)
  BY DEF Init, Coming
<1>3. Inv /\ CreatedIsHeard /\ (\A n \in Nif : Coming(n)) /\ [Next]_vars
        => (\A n \in Nif : Coming(n))'
  <2> SUFFICES ASSUME Inv, CreatedIsHeard, \A n \in Nif : Coming(n), [Next]_vars,
                      NEW m \in Nif
               PROVE  Coming(m)'
    OBVIOUS
  <2> USE DEF Inv
  <2>0. \A n \in Nif : n \in created \/ state[n] # "RELEASED" => Heard(n)
    BY DEF CreatedIsHeard, UncreatedIsReleased
  <2>1. ASSUME NEW cb \in Registered, CreateAgpsStateMachines(cb)
        PROVE  Coming(m)'
    BY <2>1, OtherComing DEF CreateAgpsStateMachines
  <2>2. ASSUME NEW h \in Handle, NEW t \in AtlType, RequestATL(h, t)
        PROVE  Coming(m)'
    <3> DEFINE type == EffectiveType(t)
               n == NifOf(type)
    <3>1. type \in AtlType /\ n \in Nif /\ lookups' = lookups
      BY <2>2, EffectiveTypeType DEF RequestATL
    <3>2. (n \in created /\ Subscribe(n, h, type)) \/ UNCHANGED <<state, inbox>>
      BY <2>2 DEF RequestATL
    <3> HIDE DEF type, n
    <3>3. CASE UNCHANGED <<state, inbox>>
      BY <3>1, <3>3, OtherComing
    <3>4. CASE n \in created /\ Transition(n, "PENDING") /\ Send(n, inbox[n], TRUE, type)
      <4>1. inbox[n] \in Seq(Command) /\ Heard(n)
        BY <2>0, <3>1, <3>4 DEF TypeOK
      <4>2. CASE m = n
        BY <3>1, <3>4, <4>1, <4>2, SendComing DEF Transition, TypeOK, Coming
      <4>3. CASE m # n
        BY <3>1, <3>4, <4>3, OtherComing DEF Transition, TypeOK, Send
      <4> QED BY <4>2, <4>3
    <3> QED BY <3>2, <3>3, <3>4 DEF Subscribe
  <2>3. ASSUME NEW h \in Handle, ReleaseATL(h)
        PROVE  Coming(m)'
    <3>1. lookups' = lookups
      BY <2>3 DEF ReleaseATL
    <3>3. CASE UNCHANGED <<state, inbox>>
      BY <3>1, <3>3, OtherComing
    <3>4. ASSUME NEW n \in Nif, state[n] \in {"PENDING", "ACQUIRED"},
                 Transition(n, "RELEASING"), Send(n, inbox[n], FALSE, agpsType[n])
          PROVE  Coming(m)'
      <4>1. /\ inbox[n] \in Seq(Command) /\ agpsType[n] \in AtlType
            /\ state[n] # "RELEASED" /\ Heard(n)
        BY <2>0, <3>4 DEF TypeOK
      <4>2. CASE m = n
        BY <3>4, <4>1, <4>2, SendComing DEF Transition, TypeOK, Coming
      <4>3. CASE m # n
        BY <3>1, <3>4, <4>3, OtherComing DEF Transition, TypeOK, Send
      <4> QED BY <4>2, <4>3
    <3> QED BY <2>3, <3>3, <3>4 DEF Unsubscribe, ReleaseATL, Nif
  <2>4. CASE HandleModemSSR
    BY <2>4 DEF HandleModemSSR, Coming, UncreatedIsReleased
  <2>5. ASSUME NEW n \in Nif, DataConnOpen(n)
        PROVE  Coming(m)'
    <3>1. /\ inbox[n] # <<>> /\ Head(inbox[n]).request = TRUE
          /\ inbox' = [inbox EXCEPT ![n] = Tail(@)]
      BY <2>5 DEF DataConnOpen, Answers
    <3>2. NewestIs(n, FALSE) => NewestIs(n, FALSE)'
      BY <3>1, NewestOfTail DEF NewestIs, TypeOK
    <3>3. CASE m # n
      BY <2>5, <3>1, <3>3, GrantedComing, OtherComing DEF DataConnOpen, TypeOK
    <3>4. CASE m = n /\ lookups' = [lookups EXCEPT ![n] = @ + 1] /\ state' = state
      <4>1. lookups'[n] > 0
        BY <3>4 DEF TypeOK
      <4> QED BY <3>2, <3>4, <4>1 DEF Coming
    <3>5. CASE m = n /\ Granted(n)
      BY <3>2, <3>5, GrantedComing DEF Coming
    <3> QED BY <2>5, <3>3, <3>4, <3>5 DEF DataConnOpen
  <2>6. ASSUME NEW n \in Nif, DataConnFailed(n) \/ DataConnClosed(n)
        PROVE  Coming(m)'
    <3> DEFINE cmds == Tail(inbox[n])
    <3>1. /\ cmds \in Seq(Command) /\ lookups' = lookups
          /\ inbox[n] # <<>> /\ inbox[n] \in Seq(Command)
      BY <2>6, TailType DEF DataConnFailed, DataConnClosed, Answers, TypeOK
    <3>2. Released(n, cmds) \/ Denied(n, cmds)
      BY <2>6 DEF DataConnFailed, DataConnClosed
    <3>3. state[n] = "PENDING" /\ state'[n] = "PENDING" =>
            lookups[n] > 0 \/ (cmds # <<>> /\ cmds[Len(cmds)].request = TRUE)
      <4> SUFFICES ASSUME state[n] = "PENDING", state'[n] = "PENDING", ~(lookups[n] > 0)
                   PROVE  cmds # <<>> /\ cmds[Len(cmds)].request = TRUE
        OBVIOUS
      <4>1. DataConnClosed(n)
        BY <2>6 DEF DataConnFailed, Denied, EndReleasing, DropAll, Transition, TypeOK
      <4> QED BY <3>1, <4>1, NewestOfTail DEF Coming, NewestIs, DataConnClosed, Answers
    <3> HIDE DEF cmds
    <3> QED BY <2>0, <3>1, <3>2, <3>3, OtherComing, AnswerComing
  <2>7. ASSUME NEW n \in Nif, ReportPdnTypeFromWds(n)
        PROVE  Coming(m)'
    BY <2>7, GrantedComing, OtherComing DEF ReportPdnTypeFromWds, TypeOK, Coming, NewestIs
  <2>8. ASSUME NEW n \in Nif, DataConnLost(n)
        PROVE  Coming(m)'
    BY <2>0, <2>8, AnswerComing, OtherComing DEF DataConnLost, TypeOK, Coming, NewestIs
  <2>9. CASE UNCHANGED vars
    BY <2>9, OtherComing DEF vars
  <2>10. ASSUME NEW n \in Nif, DataConnOpenBadApn(n)
         PROVE  FALSE
    BY <2>10 DEF DataConnOpenBadApn
  <2> QED
    BY <2>1, <2>2, <2>3, <2>4, <2>5, <2>6, <2>7, <2>8, <2>9, <2>10
       DEF Next, FrameworkAnswer
<1>4. TypeOK /\ CreatedIsHeard /\ [Next]_vars => CreatedIsHeard'
  BY CreatedIsHeardStep
<1> QED BY <1>1, <1>2, <1>3, <1>4, CreatedIsHeardInit, TypeCorrect, InvHolds, PTL DEF Spec

(***************************************************************************)
(* Commands name the type of their own interface.  That needs to be known  *)
(* of mAgpsType too, which later commands are sent with.                   *)
(***************************************************************************)
Proper(n, type) == NifOf(type) = n /\ (type = "SUPL_ES" => UseEmergencyPdn)
AllProper(n, cmds) == \A i \in 1..Len(cmds) : Proper(n, cmds[i].type)
TypesProper == \A n \in Nif : Proper(n, agpsType[n])
CommandsProper == \A n \in Nif : AllProper(n, inbox[n])

LEMMA EffectiveTypeProper ==
  ASSUME NEW t \in AtlType
  PROVE  Proper(NifOf(EffectiveType(t)), EffectiveType(t))
  BY DEF Proper, EffectiveType

LEMMA TailProper ==
  ASSUME NEW n \in Nif, NEW cmds \in Seq(Command), cmds # <<>>, AllProper(n, cmds)
  PROVE  AllProper(n, Tail(cmds))
  BY DEF AllProper

LEMMA ReplacedProper ==
  ASSUME TypeOK, CommandsProper, NEW n \in Nif, NEW cmds, AllProper(n, cmds),
         inbox' = [inbox EXCEPT ![n] = cmds]
  PROVE  CommandsProper'
  BY DEF CommandsProper, TypeOK, AllProper

LEMMA SendProper ==
  ASSUME TypeOK, CommandsProper, NEW n \in Nif, NEW cmds \in Seq(Command),
         AllProper(n, cmds), NEW request \in BOOLEAN, NEW type \in AtlType,
         Proper(n, type), Send(n, cmds, request, type)
  PROVE  CommandsProper'
<1> DEFINE c == [request |-> request, type |-> type]
<1>1. c \in Command /\ c.type = type
  BY DEF Command
<1>2. \/ inbox' = [inbox EXCEPT ![n] = Append(cmds, c)]
      \/ inbox' = [inbox EXCEPT ![n] = cmds]
  BY DEF Send
<1> HIDE DEF c
<1>4. AllProper(n, Append(cmds, c))
  BY <1>1 DEF AllProper
<1> QED BY <1>2, <1>4, ReplacedProper

LEMMA AnswerProper ==
  ASSUME TypeOK, TypesProper, CommandsProper, NEW n \in Nif, NEW cmds \in Seq(Command),
         AllProper(n, cmds), Released(n, cmds) \/ Denied(n, cmds)
  PROVE  CommandsProper'
<1>1. agpsType[n] \in AtlType /\ Proper(n, agpsType[n])
  BY DEF TypeOK, TypesProper
<1> QED BY <1>1, SendProper, ReplacedProper DEF Released, Denied, EndReleasing, DropAll, Ignore

LEMMA ProperStep ==
  TypeOK /\ TypesProper /\ CommandsProper /\ [Next]_vars => TypesProper' /\ CommandsProper'
<1> SUFFICES ASSUME TypeOK, TypesProper, CommandsProper, [Next]_vars
             PROVE  TypesProper' /\ CommandsProper'
  OBVIOUS
<1>0. ASSUME UNCHANGED <<agpsType, inbox>>
      PROVE  TypesProper' /\ CommandsProper'
  BY <1>0 DEF TypesProper, CommandsProper
<1>1. ASSUME NEW n \in Nif
      PROVE  /\ inbox[n] \in Seq(Command) /\ AllProper(n, inbox[n])
             /\ agpsType[n] \in AtlType /\ Proper(n, agpsType[n])
  BY <1>1 DEF TypeOK, TypesProper, CommandsProper
<1>2. ASSUME NEW h \in Handle, NEW t \in AtlType, RequestATL(h, t)
      PROVE  TypesProper' /\ CommandsProper'
  <2> DEFINE type == EffectiveType(t)
             n == NifOf(type)
  <2>1. type \in AtlType /\ n \in Nif /\ Proper(n, type)
    BY EffectiveTypeType, EffectiveTypeProper
  <2>2. CASE UNCHANGED <<agpsType, inbox>>
    BY <1>0, <2>2
  <2>3. CASE agpsType' = [agpsType EXCEPT ![n] = type] /\ Subscribe(n, h, type)
    <3> HIDE DEF type, n
    <3> QED BY <1>1, <2>1, <2>3, SendProper DEF TypesProper, TypeOK, CommandsProper, Subscribe
  <2> QED BY <1>2, <2>2, <2>3 DEF RequestATL
<1>3. ASSUME NEW h \in Handle, ReleaseATL(h)
      PROVE  TypesProper' /\ CommandsProper'
  BY <1>1, <1>3, SendProper DEF ReleaseATL, Unsubscribe, Nif, CommandsProper, TypesProper
<1>4. CASE HandleModemSSR
  <2> SUFFICES ASSUME NEW n \in Nif
               PROVE  AllProper(n, inbox'[n])
    BY <1>4 DEF HandleModemSSR, TypesProper, CommandsProper, AllProper
  <2> DEFINE c == [request |-> FALSE, type |-> agpsType[n]]
  <2> HIDE DEF c
  <2> QED BY <1>1, <1>4 DEF AllProper, HandleModemSSR, Command
<1>5. ASSUME NEW n \in Nif, DataConnOpen(n)
      PROVE  TypesProper' /\ CommandsProper'
  BY <1>1, <1>5, TailProper, ReplacedProper DEF DataConnOpen, Answers, TypesProper
<1>6. ASSUME NEW n \in Nif,
             DataConnOpenBadApn(n) \/ DataConnFailed(n) \/ DataConnClosed(n)
      PROVE  TypesProper' /\ CommandsProper'
  BY <1>1, <1>6, TailType, TailProper, AnswerProper DEF DataConnOpenBadApn, DataConnFailed,
    DataConnClosed, Answers, TypesProper
<1>7. ASSUME NEW n \in Nif, DataConnLost(n)
      PROVE  TypesProper' /\ CommandsProper'
  BY <1>1, <1>7, AnswerProper DEF DataConnLost, TypesProper
<1>8. ASSUME NEW n \in Nif, ReportPdnTypeFromWds(n)
      PROVE  UNCHANGED <<agpsType, inbox>>
  BY <1>8 DEF ReportPdnTypeFromWds
<1>9. ASSUME NEW cb \in Registered, CreateAgpsStateMachines(cb)
      PROVE  UNCHANGED <<agpsType, inbox>>
  BY <1>9 DEF CreateAgpsStateMachines
<1>10. CASE UNCHANGED vars
  BY <1>0, <1>10 DEF vars
<1> QED
  BY <1>0, <1>2, <1>3, <1>4, <1>5, <1>6, <1>7, <1>8, <1>9, <1>10
     DEF Next, FrameworkAnswer

(* No command ever asks an interface for another one's type, nor for the   *)
(* emergency PDN unless gps.conf allows it (Agps.cpp:588-597), although    *)
(* one handle's command may be sent with the type another one asked for.   *)
THEOREM CommandsAlwaysNameOwnType == Spec => []CommandsNameOwnType
<1>1. CommandsProper <=> CommandsNameOwnType
  BY DEF CommandsProper, AllProper, Proper, CommandsNameOwnType
<1>2. Init => TypesProper /\ CommandsProper
  BY DEF Init, TypesProper, CommandsProper, AllProper, Proper, NifOf, Nif
<1> QED BY <1>1, <1>2, ProperStep, TypeCorrect, PTL DEF Spec

=============================================================================
