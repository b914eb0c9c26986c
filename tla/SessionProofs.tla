----------------------------- MODULE SessionProofs -----------------------------
(***************************************************************************)
(* A session that ended stays ended (EndedSessionsStayEnded of Tracking):  *)
(* no answer of the modem that comes late, no start that waited for the    *)
(* engine's capabilities and no update that is under way brings back what  *)
(* its client stopped or left behind.                                      *)
(*                                                                         *)
(* The argument follows one session.  What is under way for it is told     *)
(* apart by what its answer will do, and of a start that waits and of an   *)
(* update there is never more than one: clients wait for the answer to an  *)
(* update ("update" is not in Impatient), and by RequestsAlwaysAnswered    *)
(* nothing is under way for a session whose requests are answered.         *)
(***************************************************************************)
EXTENDS TrackingProofs

(* How many of the calls of C and the messages of W are under way, and how *)
(* many of them are left in the step that is taken, which may handle one   *)
Brings(C, W) == {m \in ProperReply : m.call \in C} \cup W
Flow(C, W) == HowMany(api, C) + HowMany(pending, W) + HowMany(inbox, Brings(C, W))
Rest(C, W) == HowMany(api, C) + HowMany(pending, W) + HowMany(inbox', Brings(C, W))

(* A handler adds calls and messages that wait *)
Hands(more, wait) ==
  /\ more \in Seq(ProperCall) /\ api' = api \o more
  /\ wait \in Seq(Message) /\ pending' = pending \o wait

LEMMA FlowTypes ==
  ASSUME TrTyped, NEW C, NEW W
  PROVE  /\ HowMany(api, C) \in Nat /\ HowMany(pending, W) \in Nat
         /\ HowMany(inbox, Brings(C, W)) \in Nat /\ Flow(C, W) \in Nat
  BY TrTypesParts, CountBoth DEF Flow

LEMMA FlowHands ==
  ASSUME TrTyped, TrTyped', NEW C, NEW W, NEW more, NEW wait, Hands(more, wait)
  PROVE  /\ Flow(C, W)' = Rest(C, W) + HowMany(more, C) + HowMany(wait, W)
         /\ HowMany(more, C) \in Nat /\ HowMany(wait, W) \in Nat /\ Rest(C, W) \in Nat
<1>1. api \in Seq(ProperCall) /\ pending \in Seq(Message)
  BY TrTypesParts
<1>3. PICK a, b, i, x, y : /\ a = HowMany(api, C) /\ b = HowMany(pending, W)
                           /\ i = HowMany(inbox', Brings(C, W))
                           /\ x = HowMany(more, C) /\ y = HowMany(wait, W)
  OBVIOUS
<1>4. a \in Nat /\ x \in Nat /\ HowMany(api', C) = a + x
  BY <1>1, <1>3, CountBoth DEF Hands
<1>5. b \in Nat /\ y \in Nat /\ HowMany(pending', W) = b + y
  BY <1>1, <1>3, CountBoth DEF Hands
<1>6. i \in Nat
  BY <1>3, CountBoth DEF TrTyped
<1> QED BY <1>3, <1>4, <1>5, <1>6 DEF Flow, Rest

LEMMA RestIs ==
  ASSUME TrTyped, NEW C, NEW W
  PROVE  /\ inbox' = inbox => Rest(C, W) = Flow(C, W)
         /\ inbox # <<>> /\ inbox' = Tail(inbox) =>
              /\ Flow(C, W) = Rest(C, W) + (IF Head(inbox) \in Brings(C, W) THEN 1 ELSE 0)
              /\ Rest(C, W) \in Nat
<1>1. ASSUME inbox # <<>>, inbox' = Tail(inbox)
      PROVE  /\ Flow(C, W) = Rest(C, W) + (IF Head(inbox) \in Brings(C, W) THEN 1 ELSE 0)
             /\ Rest(C, W) \in Nat
  <2>1. inbox \in Seq(Inboxes)
    BY TrTypesParts
  <2>2. PICK B : B = Brings(C, W)
    OBVIOUS
  <2>4. HowMany(api, C) \in Nat /\ HowMany(pending, W) \in Nat
    BY FlowTypes
  <2>5. /\ HowMany(Tail(inbox), B) \in Nat
        /\ HowMany(inbox, B) = HowMany(Tail(inbox), B) + (IF Head(inbox) \in B THEN 1 ELSE 0)
    BY <1>1, <2>1, CountTail
  <2> QED BY <1>1, <2>2, <2>4, <2>5 DEF Flow, Rest
<1> QED BY <1>1 DEF Rest, Flow

(* Nothing is left of what is not counted *)
LEMMA RestQuiet ==
  ASSUME TrTyped, TrTyped', NEW C, NEW W, Rest(C, W) = 0
  PROVE  /\ \A c \in ToSet(api) : c \notin C
         /\ \A m \in ToSet(inbox') : m \notin Brings(C, W)
<1>1. api \in Seq(ProperCall) /\ pending \in Seq(Message)
  BY TrTypesParts
<1>2. inbox' \in Seq(Inboxes)
  BY DEF TrTyped
<1>3. PICK B : B = Brings(C, W)
  OBVIOUS
<1>6. Silent(api, C) /\ Silent(inbox', B)
  BY <1>1, <1>2, <1>3, CountZero, CountBoth DEF Rest
<1> QED BY <1>1, <1>2, <1>3, <1>6, SilentElements

LEMMA FlowQuiet ==
  ASSUME TrTyped, NEW C, NEW W, Flow(C, W) = 0
  PROVE  /\ \A c \in ToSet(api) : c \notin C
         /\ \A m \in ToSet(inbox) : m \notin Brings(C, W)
<1>2. PICK B : B = Brings(C, W)
  OBVIOUS
<1> QED BY <1>2, SilentElements, CountZero, FlowTypes, TrTypesParts DEF Flow

-----------------------------------------------------------------------------
(* The invariant, of each session                                          *)

UpdCalls(s) == {c \in ProperCall : c.s = s /\ c.request \in {"update", "switch"}}
UpdWaits(s) == {m \in Message : m.s = s /\ m.request = "update"}
StartWaits(s) == {m \in Message : m.s = s /\ m.request = "start"}

(* Updates of s that are not answered, and starts that are not handled *)
Updates(s) == Flow(UpdCalls(s), UpdWaits(s))
Starts(s) == Flow({}, StartWaits(s))

(* The calls for s that a client may be told of, in the LocApi or answered *)
Owed(s) == {c \in ProperCall : c.s = s /\ c.request \in Owing}
Under(s) == {c \in Owed(s) : \/ c \in ToSet(api)
                             \/ \E m \in ToSet(inbox) : m \in ProperReply /\ m.call = c}
Remain(s) == {c \in Owed(s) : \/ c \in ToSet(api)
                              \/ \E m \in ToSet(inbox') : m \in ProperReply /\ m.call = c}

Nowhere(s) == timeBased[s] = None /\ distanceBased[s] = None
Here(s) == Owner[s] \in clients
AskedLast(s, request) == asked[s] # <<>> /\ Last(asked[s]) = request
StopAnswer == [request |-> "stop", status |-> "success"]
Stopped(s) == StopAnswer \in ToSet(answers[s])

(* What the answer to a call will do finds the maps as the call left them *)
GoodCall(s, c) ==
  /\ c.request = "update" /\ c.by = "time" /\ c.old # None => distanceBased[s] = None
  /\ c.request = "update" /\ c.by = "distance" => timeBased[s] = None /\ c.opt.distance
  /\ c.request = "switch" => Nowhere(s) /\ ~c.opt.distance
  /\ c.request = "stop" => /\ AskedLast(s, "stop") \/ ~Here(s)
                           /\ timeBased[s] = None
                           /\ c.by = "time" => distanceBased[s] = None

(* The modem was told to stop what a client that is gone had by distance,  *)
(* or has stopped it                                                       *)
GoneCall(s) == {c \in ProperCall : c.s = s /\ c.request = "gone" /\ c.cmd = "stop"}
GoneReply(s) == {m \in ProperReply : m.call.s = s /\ m.call.request = "gone" /\ m.ok}
GoneComes(s) ==
  \/ \E c \in ToSet(api) : c \in GoneCall(s)
  \/ \E m \in ToSet(inbox) : m \in GoneReply(s)

SsMaps(s) ==
  /\ timeBased[s] = None \/ distanceBased[s] = None
  /\ asked[s] = <<>> => Nowhere(s)
  /\ ~Here(s) => timeBased[s] = None

SsStarts(s) ==
  /\ Starts(s) <= 1
  /\ Starts(s) > 0 => /\ asked[s] # <<>> /\ Nowhere(s) /\ ~Stopped(s)
                      /\ \A c \in Under(s) : c.request = "start"

SsUpdates(s) ==
  /\ Updates(s) <= 1
  /\ Updates(s) > 0 => AskedLast(s, "update") /\ Here(s)

SsCalls(s) == \A c \in Under(s) : GoodCall(s, c)
SsStopped(s) == Stopped(s) => AskedLast(s, "stop") /\ Nowhere(s)
SsGone(s) == NothingFailed /\ ~Here(s) /\ distanceBased[s] # None => GoneComes(s)

SessionOK(s) ==
  SsMaps(s) /\ SsStarts(s) /\ SsUpdates(s) /\ SsCalls(s) /\ SsStopped(s) /\ SsGone(s)
SsInv == \A s \in Session : SessionOK(s)

SsCounted == \A s \in Session : Updates(s) \in Nat /\ Starts(s) \in Nat

LEMMA SsTypes == TrTyped => SsCounted
  BY FlowTypes DEF SsCounted, Updates, Starts

(* An update that is not answered is one *)
LEMMA UpdatesCount ==
  ASSUME TrTyped, NEW s \in Session, Updates(s) = 0
  PROVE  \A c \in Under(s) : c.request \notin {"update", "switch"}
<1> SUFFICES ASSUME NEW c \in Under(s), c.request \in {"update", "switch"} PROVE FALSE
  OBVIOUS
<1> QED BY FlowQuiet DEF Under, Brings, Updates, Owed, UpdCalls

LEMMA RemainCount ==
  ASSUME TrTyped, TrTyped', NEW s \in Session, Rest(UpdCalls(s), UpdWaits(s)) = 0
  PROVE  \A c \in Remain(s) : c.request \notin {"update", "switch"}
<1> SUFFICES ASSUME NEW c \in Remain(s), c.request \in {"update", "switch"} PROVE FALSE
  OBVIOUS
<1> QED BY RestQuiet DEF Remain, Brings, Owed, UpdCalls

(* Nothing is under way for a session whose requests are answered *)
LEMMA AnsweredMeansQuiet ==
  ASSUME TrTyped, DueOK, NEW s \in Session, Here(s), Len(asked[s]) <= Len(answers[s])
  PROVE  Updates(s) = 0
<1>1. PICK a, p, i, n, k : /\ a = HowMany(api, CallsFor(s)) /\ p = HowMany(pending, WaitsFor(s))
                           /\ i = HowMany(inbox, RepliesFor(s) \cup WaitsFor(s))
                           /\ n = Len(answers[s]) /\ k = Len(asked[s])
  OBVIOUS
<1>2. a \in Nat /\ p \in Nat /\ i \in Nat /\ n \in Nat /\ k \in Nat
  BY <1>1, DueTypes DEF DueTyped
<1>3. (a + p + n) + i <= k /\ k <= n
  BY <1>1 DEF DueOK, Due, Given, Here
<1>4. a = 0 /\ p = 0 /\ i = 0
  BY <1>2, <1>3
<1>5. api \in Seq(ProperCall) /\ pending \in Seq(Message) /\ inbox \in Seq(Inboxes)
  BY TrTypesParts
<1>7. /\ UpdCalls(s) \subseteq CallsFor(s) /\ UpdWaits(s) \subseteq WaitsFor(s)
      /\ Brings(UpdCalls(s), UpdWaits(s)) \subseteq RepliesFor(s) \cup WaitsFor(s)
  BY DEF UpdCalls, CallsFor, Owing, UpdWaits, WaitsFor, Brings, RepliesFor
<1>8. /\ Silent(api, UpdCalls(s)) /\ Silent(pending, UpdWaits(s))
      /\ Silent(inbox, Brings(UpdCalls(s), UpdWaits(s)))
  BY <1>1, <1>4, <1>5, <1>7, CountZero DEF Silent
<1> QED BY <1>5, <1>8, CountZero DEF Updates, Flow

(* Clients wait for the answer to an update *)
LEMMA NoUpdateLeft ==
  ASSUME "update" \notin Impatient, TrTyped, DueOK, NEW s \in Session, SsUpdates(s),
         MayGoOn(s)
  PROVE  Updates(s) = 0
<1>1. CASE Updates(s) > 0
  BY <1>1, DueTypes, AnsweredMeansQuiet DEF SsUpdates, DueTyped, MayGoOn, AskedLast
<1>2. CASE ~(Updates(s) > 0)
  BY <1>2, SsTypes DEF SsCounted
<1> QED BY <1>1, <1>2

-----------------------------------------------------------------------------
(* Steps that only take away *)

RestUpdates(s) == Rest(UpdCalls(s), UpdWaits(s))
RestStarts(s) == Rest({}, StartWaits(s))

LEMMA HandsCount ==
  ASSUME TrTyped, TrTyped', NEW s \in Session, NEW more, NEW wait, Hands(more, wait)
  PROVE  /\ Updates(s)' = RestUpdates(s) + HowMany(more, UpdCalls(s)) + HowMany(wait, UpdWaits(s))
         /\ Starts(s)' = RestStarts(s) + HowMany(wait, StartWaits(s))
         /\ RestUpdates(s) \in Nat /\ RestStarts(s) \in Nat
         /\ HowMany(more, UpdCalls(s)) \in Nat /\ HowMany(wait, UpdWaits(s)) \in Nat
         /\ HowMany(wait, StartWaits(s)) \in Nat
<1>1. PICK N : N = {}
  OBVIOUS
<1>4. HowMany(more, N) = 0
  BY <1>1, CountZero, SilentElements DEF Hands
<1> QED BY <1>1, <1>4, FlowHands DEF Updates, RestUpdates, Starts, RestStarts

LEMMA UnderHands ==
  ASSUME TrTyped, NEW s \in Session, NEW more, NEW wait, Hands(more, wait)
  PROVE  \A c \in Under(s)' : c \in Remain(s) \/ (c \in ToSet(more) /\ c \in Owed(s))
  BY TrTypesParts, ElementsOfBoth DEF Hands, Under, Remain

LEMMA RemainIs ==
  ASSUME TrTyped, NEW s \in Session,
         inbox' = inbox \/ (inbox # <<>> /\ inbox' = Tail(inbox))
  PROVE  Remain(s) \subseteq Under(s)
  BY TrTypesParts, HeadAndTail DEF Remain, Under

LEMMA NothingHanded ==
  ASSUME TrTyped, api' = api, pending' = pending
  PROVE  Hands(<<>>, <<>>)
  BY TrTypesParts DEF Hands

(* A client that is told of a stop that succeeded *)
LEMMA StoppedBy ==
  ASSUME TrTyped, NEW s \in Session, NEW request \in Request,
         NEW status \in {"later", "success", "failure"}, Tell(s, request, status)
  PROVE  \A t \in Session : Stopped(t)' =>
           Stopped(t) \/ (t = s /\ request = "stop" /\ status = "success" /\ Here(s))
<1>1. answers \in [Session -> Seq(Answered)]
  BY TrTypesParts
<1>2. CASE status = "later" \/ Owner[s] \notin clients
  BY <1>2 DEF Tell, Stopped
<1>3. CASE ~(status = "later" \/ Owner[s] \notin clients)
  <2>1. PICK a : a = [request |-> request, status |-> status]
    OBVIOUS
  <2>2. a \in Answered
    BY <1>3, <2>1 DEF Answered
  <2>3. answers' = [answers EXCEPT ![s] = Append(@, a)]
    BY <1>3, <2>1 DEF Tell
  <2>4. ASSUME NEW t \in Session, Stopped(t)'
        PROVE  Stopped(t) \/ (t = s /\ request = "stop" /\ status = "success" /\ Here(s))
    <3>1. CASE t # s
      BY <1>1, <2>3, <2>4, <3>1 DEF Stopped
    <3>2. CASE t = s
      <4>2. ToSet(answers'[s]) = ToSet(answers[s]) \cup {a}
        BY <1>1, <2>2, <2>3, ElementsWith
      <4> QED BY <1>3, <2>1, <2>4, <3>2, <4>2 DEF Stopped, Here, StopAnswer
    <3> QED BY <3>1, <3>2
  <2> QED BY <2>4
<1> QED BY <1>2, <1>3

(* What is there of the session becomes less, unless its stop is answered *)
Less(s) ==
  /\ timeBased'[s] \in {None, timeBased[s]} /\ distanceBased'[s] \in {None, distanceBased[s]}
  /\ asked'[s] = asked[s] /\ (Here(s)' <=> Here(s))

Calmer(s) ==
  /\ Starts(s)' <= Starts(s) /\ Updates(s)' <= Updates(s)
  /\ \A c \in Under(s)' : c \in Under(s)

LEMMA Calms ==
  ASSUME TrTyped, TrTyped', NEW s \in Session, SessionOK(s), Less(s), Calmer(s),
         Stopped(s)' => \/ Stopped(s)
                        \/ AskedLast(s, "stop") /\ Nowhere(s)' /\ Starts(s) = 0,
         NothingFailed' /\ ~Here(s) /\ distanceBased'[s] # None =>
           NothingFailed /\ (GoneComes(s) => GoneComes(s)')
  PROVE  SessionOK(s)'
<1>1. Starts(s) \in Nat /\ Updates(s) \in Nat
  BY SsTypes DEF SsCounted
<1>2. Starts(s)' \in Nat /\ Updates(s)' \in Nat
  <2>1. TrTyped' => SsCounted'
    BY SsTypes, PTL
  <2> QED BY <2>1 DEF SsCounted
<1>3. Nowhere(s) => Nowhere(s)'
  BY DEF Less, Nowhere
<1>4. \A request : AskedLast(s, request)' <=> AskedLast(s, request)
  BY DEF Less, AskedLast
<1>6. SsStarts(s)'
  <2>2. ASSUME Starts(s)' > 0
        PROVE  /\ asked'[s] # <<>> /\ Nowhere(s)' /\ ~Stopped(s)'
               /\ \A c \in Under(s)' : c.request = "start"
    BY <1>1, <1>2, <1>3, <2>2 DEF Calmer, SessionOK, SsStarts, Less
  <2> QED BY <1>1, <1>2, <2>2 DEF SsStarts, SessionOK, Calmer
<1>7. SsUpdates(s)'
  BY <1>1, <1>2, <1>4 DEF SessionOK, SsUpdates, Calmer, Less
<1>8. SsCalls(s)'
  BY <1>3, <1>4 DEF GoodCall, Less, SessionOK, SsCalls, Calmer
<1> QED BY <1>3, <1>4, <1>6, <1>7, <1>8 DEF SessionOK, SsGone, Less, SsMaps, SsStopped

-----------------------------------------------------------------------------
(* Power, the engine lock, restarts and the LocApi                         *)

LEMMA StillCalm ==
  ASSUME SsInv, TrTyped, TrTyped', UNCHANGED <<timeBased, distanceBased, asked, answers, clients>>,
         NothingFailed' => NothingFailed,
         \A s \in Session : Calmer(s) /\ (NothingFailed' /\ GoneComes(s) => GoneComes(s)')
  PROVE  SsInv'
<1> SUFFICES ASSUME NEW s \in Session PROVE SessionOK(s)'
  BY DEF SsInv
<1> QED BY Calms DEF SsInv, Less, Here, Stopped

(* What the modem says of itself *)
LEMMA EventCalm ==
  ASSUME TrTyped, TrTyped', NEW e \in Event, inbox' = Append(inbox, e), UNCHANGED <<api, pending>>
  PROVE  \A s \in Session : Calmer(s) /\ (GoneComes(s) => GoneComes(s)')
<1>1. inbox \in Seq(Inboxes) /\ e \in Inboxes
  BY TrTypesParts DEF Inboxes
<1>3. e \notin ProperReply /\ e \notin Message
  BY DEF ProperReply, Reply, Message, Event
<1>5. ASSUME NEW C, NEW W, W \subseteq Message PROVE Flow(C, W)' = Flow(C, W)
  <2>1. PICK B : B = Brings(C, W)
    OBVIOUS
  <2> QED BY <1>1, <1>3, <1>5, <2>1, CountAppend DEF Flow, Brings
<1>6. ASSUME NEW s \in Session PROVE Calmer(s) /\ (GoneComes(s) => GoneComes(s)')
  <2>2. Updates(s)' = Updates(s) /\ Starts(s)' = Starts(s)
    BY <1>5 DEF Updates, Starts, UpdWaits, StartWaits
  <2> QED BY <1>1, <1>3, <2>2, SsTypes, ElementsWith DEF Calmer, SsCounted, Under, GoneComes
<1> QED BY <1>6

(* Calls for nobody count for nothing *)
LEMMA NobodyCounts ==
  ASSUME NEW q, ForNobody(q), NEW s \in Session
  PROVE  /\ HowMany(q, UpdCalls(s)) = 0
         /\ \A c \in ToSet(q) : c \notin Owed(s)
  BY SilentElements, CountZero DEF ForNobody, UpdCalls, Owing, Owed

LEMMA NobodyCalm ==
  ASSUME TrTyped, TrTyped', NEW q, ForNobody(q), api' = api \o q, UNCHANGED <<inbox, pending>>
  PROVE  \A s \in Session : Calmer(s) /\ (GoneComes(s) => GoneComes(s)')
<1>1. api \in Seq(ProperCall) /\ pending \in Seq(Message) /\ q \in Seq(ProperCall)
  BY TrTypesParts DEF ForNobody
<1>2. Hands(q, <<>>)
  BY <1>1 DEF Hands
<1>3. ToSet(api') = ToSet(api) \cup ToSet(q)
  BY <1>1, ElementsOfBoth
<1>4. ASSUME NEW s \in Session PROVE Calmer(s) /\ (GoneComes(s) => GoneComes(s)')
  <2>1. /\ HowMany(q, UpdCalls(s)) = 0
        /\ \A c \in ToSet(q) : c \notin Owed(s)
    BY NobodyCounts
  <2>2. \A B : HowMany(<<>>, B) = 0
    BY CountOne
  <2>3. /\ Updates(s)' = RestUpdates(s) + 0 + 0 /\ Starts(s)' = RestStarts(s) + 0
        /\ RestUpdates(s) \in Nat /\ RestStarts(s) \in Nat
    BY <1>2, <2>1, <2>2, HandsCount
  <2>5. \A c \in Under(s)' : c \in Under(s)
    BY <1>3, <2>1 DEF Under
  <2>6. GoneComes(s) => GoneComes(s)'
    BY <1>3 DEF GoneComes
  <2> QED BY <2>3, <2>5, <2>6, RestIs DEF Calmer, Updates, Starts, RestUpdates, RestStarts
<1> QED BY <1>4

LEMMA EnvironmentCalm ==
  ASSUME SsInv, TrTyped, TrTyped', EnvironmentNext
  PROVE  SsInv'
<1>1. CASE \E p \in {"suspended", "awake"} : UpdateSystemPowerState(p)
  <2>1. PICK p \in {"suspended", "awake"} : UpdateSystemPowerState(p)
    BY <1>1
  <2>2. PICK order \in MapOrders : api' = api \o PowerCalls(p, order)
    BY <2>1 DEF UpdateSystemPowerState
  <2> QED BY <2>1, <2>2, StillCalm, NobodyCalm, EventTypes, PowerForNobody DEF EventKind,
    NothingFailed, UpdateSystemPowerState, maps
<1>2. CASE \E lock \in BOOLEAN : EngineLock(lock)
  <2>1. PICK lock \in BOOLEAN : EngineLock(lock)
    BY <1>2
  <2>2. PICK e : e = [kind |-> "lock", locked |-> lock]
    OBVIOUS
  <2> QED BY <2>1, <2>2, StillCalm, EventCalm, EventTypes DEF EventKind, NothingFailed,
    EngineLock, Event, maps
<1>3. CASE ModemDown
  <2>1. /\ Count("restart")
        /\ UNCHANGED <<timeBased, distanceBased, asked, answers, clients, api, inbox, pending>>
    BY <1>3 DEF ModemDown, maps, queues
  <2>3. \A s \in Session : Calmer(s)
    <3>2. \A s \in Session : Under(s)' = Under(s)
      BY <2>1 DEF Under
    <3> QED BY <2>1, <3>2, SsTypes DEF SsCounted, Calmer, Updates, Starts, Flow
  <2> QED BY <2>1, <2>3, StillCalm, EventTypes DEF EventKind, NothingFailed
<1>4. CASE ModemUp
  <2>1. PICK e : e = [kind |-> "up"]
    OBVIOUS
  <2> QED BY <1>4, <2>1, StillCalm, EventCalm DEF NothingFailed, ModemUp, Event, maps
<1> QED BY <1>1, <1>2, <1>3, <1>4 DEF EnvironmentNext

(* The LocApi has done a call, and its answer is under way instead *)
LEMMA AnswerCalm ==
  ASSUME TrTyped, TrTyped', NEW ok \in BOOLEAN, Answer(ok), api # <<>>, pending' = pending
  PROVE  \A s \in Session :
           /\ Calmer(s)
           /\ GoneComes(s) /\ (Head(api) \in GoneCall(s) => ok) => GoneComes(s)'
<1>1. api \in Seq(ProperCall) /\ inbox \in Seq(Inboxes)
  BY TrTypesParts
<1>2. PICK c : c = Head(api)
  OBVIOUS
<1>3. /\ c \in ProperCall /\ ToSet(api) = {c} \cup ToSet(Tail(api)) /\ api' = Tail(api)
  BY <1>1, <1>2, HeadAndTail DEF Answer
<1>4. PICK m : m = [kind |-> "reply", call |-> c, ok |-> ok]
  OBVIOUS
<1>5. /\ c.request = "none" => inbox' = inbox
      /\ c.request # "none" => inbox' = Append(inbox, m)
  BY <1>2, <1>4 DEF Answer
<1>6. c.request # "none" => m \in ProperReply /\ m \in Inboxes
  BY <1>3, <1>4 DEF ProperCall, Reply, ProperReply, Inboxes
<1>7. m.call = c /\ m.ok = ok /\ m \notin Message
  BY <1>4 DEF Message
<1>8. c.request # "none" => ToSet(inbox') = ToSet(inbox) \cup {m}
  <2> SUFFICES ASSUME c.request # "none" PROVE ToSet(inbox') = ToSet(inbox) \cup {m}
    OBVIOUS
  <2>1. m \in Inboxes /\ inbox \in Seq(Inboxes) /\ inbox' = Append(inbox, m)
    BY <1>1, <1>5, <1>6
  <2> QED BY <2>1, ElementsWith
<1>9. ASSUME NEW C, \A x \in C : x.request # "none", NEW W, W \subseteq Message
      PROVE  Flow(C, W)' = Flow(C, W)
  <2>1. PICK B : B = Brings(C, W)
    OBVIOUS
  <2>2. /\ HowMany(api, C) \in Nat /\ HowMany(api', C) \in Nat
        /\ HowMany(api, C) = (IF c \in C THEN 1 ELSE 0) + HowMany(api', C)
    BY <1>1, <1>2, <1>3, CountTail
  <2>3. HowMany(inbox, B) \in Nat
    BY <1>1, CountBoth
  <2>4. HowMany(inbox', B) = HowMany(inbox, B) + (IF c \in C THEN 1 ELSE 0)
    <3>1. CASE c.request = "none"
      BY <1>5, <1>9, <2>3, <3>1
    <3>2. CASE c.request # "none"
      <4>1. HowMany(inbox', B) = HowMany(inbox, B) + (IF m \in B THEN 1 ELSE 0)
        <5>1. m \in Inboxes /\ inbox \in Seq(Inboxes) /\ inbox' = Append(inbox, m)
          BY <1>1, <1>5, <1>6, <3>2
        <5> QED BY <5>1, CountAppend
      <4> QED BY <1>6, <1>7, <1>9, <2>1, <3>2, <4>1 DEF Brings
    <3> QED BY <3>1, <3>2
  <2> QED BY <2>1, <2>2, <2>3, <2>4, FlowTypes DEF Flow
<1>10. ASSUME NEW s \in Session
       PROVE  /\ Calmer(s)
              /\ GoneComes(s) /\ (c \in GoneCall(s) => ok) => GoneComes(s)'
  <2>3. Updates(s)' = Updates(s) /\ Starts(s)' = Starts(s)
    BY <1>9 DEF Updates, Starts, UpdWaits, StartWaits, UpdCalls
  <2>5. \A x \in Under(s)' : x \in Under(s)
    BY <1>3, <1>5, <1>7, <1>8 DEF Under
  <2>6. ASSUME GoneComes(s), c \in GoneCall(s) => ok PROVE GoneComes(s)'
    <3>1. CASE c \in GoneCall(s)
      BY <1>6, <1>7, <1>8, <2>6, <3>1 DEF GoneCall, GoneReply, GoneComes
    <3>2. CASE c \notin GoneCall(s)
      BY <1>3, <1>5, <1>8, <2>6, <3>2 DEF GoneComes
    <3> QED BY <3>1, <3>2
  <2> QED BY <2>3, <2>5, <2>6, SsTypes DEF Calmer, SsCounted
<1> QED BY <1>2, <1>10

LEMMA ApiCalm ==
  ASSUME RqInv, TrTyped', SsInv, ApiNext
  PROVE  SsInv'
<1>1. TrTyped
  BY DEF RqInv
<1>2. PICK c : c = Head(api)
  OBVIOUS
<1>3. /\ api # <<>>
      /\ \/ Answer(TRUE)
         \/ Answer(FALSE) /\ (~up \/ (locked /\ c.cmd = "start")) /\ events' = events
         \/ Answer(FALSE) /\ Count("refusal")
      /\ events' = events \/ Count("refusal")
      /\ UNCHANGED <<timeBased, distanceBased, pending, clients, asked, answers>>
  BY <1>2 DEF ApiNext, ApiCall, ApiFail, ApiRefuse, maps, modem
<1>4. NothingFailed' => NothingFailed /\ ~Count("refusal")
  <2>1. CASE Count("refusal")
    BY <1>1, <2>1, EventTypes DEF EventKind, NothingFailed
  <2>2. CASE events' = events /\ ~Count("refusal")
    BY <2>2 DEF NothingFailed
  <2> QED BY <1>3, <2>1, <2>2
<1>5. PICK ok \in BOOLEAN : /\ Answer(ok)
                            /\ ~ok /\ NothingFailed' => ~up \/ c.cmd = "start"
  BY <1>3, <1>4
<1>6. \A s \in Session :
        /\ Calmer(s)
        /\ GoneComes(s) /\ (c \in GoneCall(s) => ok) => GoneComes(s)'
  BY <1>1, <1>2, <1>3, <1>5, AnswerCalm
<1>7. ASSUME NothingFailed', NEW s \in Session, c \in GoneCall(s) PROVE ok
  <2>1. c.by = "distance" /\ c.cmd = "stop" /\ c \in ProperCall
    BY <1>7 DEF GoneCall, ProperCall, Call, Request
  <2>2. c \in ToSet(api)
    BY <1>1, <1>2, <1>3, TrTypesParts, HeadAndTail
  <2> QED BY <1>4, <1>5, <1>7, <2>1, <2>2 DEF RqInv, EarlyOK, NoDistance, NothingFailed
<1> QED BY <1>1, <1>3, <1>4, <1>6, <1>7, StillCalm

(* Pending messages are put behind those that wait *)
LEMMA MovedCalm ==
  ASSUME TrTyped, TrTyped', inbox # <<>>, Head(inbox) \notin ProperReply \cup Message,
         \/ inbox' = Tail(inbox) /\ pending' = pending
         \/ inbox' = Tail(inbox) \o pending /\ pending' = <<>>,
         NEW q, ForNobody(q), api' = api \o q
  PROVE  \A s \in Session : Calmer(s) /\ (GoneComes(s) => GoneComes(s)')
<1>1. /\ inbox \in Seq(Inboxes) /\ pending \in Seq(Message) /\ pending \in Seq(Inboxes)
      /\ api \in Seq(ProperCall) /\ q \in Seq(ProperCall)
  BY TrTypesParts DEF Inboxes, ForNobody
<1>2. PICK t : t = Tail(inbox)
  OBVIOUS
<1>3. t \in Seq(Inboxes) /\ ToSet(inbox) = {Head(inbox)} \cup ToSet(t)
  BY <1>1, <1>2, HeadAndTail
<1>4. \A m \in Message : m \notin ProperReply
  BY DEF Message, ProperReply, Reply
<1>5. ASSUME NEW C, NEW W, W \subseteq Message
      PROVE  HowMany(inbox', Brings(C, W)) + HowMany(pending', W)
               = HowMany(inbox, Brings(C, W)) + HowMany(pending, W)
  <2>1. PICK B : B = Brings(C, W)
    OBVIOUS
  <2>3. /\ HowMany(t, B) \in Nat
        /\ HowMany(inbox, B) = (IF Head(inbox) \in B THEN 1 ELSE 0) + HowMany(t, B)
    BY <1>1, <1>2, CountTail
  <2>4. HowMany(t, B) = HowMany(inbox, B)
    BY <1>5, <2>1, <2>3 DEF Brings
  <2>5. CASE inbox' = t /\ pending' = pending
    BY <2>1, <2>4, <2>5
  <2>6. CASE inbox' = t \o pending /\ pending' = <<>>
    <3>1. /\ HowMany(t \o pending, B) = HowMany(t, B) + HowMany(pending, B)
          /\ HowMany(pending, B) \in Nat
      BY <1>1, <1>3, CountBoth
    <3>2. HowMany(pending, B) = HowMany(pending, W)
      <4>2. \A i \in DOMAIN pending : pending[i] \in B <=> pending[i] \in W
        BY <1>1, <1>4, <2>1 DEF Brings
      <4> QED BY <4>2, Zenon DEF HowMany
    <3>3. HowMany(<<>>, W) = 0
      BY CountOne
    <3>5. HowMany(inbox', B) + HowMany(pending', W) = HowMany(inbox, B) + HowMany(pending, W)
      BY <2>3, <2>4, <2>6, <3>1, <3>2, <3>3
    <3> QED BY <2>1, <3>5
  <2> QED BY <1>2, <2>5, <2>6
<1>6. \A m \in ProperReply : m \in ToSet(inbox') <=> m \in ToSet(inbox)
  <2>1. CASE inbox' = t
    BY <1>3, <2>1
  <2>2. CASE inbox' = t \o pending
    BY <1>1, <1>3, <1>4, <2>2, ElementsOfBoth, ElementsOf
  <2> QED BY <1>2, <2>1, <2>2
<1>7. ToSet(api') = ToSet(api) \cup ToSet(q)
  BY <1>1, ElementsOfBoth
<1>8. ASSUME NEW s \in Session PROVE Calmer(s) /\ (GoneComes(s) => GoneComes(s)')
  <2>1. HowMany(q, UpdCalls(s)) = 0 /\ \A c \in ToSet(q) : c \notin Owed(s)
    BY NobodyCounts
  <2>2. UpdWaits(s) \subseteq Message /\ StartWaits(s) \subseteq Message
    BY DEF UpdWaits, StartWaits
  <2>3. ASSUME NEW C, HowMany(q, C) = 0, NEW W, W \subseteq Message PROVE Flow(C, W)' = Flow(C, W)
    <3>3. PICK a, p, r, i, j : /\ a = HowMany(api, C)
                               /\ p = HowMany(pending, W) /\ r = HowMany(pending', W)
                               /\ i = HowMany(inbox, Brings(C, W))
                               /\ j = HowMany(inbox', Brings(C, W))
      OBVIOUS
    <3>4. a \in Nat /\ p \in Nat /\ i \in Nat
      BY <3>3, FlowTypes
    <3>5. j \in Nat /\ r \in Nat
      BY <3>3, CountBoth DEF TrTyped
    <3>6. j + r = i + p
      BY <1>5, <2>3, <3>3
    <3>7. a + r + j = a + p + i
      BY <3>4, <3>5, <3>6
    <3> QED BY <1>1, <2>3, <3>3, <3>7, CountBoth DEF Flow
  <2>4. PICK N : N = {}
    OBVIOUS
  <2>6. Updates(s)' = Updates(s)
    BY <2>1, <2>2, <2>3 DEF Updates
  <2>8. Starts(s)' = Starts(s)
    BY <1>1, <2>2, <2>3, <2>4, SilentElements, CountZero DEF Starts
  <2> QED BY <1>6, <1>7, <2>1, <2>6, <2>8, SsTypes DEF Calmer, SsCounted, GoneComes, GoneReply,
    Under
<1> QED BY <1>8

LEMMA EventsCalm ==
  ASSUME RqInv, TrTyped', SsInv, HandleEngineUp \/ HandleEngineLockStatus
  PROVE  SsInv'
<1>2. PICK q : ForNobody(q) /\ api' = api \o q
  BY EventsCall
<1> QED BY <1>2, StillCalm, MovedCalm, EventsCall DEF NothingFailed, RqInv

-----------------------------------------------------------------------------
(* Answers that bring nothing back                                         *)

LEMMA HandledCalm ==
  ASSUME TrTyped, TrTyped', inbox # <<>>, inbox' = Tail(inbox), UNCHANGED <<api, pending>>
  PROVE  \A s \in Session :
           /\ Calmer(s)
           /\ GoneComes(s) /\ Head(inbox) \notin GoneReply(s) => GoneComes(s)'
<1> SUFFICES ASSUME NEW s \in Session
             PROVE  /\ Calmer(s)
                    /\ GoneComes(s) /\ Head(inbox) \notin GoneReply(s) => GoneComes(s)'
  OBVIOUS
<1>2. ToSet(inbox) = {Head(inbox)} \cup ToSet(inbox')
  BY HeadAndTail, TrTypesParts
<1>4. \A B : HowMany(<<>>, B) = 0
  BY CountOne
<1>7. \A c \in Under(s)' : c \in Under(s)
  BY <1>2 DEF Under
<1>8. GoneComes(s) /\ Head(inbox) \notin GoneReply(s) => GoneComes(s)'
  BY <1>2 DEF GoneComes
<1> QED BY <1>4, <1>7, <1>8, RestIs, HandsCount, NothingHanded DEF Calmer, Updates, Starts,
  RestUpdates, RestStarts

(* A reply is for a call under way *)
LEMMA ReplyUnder ==
  ASSUME RqInv, NEW requests, ReceiveReply(requests), NEW m, m = Head(inbox),
         m.call.request \in Owing
  PROVE  m.call \in Under(m.call.s) /\ m.call.s \in Session
  BY ReplyParts, TrTypesParts, HeadAndTail DEF RqInv, Under, Owed

LEMMA TimeCalm ==
  ASSUME RqInv, TrTyped', SsInv, HandleTimeReply
  PROVE  SsInv'
<1>1. PICK m : m = Head(inbox)
  OBVIOUS
<1>2. PICK c, s, ok : c = m.call /\ s = c.s /\ ok = m.ok
  OBVIOUS
<1>3. TrTyped
  BY DEF RqInv
<1>4. /\ ReceiveReply(Request) /\ c.by = "time"
      /\ Erase(s) \/ UNCHANGED maps
      /\ Tell(s, c.request, Status(ok))
      /\ UNCHANGED <<pending, clients, api, asked, events>>
  BY <1>1, <1>2 DEF HandleTimeReply, modem
<1>5. /\ inbox # <<>> /\ inbox' = Tail(inbox) /\ s \in Session /\ c.request \in Request
  BY <1>1, <1>2, <1>4, ReplyParts
<1>6. c \in Under(s)
  BY <1>1, <1>2, <1>4, <1>5, ReplyUnder DEF Request, Owing
<1> SUFFICES ASSUME NEW t \in Session PROVE SessionOK(t)'
  BY DEF SsInv
<1>7. SessionOK(t) /\ SessionOK(s)
  BY <1>5 DEF SsInv
<1>8. Less(t)
  BY <1>3, <1>4, TrTypesParts DEF Less, Here, Erase, Without, maps
<1>9. Calmer(t) /\ (GoneComes(t) /\ m \notin GoneReply(t) => GoneComes(t)')
  BY <1>1, <1>3, <1>4, <1>5, HandledCalm
<1>10. m \notin GoneReply(t)
  BY <1>2, <1>5 DEF GoneReply, Request
<1>11. ASSUME Stopped(t)', ~Stopped(t)
       PROVE  AskedLast(t, "stop") /\ Nowhere(t)' /\ Starts(t) = 0
  <2>2. t = s /\ c.request = "stop" /\ Here(s)
    BY <1>3, <1>4, <1>5, <1>11, StoppedBy DEF Status
  <2>4. Starts(s) \in Nat /\ ~(Starts(s) > 0)
    BY <1>3, <1>5, <1>6, <1>7, <2>2, SsTypes DEF SsCounted, SessionOK, SsStarts
  <2> QED BY <1>4, <1>6, <1>7, <1>8, <2>2, <2>4 DEF Less, Nowhere, SessionOK, SsCalls, GoodCall
<1>12. NothingFailed' => NothingFailed
  BY <1>4 DEF NothingFailed
<1> QED BY <1>3, <1>7, <1>8, <1>9, <1>10, <1>11, <1>12, Calms

LEMMA DistanceCalm ==
  ASSUME RqInv, TrTyped', SsInv, HandleDistanceReply
  PROVE  SsInv'
<1>1. PICK m : m = Head(inbox)
  OBVIOUS
<1>2. PICK c, s, ok : c = m.call /\ s = c.s /\ ok = m.ok
  OBVIOUS
<1>3. TrTyped
  BY DEF RqInv
<1>4. /\ ReceiveReply({"start", "stop", "gone"}) /\ c.by = "distance"
      /\ Erase(s) \/ UNCHANGED maps
      /\ c.request \in {"stop", "gone"} /\ ok => Erase(s)
      /\ Tell(s, c.request, IF c.request = "gone" THEN "later" ELSE Status(ok))
      /\ UNCHANGED <<pending, clients, api, asked, events>>
  BY <1>1, <1>2 DEF HandleDistanceReply, modem
<1>5. /\ inbox # <<>> /\ inbox' = Tail(inbox) /\ s \in Session /\ ok \in BOOLEAN
      /\ c.request \in {"start", "stop", "gone"} /\ m \in ProperReply
  BY <1>1, <1>2, <1>4, ReplyParts
<1> SUFFICES ASSUME NEW t \in Session PROVE SessionOK(t)'
  BY DEF SsInv
<1>6. SessionOK(t) /\ SessionOK(s)
  BY <1>5 DEF SsInv
<1>7. Less(t) /\ (Erase(s) /\ timeBased[s] = None => distanceBased'[s] = None)
  BY <1>3, <1>4, <1>5, TrTypesParts DEF Less, Here, Erase, Without, maps
<1>8. Calmer(t) /\ (GoneComes(t) /\ m \notin GoneReply(t) => GoneComes(t)')
  BY <1>1, <1>3, <1>4, <1>5, HandledCalm
<1>9. ASSUME Stopped(t)', ~Stopped(t)
      PROVE  AskedLast(t, "stop") /\ Nowhere(t)' /\ Starts(t) = 0
  <2>3. t = s /\ c.request = "stop" /\ Status(ok) = "success" /\ Here(s)
    BY <1>3, <1>4, <1>5, <1>9, StoppedBy DEF Status, Request, Tell, Stopped
  <2>5. c \in Under(s)
    BY <1>1, <1>2, <1>4, <2>3, ReplyUnder DEF Owing
  <2>6. AskedLast(s, "stop") /\ timeBased[s] = None
    BY <1>6, <2>3, <2>5 DEF SessionOK, SsCalls, GoodCall
  <2>7. Starts(s) \in Nat /\ ~(Starts(s) > 0)
    BY <1>3, <1>5, <1>6, <2>3, <2>5, SsTypes DEF SsCounted, SessionOK, SsStarts
  <2> QED BY <1>4, <1>5, <1>7, <2>3, <2>6, <2>7 DEF Nowhere, Less, Status
<1>10. ASSUME ~Here(t), distanceBased'[t] # None PROVE m \notin GoneReply(t)
  <2> SUFFICES ASSUME m \in GoneReply(t) PROVE FALSE
    OBVIOUS
  <2> QED BY <1>2, <1>4, <1>5, <1>6, <1>7, <1>10 DEF SessionOK, SsMaps, GoneReply
<1>11. NothingFailed' => NothingFailed
  BY <1>4 DEF NothingFailed
<1> QED BY <1>3, <1>6, <1>7, <1>8, <1>9, <1>10, <1>11, Calms

-----------------------------------------------------------------------------
(* A handler for a session of a client that is there                       *)

NewUpdates(s, more, wait) ==
  RestUpdates(s) + HowMany(more, UpdCalls(s)) + HowMany(wait, UpdWaits(s))
NewStarts(s, wait) == RestStarts(s) + HowMany(wait, StartWaits(s))

OthersKeep(s) ==
  \A t \in Session : t # s =>
    /\ timeBased'[t] = timeBased[t] /\ distanceBased'[t] = distanceBased[t]
    /\ asked'[t] = asked[t] /\ answers'[t] = answers[t]

Goes(s, more, wait) ==
  /\ Hands(more, wait)
  /\ \A c \in ToSet(more) : c.s = s /\ GoodCall(s, c)'
  /\ \A m \in ToSet(wait) : m.s = s
  /\ timeBased'[s] = None \/ distanceBased'[s] = None
  /\ NewUpdates(s, more, wait) <= 1
  /\ NewUpdates(s, more, wait) > 0 => AskedLast(s, "update")'
  /\ NewStarts(s, wait) <= 1
  /\ NewStarts(s, wait) > 0 => /\ Nowhere(s)' /\ ~Stopped(s)'
                               /\ \A c \in ToSet(more) : c.request = "start"
  /\ Stopped(s)' => AskedLast(s, "stop")' /\ Nowhere(s)'

(* A handler takes a message that is not the last of a session *)
Takes(m) == inbox # <<>> /\ inbox' = Tail(inbox) /\ m = Head(inbox)
TakesNothing == inbox' = inbox
GoesOn ==
  \/ TakesNothing
  \/ \E m : Takes(m) /\ \A t \in Session : m \notin GoneReply(t)

LEMMA OthersCalm ==
  ASSUME TrTyped, TrTyped', NEW t \in Session, NEW more, NEW wait, Hands(more, wait),
         \A c \in ToSet(more) : c.s # t, \A m \in ToSet(wait) : m.s # t, GoesOn
  PROVE  Calmer(t) /\ (GoneComes(t) => GoneComes(t)')
<1>1. /\ api \in Seq(ProperCall) /\ inbox \in Seq(Inboxes)
      /\ more \in Seq(ProperCall) /\ wait \in Seq(Message)
  BY TrTypesParts DEF Hands
<1>2. inbox' = inbox \/ (inbox # <<>> /\ inbox' = Tail(inbox))
  BY DEF GoesOn, Takes, TakesNothing
<1>3. \A c \in ToSet(more) : c \notin UpdCalls(t) /\ c \notin Owed(t)
  BY DEF UpdCalls, Owed
<1>5. Silent(more, UpdCalls(t)) /\ Silent(wait, UpdWaits(t)) /\ Silent(wait, StartWaits(t))
  BY <1>1, <1>3, SilentElements DEF UpdWaits, StartWaits
<1>7. /\ Updates(t)' = RestUpdates(t) + 0 + 0 /\ Starts(t)' = RestStarts(t) + 0
      /\ RestUpdates(t) \in Nat /\ RestStarts(t) \in Nat
  BY <1>1, <1>5, HandsCount, CountZero
<1>9. \A c \in Under(t)' : c \in Under(t)
  BY <1>2, <1>3, UnderHands, RemainIs
<1>10. ASSUME GoneComes(t) PROVE GoneComes(t)'
  <2>2. \A m \in ToSet(inbox) : m \in GoneReply(t) => m \in ToSet(inbox')
    <3>1. CASE TakesNothing
      BY <3>1 DEF TakesNothing
    <3>2. CASE \E m : Takes(m) /\ \A v \in Session : m \notin GoneReply(v)
      <4>1. PICK m : Takes(m) /\ m \notin GoneReply(t)
        BY <3>2
      <4> QED BY <1>1, <4>1, HeadAndTail DEF Takes
    <3> QED BY <3>1, <3>2 DEF GoesOn
  <2> QED BY <1>1, <1>10, <2>2, ElementsOfBoth DEF GoneComes, Hands
<1> QED BY <1>2, <1>7, <1>9, <1>10, RestIs DEF Calmer, Updates, Starts, RestUpdates, RestStarts

LEMMA SessionGoes ==
  ASSUME TrTyped, TrTyped', SsInv, NEW s \in Session, NEW more, NEW wait, Goes(s, more, wait),
         OthersKeep(s), GoesOn, Here(s), clients' = clients, events' = events,
         asked'[s] # <<>>, \A c \in Remain(s) : c.request = "start"
  PROVE  SsInv'
<1> SUFFICES ASSUME NEW t \in Session PROVE SessionOK(t)'
  BY DEF SsInv
<1>1. Hands(more, wait)
  BY DEF Goes
<1>2. CASE t # s
  <2>2. Calmer(t) /\ (GoneComes(t) => GoneComes(t)')
    BY <1>1, <1>2, OthersCalm DEF Goes
  <2>3. NothingFailed' => NothingFailed
    BY DEF NothingFailed
  <2> QED BY <1>2, <2>2, <2>3, Calms DEF OthersKeep, Less, Here, SsInv, Stopped
<1>3. CASE t = s
  <2>1. /\ Updates(s)' = NewUpdates(s, more, wait) /\ Starts(s)' = NewStarts(s, wait)
    BY <1>1, HandsCount DEF NewUpdates, NewStarts
  <2>2. \A c \in Under(s)' : c \in Remain(s) \/ c \in ToSet(more)
    BY <1>1, UnderHands
  <2>3. Here(s)'
    BY DEF Here
  <2>5. SsStarts(s)'
    BY <2>1, <2>2 DEF SsStarts, Goes
  <2>6. SsUpdates(s)'
    BY <2>1, <2>3 DEF SsUpdates, Goes
  <2>7. SsCalls(s)'
    BY <2>2 DEF GoodCall, SsCalls, Goes
  <2> QED BY <1>3, <2>3, <2>5, <2>6, <2>7 DEF SessionOK, SsStopped, SsGone, Goes, SsMaps
<1> QED BY <1>2, <1>3

-----------------------------------------------------------------------------
(* What the pieces of the handlers hand over                               *)

LEMMA NothingCounts ==
  /\ ToSet(<<>>) = {}
  /\ \A B : HowMany(<<>>, B) = 0
<1>1. ToSet(<<>>) = {}
  BY DEF ToSet
<1> QED BY <1>1, CountOne

(* The calls of a handler that owes an answer to a request *)
Handing(todo, s, request) ==
  /\ Hands(todo.calls, <<>>)
  /\ \A c \in ToSet(todo.calls) : c.s = s /\ c.request = request /\ c.by = "time"
  /\ HowMany(todo.calls, UpdCalls(s)) \in {0, 1}
  /\ todo.status \in {"later", "success", "failure"}

LEMMA TodoHands ==
  ASSUME TrTyped, NEW s \in Session, NEW request, NEW todo, Answering(todo, s, request),
         api' = api \o todo.calls, pending' = pending
  PROVE  Handing(todo, s, request)
<1>1. pending \in Seq(Message) /\ pending \o <<>> = pending /\ \A S : <<>> \in Seq(S)
  BY TrTypesParts
<1>2. CASE todo.calls = <<>> /\ todo.status \in {"success", "failure"}
  BY <1>1, <1>2, NothingCounts DEF Hands, Handing
<1>3. CASE todo.status = "later" /\ \E c \in ProperCall : /\ todo.calls = <<c>> /\ c.s = s
                                                           /\ c.request = request /\ c.by = "time"
  <2>1. PICK c \in ProperCall : /\ todo.calls = <<c>> /\ c.s = s
                                /\ c.request = request /\ c.by = "time"
    BY <1>3
  <2> QED BY <1>1, <1>3, <2>1, CountOne, ElementsOfOne DEF Hands, Handing
<1> QED BY <1>2, <1>3 DEF Answering

LEMMA NoUpdateCalls ==
  ASSUME NEW more \in Seq(ProperCall), NEW s, \A c \in ToSet(more) : c.request \notin {"update", "switch"}
  PROVE  HowMany(more, UpdCalls(s)) = 0
  BY SilentElements, CountZero DEF UpdCalls

LEMMA CallHands ==
  ASSUME TrTyped, NEW s \in Session, NEW c \in ProperCall, c.s = s,
         api' = Append(api, c), pending' = pending
  PROVE  /\ Hands(<<c>>, <<>>) /\ ToSet(<<c>>) = {c}
         /\ HowMany(<<c>>, UpdCalls(s)) = IF c.request \in {"update", "switch"} THEN 1 ELSE 0
  BY TrTypesParts, ElementsOfOne, AppendIsConcat, CountOne DEF UpdCalls, Hands

LEMMA WaitHands ==
  ASSUME TrTyped, NEW s \in Session, NEW m \in Message, m.s = s,
         api' = api, pending' = Append(pending, m)
  PROVE  /\ Hands(<<>>, <<m>>) /\ ToSet(<<m>>) = {m}
         /\ HowMany(<<m>>, UpdWaits(s)) = IF m.request = "update" THEN 1 ELSE 0
         /\ HowMany(<<m>>, StartWaits(s)) = IF m.request = "start" THEN 1 ELSE 0
  BY TrTypesParts, ElementsOfOne, AppendIsConcat, CountOne DEF UpdWaits, StartWaits, Hands

(* Calls that start or stop by multiplexing have nothing to go back to *)
LEMMA PlainTodos ==
  ASSUME NEW s \in Session, NEW request, NEW opt, NEW map
  PROVE  /\ \A c \in ToSet(StartMultiplex(s, opt, request).calls) : c.old = None
         /\ \A c \in ToSet(StopMultiplex(map, s, request).calls) : c.old = None
<1>1. \A interval : \A c \in ToSet(StartTime(s, interval, request).calls) : c.old = None
  BY DEF StartTime, AtOnce, Later, TimeCall, ToSet
<1>2. \A c \in ToSet(AtOnce("success").calls) : c.old = None
  BY DEF AtOnce, ToSet
<1> QED BY <1>1, <1>2 DEF StartMultiplex, StopMultiplex, Later, TimeCall, ToSet

LEMMA MapsMove ==
  ASSUME TrTyped, NEW s \in Session
  PROVE  /\ \A opt \in Option : Save(s, opt) =>
              /\ timeBased'[s] = (IF opt.distance THEN timeBased[s] ELSE opt)
              /\ distanceBased'[s] = (IF opt.distance THEN opt ELSE distanceBased[s])
              /\ \A t \in Session : t # s =>
                   timeBased'[t] = timeBased[t] /\ distanceBased'[t] = distanceBased[t]
         /\ Erase(s) =>
              /\ timeBased'[s] = None
              /\ timeBased[s] = None => distanceBased'[s] = None
              /\ timeBased[s] # None => distanceBased' = distanceBased
              /\ \A t \in Session : t # s =>
                   timeBased'[t] = timeBased[t] /\ distanceBased'[t] = distanceBased[t]
  BY TrTypesParts DEF Save, Erase, Without

LEMMA TellsOthers ==
  ASSUME TrTyped, NEW s \in Session, NEW request, NEW status, Tell(s, request, status)
  PROVE  \A t \in Session : t # s => answers'[t] = answers[t]
  BY TrTypesParts DEF Tell

-----------------------------------------------------------------------------
(* The handlers of requests                                                *)

(* A request of s that is there is handled, and no call that may end or    *)
(* change the session is under way                                         *)
Handles(s) ==
  /\ Here(s) /\ GoesOn /\ clients' = clients /\ events' = events
  /\ asked'[s] # <<>> /\ \A t \in Session : t # s => asked'[t] = asked[t]
  /\ ~Stopped(s) /\ \A c \in Remain(s) : c.request = "start"

LEMMA StartGoes ==
  ASSUME TrTyped, TrTyped', SsInv, NEW s \in Session, NEW opt \in Option, StartTracking(s, opt),
         Handles(s), Nowhere(s), RestStarts(s) = 0, RestUpdates(s) \in {0, 1},
         RestUpdates(s) > 0 => AskedLast(s, "update")'
  PROVE  SsInv'
<1>1. \A B : HowMany(<<>>, B) = 0 /\ ToSet(<<>>) = {}
  BY NothingCounts
<1>2. CASE /\ ~known /\ opt.distance
           /\ pending' = Append(pending,
                [kind |-> "message", request |-> "start", s |-> s, opt |-> opt])
           /\ UNCHANGED <<maps, api, answers>>
  <2>1. PICK m : m = [kind |-> "message", request |-> "start", s |-> s, opt |-> opt]
    OBVIOUS
  <2>2. m \in Message /\ m.s = s /\ m.request = "start" /\ pending' = Append(pending, m)
    BY <1>2, <2>1 DEF Message
  <2>3. UNCHANGED <<timeBased, distanceBased, api, answers>>
    BY <1>2 DEF maps
  <2>6. Nowhere(s)' /\ ~Stopped(s)'
    BY <2>3 DEF Nowhere, Stopped, Handles
  <2>7. Goes(s, <<>>, <<m>>)
    BY <1>1, <2>2, <2>3, <2>6, WaitHands DEF Goes, Nowhere, NewUpdates, NewStarts
  <2> QED BY <2>3, <2>7, SessionGoes DEF Handles, OthersKeep
<1>3. CASE /\ UNCHANGED pending /\ opt.distance /\ Save(s, opt)
           /\ api' = Append(api, DistanceCall("start", s, opt, "start"))
           /\ UNCHANGED answers
  <2>1. PICK c : c = DistanceCall("start", s, opt, "start")
    OBVIOUS
  <2>2. c \in ProperCall /\ c.s = s /\ c.request = "start"
    BY <2>1, DistanceCallTypes DEF Request
  <2>3. /\ Hands(<<c>>, <<>>) /\ ToSet(<<c>>) = {c}
        /\ HowMany(<<c>>, UpdCalls(s)) = 0
    BY <1>3, <2>1, <2>2, CallHands
  <2>5. ~Stopped(s)' /\ GoodCall(s, c)'
    BY <1>3, <2>2 DEF Stopped, Handles, GoodCall
  <2>6. /\ timeBased'[s] = None
        /\ \A t \in Session : t # s =>
             timeBased'[t] = timeBased[t] /\ distanceBased'[t] = distanceBased[t]
    BY <1>3, MapsMove DEF Nowhere
  <2>7. Goes(s, <<c>>, <<>>)
    BY <1>1, <2>2, <2>3, <2>5, <2>6 DEF Goes, NewUpdates, NewStarts
  <2> QED BY <1>3, <2>6, <2>7, SessionGoes DEF Handles, OthersKeep
<1>4. CASE /\ UNCHANGED pending /\ ~opt.distance /\ Save(s, opt)
           /\ LET todo == StartMultiplex(s, opt, "start")
              IN api' = api \o todo.calls /\ Tell(s, "start", todo.status)
  <2>1. PICK todo : todo = StartMultiplex(s, opt, "start")
    OBVIOUS
  <2>2. "start" \in Request /\ api' = api \o todo.calls /\ Tell(s, "start", todo.status)
    BY <1>4, <2>1 DEF Request
  <2>4. PICK more : more = todo.calls
    OBVIOUS
  <2>5. /\ Hands(more, <<>>) /\ HowMany(more, UpdCalls(s)) = 0
        /\ \A c \in ToSet(more) : c.s = s /\ c.request = "start"
        /\ todo.status \in {"later", "success", "failure"}
    <3>1. Handing(todo, s, "start")
      BY <1>4, <2>1, <2>2, TodoHands, TodosAnswer
    <3> QED BY <2>4, <3>1, NoUpdateCalls DEF Handing, Hands
  <2>9. /\ distanceBased'[s] = None
        /\ \A t \in Session : t # s =>
             timeBased'[t] = timeBased[t] /\ distanceBased'[t] = distanceBased[t]
    BY <1>4, MapsMove DEF Nowhere
  <2>10. Goes(s, more, <<>>)
    BY <1>1, <2>2, <2>5, <2>9, StoppedBy DEF Goes, NewUpdates, NewStarts, GoodCall, Handles
  <2> QED BY <2>2, <2>9, <2>10, SessionGoes, TellsOthers DEF Handles, OthersKeep
<1> QED BY <1>2, <1>3, <1>4 DEF StartTracking, Handles, Here

(* An update is under way after this, or answered *)
Updating(s) == AskedLast(s, "update")' /\ RestUpdates(s) = 0 /\ RestStarts(s) \in {0, 1}
               /\ (RestStarts(s) > 0 => Nowhere(s))

LEMMA UpdateSessionGoes ==
  ASSUME TrTyped, TrTyped', SsInv, NEW s \in Session, NEW opt \in Option, UpdateSession(s, opt),
         pending' = pending, Handles(s), Updating(s)
  PROVE  SsInv'
<1>1. \A B : HowMany(<<>>, B) = 0 /\ ToSet(<<>>) = {}
  BY NothingCounts
<1>2. /\ RestStarts(s) = 0 /\ (timeBased[s] = None \/ distanceBased[s] = None)
      /\ timeBased \in [Session -> TimeOption \cup {None}]
      /\ distanceBased \in [Session -> DistanceOption \cup {None}]
  <2>1. ~Nowhere(s)
    BY DEF UpdateSession, Nowhere
  <2> QED BY <2>1, TrTypesParts DEF Updating, SsInv, SessionOK, SsMaps
<1>3. "update" \in Request /\ NewStarts(s, <<>>) = 0
  BY <1>1, <1>2 DEF Request, NewStarts
<1>4. ASSUME NEW status \in {"later", "success", "failure"}, Tell(s, "update", status)
      PROVE  ~Stopped(s)' /\ \A t \in Session : t # s => answers'[t] = answers[t]
  BY <1>3, <1>4, StoppedBy, TellsOthers DEF Handles
<1>5. CASE /\ timeBased[s] # None /\ opt.distance
           /\ LET todo == StopMultiplex(timeBased, s, "update")
              IN /\ api' = api \o todo.calls \o <<DistanceCall("start", s, opt, "none")>>
                 /\ Tell(s, "update", todo.status)
           /\ timeBased' = Without(timeBased, s)
           /\ distanceBased' = [distanceBased EXCEPT ![s] = opt]
  <2>1. PICK todo : todo = StopMultiplex(timeBased, s, "update")
    OBVIOUS
  <2>2. PICK c : c = DistanceCall("start", s, opt, "none")
    OBVIOUS
  <2>4. PICK old : old = todo.calls
    OBVIOUS
  <2>5. c \in ProperCall /\ c.s = s /\ c.request = "none"
    BY <2>2, DistanceCallTypes DEF Request
  <2>6. /\ old \in Seq(ProperCall) /\ HowMany(old, UpdCalls(s)) \in {0, 1}
        /\ \A a \in ToSet(old) : a.s = s /\ a.request = "update" /\ a.by = "time" /\ a.old = None
        /\ todo.status \in {"later", "success", "failure"}
    <3>1. \A a \in ToSet(todo.calls) : a.old = None
      BY <2>1, PlainTodos
    <3>2. CASE todo.calls = <<>> /\ todo.status \in {"success", "failure"}
      BY <1>1, <2>4, <3>2
    <3>3. CASE todo.status = "later" /\ \E a \in ProperCall : /\ todo.calls = <<a>> /\ a.s = s
                                                          /\ a.request = "update" /\ a.by = "time"
      BY <2>4, <3>1, <3>3, ElementsOfOne, CountOne
    <3> QED BY <1>3, <2>1, <3>2, <3>3, TodosAnswer, TrTypesParts DEF Answering
  <2>7. PICK more : more = old \o <<c>>
    OBVIOUS
  <2>8. /\ more \in Seq(ProperCall) /\ ToSet(more) = ToSet(old) \cup {c}
        /\ HowMany(more, UpdCalls(s)) = HowMany(old, UpdCalls(s)) + 0
    <3>1. <<c>> \in Seq(ProperCall) /\ ToSet(<<c>>) = {c}
      BY <2>5, ElementsOfOne
    <3>3. HowMany(<<c>>, UpdCalls(s)) = 0
      BY <2>5, CountOne DEF UpdCalls
    <3>4. ToSet(old \o <<c>>) = ToSet(old) \cup ToSet(<<c>>)
      <4>1. PICK u : u = <<c>>
        OBVIOUS
      <4>3. ToSet(old \o u) = ToSet(old) \cup ToSet(u)
        BY <2>6, <3>1, <4>1, ElementsOfBoth
      <4> QED BY <4>1, <4>3
    <3>5. HowMany(old \o <<c>>, UpdCalls(s)) = HowMany(old, UpdCalls(s)) + HowMany(<<c>>, UpdCalls(s))
      BY <2>6, <3>1, CountBoth
    <3> QED BY <2>6, <2>7, <3>1, <3>3, <3>4, <3>5
  <2>9. Hands(more, <<>>)
    <3>1. api \in Seq(ProperCall) /\ pending \o <<>> = pending /\ <<>> \in Seq(Message)
      BY TrTypesParts
    <3>2. api' = (api \o old) \o <<c>>
      BY <1>5, <2>1, <2>2, <2>4
    <3>4. (api \o old) \o <<c>> = api \o (old \o <<c>>)
      BY <2>5, <2>6, <3>1, ConcatAssociative
    <3> QED BY <2>7, <2>8, <3>1, <3>2, <3>4 DEF Hands
  <2>10. ~Stopped(s)' /\ \A t \in Session : t # s => answers'[t] = answers[t]
    BY <1>4, <1>5, <2>1, <2>6
  <2>11. timeBased'[s] = None
    BY <1>2, <1>5 DEF Without
  <2>12. \A a \in ToSet(more) : a.s = s /\ GoodCall(s, a)'
    BY <2>5, <2>6, <2>8 DEF GoodCall
  <2>13. NewUpdates(s, more, <<>>) \in {0, 1}
    BY <1>1, <2>6, <2>8 DEF NewUpdates, Updating
  <2>14. Goes(s, more, <<>>)
    BY <1>1, <1>3, <2>9, <2>10, <2>11, <2>12, <2>13 DEF Goes, Updating
  <2> QED BY <1>2, <1>5, <2>10, <2>14, SessionGoes DEF Handles, OthersKeep, Without
<1>6. CASE /\ distanceBased[s] # None /\ ~opt.distance /\ Erase(s)
           /\ api' = Append(api, DistanceCall("stop", s, opt, "switch"))
           /\ UNCHANGED answers
  <2>1. PICK c : c = DistanceCall("stop", s, opt, "switch")
    OBVIOUS
  <2>2. c \in ProperCall /\ c.s = s /\ c.request = "switch"
    BY <2>1, DistanceCallTypes DEF Request
  <2>4. /\ Hands(<<c>>, <<>>) /\ ToSet(<<c>>) = {c}
        /\ HowMany(<<c>>, UpdCalls(s)) = 1
    BY <1>6, <2>1, <2>2, CallHands
  <2>6. /\ timeBased'[s] = None /\ distanceBased'[s] = None
        /\ \A t \in Session : t # s =>
             timeBased'[t] = timeBased[t] /\ distanceBased'[t] = distanceBased[t]
    BY <1>2, <1>6, MapsMove
  <2>7. ~Stopped(s)' /\ GoodCall(s, c)'
    BY <1>6, <2>1, <2>2, <2>6 DEF Stopped, Handles, GoodCall, Nowhere, DistanceCall
  <2>8. Goes(s, <<c>>, <<>>)
    BY <1>1, <1>3, <2>2, <2>4, <2>6, <2>7 DEF Goes, Updating, NewUpdates
  <2> QED BY <1>6, <2>6, <2>8, SessionGoes DEF Handles, OthersKeep
<1>7. CASE /\ timeBased[s] # None /\ ~opt.distance
           /\ LET todo == UpdateMultiplex(s, opt)
              IN api' = api \o todo.calls /\ Tell(s, "update", todo.status)
           /\ Save(s, opt)
  <2>1. PICK todo : todo = UpdateMultiplex(s, opt)
    OBVIOUS
  <2>2. api' = api \o todo.calls /\ Tell(s, "update", todo.status)
    BY <1>7, <2>1
  <2>3. Answering(todo, s, "update")
    BY <1>3, <2>1, TodosAnswer
  <2>4. PICK more : more = todo.calls
    OBVIOUS
  <2>5. /\ Hands(more, <<>>) /\ HowMany(more, UpdCalls(s)) \in {0, 1}
        /\ \A c \in ToSet(more) : c.s = s /\ c.request = "update" /\ c.by = "time"
        /\ todo.status \in {"later", "success", "failure"}
    BY <2>2, <2>3, <2>4, TodoHands DEF Handing
  <2>7. ~Stopped(s)' /\ \A t \in Session : t # s => answers'[t] = answers[t]
    BY <1>4, <2>2, <2>5
  <2>8. /\ distanceBased'[s] = None
        /\ \A t \in Session : t # s =>
             timeBased'[t] = timeBased[t] /\ distanceBased'[t] = distanceBased[t]
    BY <1>2, <1>7, MapsMove
  <2>10. Goes(s, more, <<>>)
    BY <1>1, <1>3, <2>5, <2>7, <2>8 DEF Goes, Updating, NewUpdates, GoodCall
  <2> QED BY <2>7, <2>8, <2>10, SessionGoes DEF Handles, OthersKeep
<1>8. CASE /\ timeBased[s] = None /\ distanceBased[s] # None /\ opt.distance
           /\ api' = Append(api, DistanceCall("stop", s, opt, "update"))
           /\ UNCHANGED <<maps, answers>>
  <2>1. PICK c : c = DistanceCall("stop", s, opt, "update")
    OBVIOUS
  <2>2. c \in ProperCall /\ c.s = s /\ c.request = "update"
    BY <2>1, DistanceCallTypes DEF Request
  <2>4. /\ Hands(<<c>>, <<>>) /\ ToSet(<<c>>) = {c}
        /\ HowMany(<<c>>, UpdCalls(s)) = 1
    BY <1>8, <2>1, <2>2, CallHands
  <2>5. NewUpdates(s, <<c>>, <<>>) = 1
    BY <1>1, <2>4 DEF NewUpdates, Updating
  <2>6. timeBased' = timeBased /\ distanceBased' = distanceBased /\ answers' = answers
    BY <1>8 DEF maps
  <2>7. ~Stopped(s)' /\ GoodCall(s, c)'
    BY <1>8, <2>1, <2>2, <2>6 DEF Stopped, Handles, GoodCall, DistanceCall
  <2>8. Goes(s, <<c>>, <<>>)
    BY <1>1, <1>3, <1>8, <2>2, <2>4, <2>5, <2>6, <2>7 DEF Goes, Updating
  <2> QED BY <2>6, <2>8, SessionGoes DEF Handles, OthersKeep
<1> QED BY <1>5, <1>6, <1>7, <1>8 DEF UpdateSession

(* A client is told, and nothing else happens *)
LEMMA ToldGoes ==
  ASSUME TrTyped, TrTyped', SsInv, NEW s \in Session, NEW request \in Request,
         Tell(s, request, "failure"), UNCHANGED <<timeBased, distanceBased, api, pending>>,
         Handles(s), RestUpdates(s) = 0, RestStarts(s) \in {0, 1}, RestStarts(s) > 0 => Nowhere(s)
  PROVE  SsInv'
<1>4. ~Stopped(s)' /\ \A t \in Session : t # s => answers'[t] = answers[t]
  BY StoppedBy, TellsOthers DEF Handles
<1>5. timeBased'[s] = None \/ distanceBased'[s] = None
  BY DEF SsInv, SessionOK, SsMaps
<1>7. Goes(s, <<>>, <<>>)
  BY <1>4, <1>5, NothingCounts, NothingHanded DEF Goes, NewUpdates, NewStarts, Nowhere
<1> QED BY <1>4, <1>7, SessionGoes DEF Handles, OthersKeep

LEMMA UpdateGoes ==
  ASSUME TrTyped, TrTyped', SsInv, NEW s \in Session, NEW opt \in Option, UpdateTracking(s, opt),
         Handles(s), Updating(s)
  PROVE  SsInv'
<1>2. CASE /\ pending' = Append(pending,
                [kind |-> "message", request |-> "update", s |-> s, opt |-> opt])
           /\ UNCHANGED <<maps, api, answers>>
  <2>1. PICK m : m = [kind |-> "message", request |-> "update", s |-> s, opt |-> opt]
    OBVIOUS
  <2>2. m \in Message /\ m.s = s /\ m.request = "update" /\ pending' = Append(pending, m)
    BY <1>2, <2>1 DEF Message
  <2>3. UNCHANGED <<timeBased, distanceBased, api, answers>>
    BY <1>2 DEF maps
  <2>6. ~Stopped(s)' /\ (Nowhere(s) => Nowhere(s)')
    BY <2>3 DEF Nowhere, Stopped, Handles
  <2>7. timeBased'[s] = None \/ distanceBased'[s] = None
    BY <2>3 DEF SsInv, SessionOK, SsMaps
  <2>8. Goes(s, <<>>, <<m>>)
    BY <2>2, <2>3, <2>6, <2>7, WaitHands, NothingCounts DEF Goes, Updating, NewUpdates,
      NewStarts
  <2> QED BY <2>3, <2>8, SessionGoes DEF Handles, OthersKeep
<1>3. CASE UNCHANGED pending /\ UpdateSession(s, opt)
  BY <1>3, UpdateSessionGoes
<1>4. CASE UNCHANGED pending /\ Tell(s, "update", "failure") /\ UNCHANGED <<maps, api>>
  BY <1>4, ToldGoes DEF maps, Request, Updating
<1> QED BY <1>2, <1>3, <1>4 DEF UpdateTracking

LEMMA StopGoes ==
  ASSUME TrTyped, TrTyped', SsInv, NEW s \in Session, StopTracking(s), pending' = pending,
         Handles(s), AskedLast(s, "stop")', RestUpdates(s) = 0, RestStarts(s) \in {0, 1},
         RestStarts(s) > 0 => Nowhere(s)
  PROVE  SsInv'
<1>1. \A B : HowMany(<<>>, B) = 0 /\ ToSet(<<>>) = {}
  BY NothingCounts
<1>3. "stop" \in Request
  BY DEF Request
<1>4. CASE /\ timeBased[s] # None
           /\ LET todo == StopMultiplex(timeBased, s, "stop")
              IN api' = api \o todo.calls /\ Tell(s, "stop", todo.status)
           /\ Erase(s)
  <2>1. PICK todo : todo = StopMultiplex(timeBased, s, "stop")
    OBVIOUS
  <2>2. api' = api \o todo.calls /\ Tell(s, "stop", todo.status)
    BY <1>4, <2>1
  <2>3. Answering(todo, s, "stop")
    BY <1>3, <2>1, TodosAnswer, TrTypesParts
  <2>4. PICK more : more = todo.calls
    OBVIOUS
  <2>5. /\ Hands(more, <<>>)
        /\ \A c \in ToSet(more) : c.s = s /\ c.request = "stop" /\ c.by = "time"
    BY <2>2, <2>3, <2>4, TodoHands DEF Handing
  <2>6. HowMany(more, UpdCalls(s)) = 0
    BY <2>5, NoUpdateCalls DEF Hands
  <2>7. /\ timeBased'[s] = None /\ distanceBased'[s] = None
        /\ \A t \in Session : t # s =>
             timeBased'[t] = timeBased[t] /\ distanceBased'[t] = distanceBased[t]
    BY <1>4, MapsMove DEF SsInv, SessionOK, SsMaps
  <2>10. Goes(s, more, <<>>)
    BY <1>1, <1>4, <2>5, <2>6, <2>7 DEF Goes, Nowhere, NewUpdates, NewStarts, GoodCall
  <2> QED BY <2>2, <2>7, <2>10, SessionGoes, TellsOthers DEF Handles, OthersKeep
<1>5. CASE /\ timeBased[s] = None /\ distanceBased[s] # None
           /\ api' = Append(api, DistanceCall("stop", s, None, "stop"))
           /\ UNCHANGED <<maps, answers>>
  <2>1. PICK c : c = DistanceCall("stop", s, None, "stop")
    OBVIOUS
  <2>2. c \in ProperCall /\ c.s = s /\ c.request = "stop" /\ c.by = "distance"
    BY <2>1, DistanceCallTypes DEF Request
  <2>3. Hands(<<c>>, <<>>) /\ ToSet(<<c>>) = {c} /\ HowMany(<<c>>, UpdCalls(s)) = 0
    BY <1>5, <2>1, <2>2, CallHands
  <2>5. timeBased' = timeBased /\ distanceBased' = distanceBased /\ answers' = answers
    BY <1>5 DEF maps
  <2>6. ~Stopped(s)' /\ GoodCall(s, c)'
    BY <1>5, <2>2, <2>5 DEF Stopped, Handles, GoodCall
  <2>7. Goes(s, <<c>>, <<>>)
    BY <1>1, <1>5, <2>2, <2>3, <2>5, <2>6 DEF Goes, NewUpdates, NewStarts, Nowhere
  <2> QED BY <2>5, <2>7, SessionGoes DEF Handles, OthersKeep
<1>6. CASE Tell(s, "stop", "failure") /\ UNCHANGED <<maps, api>>
  BY <1>3, <1>6, ToldGoes DEF maps
<1> QED BY <1>4, <1>5, <1>6 DEF StopTracking

-----------------------------------------------------------------------------
(* The commands of the clients                                             *)

LEMMA OnlyStarts ==
  ASSUME TrTyped, TrTyped', NEW s \in Session, SessionOK(s), Here(s), ~AskedLast(s, "stop"),
         RestUpdates(s) = 0, inbox' = inbox \/ (inbox # <<>> /\ inbox' = Tail(inbox))
  PROVE  \A c \in Remain(s) : c.request = "start"
<1>2. \A c \in Remain(s) : c.request # "stop"
  BY RemainIs DEF SessionOK, SsCalls, GoodCall
<1> QED BY <1>2, RemainCount DEF Owing, RestUpdates, Remain, Owed

LEMMA AsksFor ==
  ASSUME "update" \notin Impatient, RqInv, SsInv, NEW s \in Session, NEW request \in Request,
         Ask(s, request)
  PROVE  /\ Here(s) /\ GoesOn /\ inbox' = inbox /\ clients' = clients /\ events' = events
         /\ asked'[s] # <<>> /\ AskedLast(s, request)'
         /\ \A t \in Session : t # s => asked'[t] = asked[t]
         /\ request = "start" <=> asked[s] = <<>>
         /\ ~AskedLast(s, "stop") /\ ~Stopped(s)
         /\ RestUpdates(s) = 0 /\ RestStarts(s) \in {0, 1} /\ RestStarts(s) = Starts(s)
<1>1. TrTyped /\ DueOK /\ asked \in [Session -> Seq(Request)]
  BY TrTypesParts DEF RqInv
<1>2. /\ Here(s) /\ inbox' = inbox /\ clients' = clients /\ events' = events /\ MayGoOn(s)
      /\ request = "start" <=> asked[s] = <<>>
      /\ request # "start" => Last(asked[s]) # "stop"
      /\ asked' = [asked EXCEPT ![s] = Append(@, request)]
  BY DEF Ask, Here
<1>3. SessionOK(s)
  BY DEF SsInv
<1>4. ~AskedLast(s, "stop")
  BY <1>2 DEF AskedLast
<1>5. Updates(s) = 0
  BY <1>1, <1>2, <1>3, NoUpdateLeft DEF SessionOK
<1>6. Starts(s) \in Nat /\ Starts(s) <= 1
  BY <1>1, <1>3, SsTypes DEF SsCounted, SessionOK, SsStarts
<1>7. RestUpdates(s) = Updates(s) /\ RestStarts(s) = Starts(s)
  BY <1>1, <1>2, RestIs DEF Updates, Starts, RestUpdates, RestStarts
<1>8. AskedLast(s, request)'
  BY <1>1, <1>2 DEF AskedLast, Last
<1>9. asked'[s] # <<>> /\ \A t \in Session : t # s => asked'[t] = asked[t]
  BY <1>1, <1>2, <1>8 DEF AskedLast
<1>10. ~Stopped(s)
  BY <1>3, <1>4 DEF SessionOK, SsStopped
<1>11. GoesOn
  BY <1>2 DEF GoesOn, TakesNothing
<1> QED BY <1>2, <1>4, <1>5, <1>6, <1>7, <1>8, <1>9, <1>10, <1>11

LEMMA CommandsGo ==
  ASSUME "update" \notin Impatient, RqInv, RqInv', SsInv, NEW s \in Session,
         \/ \E opt \in Option : StartTrackingCommand(s, opt)
         \/ \E opt \in Option : UpdateTrackingCommand(s, opt)
         \/ StopTrackingCommand(s)
  PROVE  SsInv'
<1>1. TrTyped /\ TrTyped'
  BY DEF RqInv
<1>2. "start" \in Request /\ "update" \in Request /\ "stop" \in Request
  BY DEF Request
<1>3. SessionOK(s)
  BY DEF SsInv
<1>4. ASSUME NEW request \in Request, Ask(s, request)
      PROVE  Handles(s)
  BY <1>1, <1>3, <1>4, AsksFor, OnlyStarts DEF Handles
<1>5. CASE \E opt \in Option : StartTrackingCommand(s, opt)
  <2>1. PICK opt \in Option : Ask(s, "start") /\ StartTracking(s, opt)
    BY <1>5 DEF StartTrackingCommand
  <2>2. asked[s] = <<>> /\ RestUpdates(s) = 0 /\ RestStarts(s) = Starts(s) /\ RestStarts(s) \in {0, 1}
    BY <1>2, <2>1, AsksFor
  <2>3. Nowhere(s) /\ RestStarts(s) = 0
    BY <1>3, <2>2 DEF SessionOK, SsMaps, SsStarts
  <2> QED BY <1>1, <1>2, <1>4, <2>1, <2>2, <2>3, StartGoes
<1>6. CASE \E opt \in Option : UpdateTrackingCommand(s, opt)
  <2>1. PICK opt \in Option : Ask(s, "update") /\ UpdateTracking(s, opt)
    BY <1>6 DEF UpdateTrackingCommand
  <2>3. Updating(s)
    BY <1>2, <1>3, <2>1, AsksFor DEF SessionOK, SsStarts, Updating
  <2> QED BY <1>1, <1>2, <1>4, <2>1, <2>3, UpdateGoes
<1>7. CASE StopTrackingCommand(s)
  <2>1. Ask(s, "stop") /\ StopTracking(s) /\ pending' = pending
    BY <1>7 DEF StopTrackingCommand
  <2>2. /\ RestUpdates(s) = 0 /\ RestStarts(s) = Starts(s) /\ RestStarts(s) \in {0, 1}
        /\ AskedLast(s, "stop")'
    BY <1>2, <2>1, AsksFor
  <2>3. RestStarts(s) > 0 => Nowhere(s)
    BY <1>3, <2>2 DEF SessionOK, SsStarts
  <2> QED BY <1>1, <1>2, <1>4, <2>1, <2>2, <2>3, StopGoes
<1> QED BY <1>5, <1>6, <1>7

-----------------------------------------------------------------------------
(* What waited for the engine's capabilities, and the answers in an update *)

LEMMA UpdateHead ==
  ASSUME RqInv, TrTyped', SsInv, NEW s \in Session, NEW m, Takes(m),
         m \in Brings(UpdCalls(s), UpdWaits(s)), UNCHANGED <<asked, clients, events>>
  PROVE  /\ Handles(s) /\ Updating(s)
         /\ m \in ProperReply => RestStarts(s) = 0 /\ GoodCall(s, m.call)
<1>1. TrTyped /\ inbox \in Seq(Inboxes) /\ SessionOK(s)
  BY TrTypesParts DEF RqInv, SsInv
<1>2. inbox # <<>> /\ inbox' = Tail(inbox) /\ m = Head(inbox) /\ m \in ToSet(inbox)
  BY <1>1, HeadAndTail DEF Takes
<1>3. PICK u, r : u = Updates(s) /\ r = RestUpdates(s)
  OBVIOUS
<1>6. RestUpdates(s) = 0 /\ Updates(s) > 0
  BY <1>1, <1>2, <1>3, RestIs DEF Updates, RestUpdates, SessionOK, SsUpdates
<1>7. AskedLast(s, "update") /\ Here(s)
  BY <1>1, <1>6 DEF SessionOK, SsUpdates
<1>8. ~AskedLast(s, "stop") /\ asked[s] # <<>>
  BY <1>7 DEF AskedLast
<1>10. \A c \in Remain(s) : c.request = "start"
  BY <1>1, <1>2, <1>6, <1>7, <1>8, OnlyStarts
<1>11. \A t \in Session : m \notin GoneReply(t)
  <2>1. \A x \in Message : x \notin ProperReply
    BY DEF Message, ProperReply, Reply
  <2> QED BY <2>1 DEF Brings, UpdCalls, GoneReply, UpdWaits
<1>12. Handles(s)
  BY <1>1, <1>7, <1>8, <1>10, <1>11 DEF GoesOn, Handles, SessionOK, SsStopped
<1>13. RestStarts(s) \in Nat /\ RestStarts(s) <= Starts(s) /\ Starts(s) \in Nat
  BY <1>1, <1>2, RestIs, SsTypes DEF Starts, RestStarts, SsCounted
<1>15. ASSUME m \in ProperReply PROVE RestStarts(s) = 0 /\ GoodCall(s, m.call)
  <2>2. m.call \in UpdCalls(s) /\ m.call \in ProperCall
    BY <1>15 DEF Brings, ProperReply, UpdWaits, Message, Reply
  <2>3. m.call \in Under(s) /\ m.call.request # "start"
    BY <1>2, <1>15, <2>2 DEF UpdCalls, Under, Owed, Owing
  <2> QED BY <1>1, <1>13, <2>3 DEF SessionOK, SsCalls, SsStarts
<1> QED BY <1>1, <1>6, <1>7, <1>12, <1>13, <1>15 DEF SessionOK, SsStarts, AskedLast, Updating

LEMMA PendingGoes ==
  ASSUME RqInv, TrTyped', SsInv, HandlePending
  PROVE  SsInv'
<1>1. PICK m : m = Head(inbox)
  OBVIOUS
<1>2. TrTyped /\ inbox \in Seq(Inboxes)
  BY TrTypesParts DEF RqInv
<1>3. /\ inbox # <<>> /\ m.kind = "message" /\ inbox' = Tail(inbox)
      /\ \/ m.request = "start" /\ StartTracking(m.s, m.opt)
         \/ m.request = "update" /\ UpdateTracking(m.s, m.opt)
      /\ UNCHANGED <<clients, asked, events>>
  BY <1>1 DEF HandlePending, Receive
<1>4. m \in Message
  BY <1>1, <1>2, <1>3 DEF Inboxes, ProperReply, Reply, Event
<1>5. PICK s, opt : s = m.s /\ opt = m.opt
  OBVIOUS
<1>6. s \in Session /\ opt \in Option /\ m \notin ProperReply
  BY <1>3, <1>4, <1>5 DEF Message, ProperReply, Reply
<1>7. Takes(m) /\ SessionOK(s)
  BY <1>1, <1>3, <1>6 DEF Takes, SsInv
<1>8. CASE m.request = "update" /\ UpdateTracking(s, opt)
  <2>1. m \in Brings(UpdCalls(s), UpdWaits(s))
    BY <1>4, <1>5, <1>8 DEF Brings, UpdWaits
  <2>2. Handles(s) /\ Updating(s)
    BY <1>3, <1>6, <1>7, <2>1, UpdateHead
  <2> QED BY <1>2, <1>6, <1>8, <2>2, UpdateGoes
<1>9. CASE m.request = "start" /\ StartTracking(s, opt)
  <2>1. GoesOn
    BY <1>6, <1>7 DEF GoesOn, GoneReply
  <2>2. m \in Brings({}, StartWaits(s)) /\ m \notin Brings(UpdCalls(s), UpdWaits(s))
    BY <1>4, <1>5, <1>6, <1>9 DEF Brings, StartWaits, UpdWaits
  <2>3. PICK n, r : n = Starts(s) /\ r = RestStarts(s)
    OBVIOUS
  <2>4. n = r + 1 /\ r \in Nat
    BY <1>1, <1>2, <1>3, <2>2, <2>3, RestIs DEF Starts, RestStarts
  <2>6. RestStarts(s) = 0 /\ Starts(s) = 1
    BY <1>7, <2>3, <2>4 DEF SessionOK, SsStarts
  <2>7. /\ asked[s] # <<>> /\ Nowhere(s) /\ ~Stopped(s)
        /\ \A c \in Under(s) : c.request = "start"
    BY <1>7, <2>6 DEF SessionOK, SsStarts
  <2>8. \A c \in Remain(s) : c.request = "start"
    BY <1>2, <1>3, <1>6, <2>7, RemainIs
  <2>9. RestUpdates(s) = Updates(s) /\ RestUpdates(s) \in Nat
    BY <1>1, <1>2, <1>3, <2>2, RestIs DEF Updates, RestUpdates
  <2>10. CASE Here(s)
    <3>1. Handles(s)
      BY <1>3, <2>1, <2>7, <2>8, <2>10 DEF Handles
    <3>2. RestUpdates(s) \in {0, 1} /\ (RestUpdates(s) > 0 => AskedLast(s, "update")')
      BY <1>3, <1>7, <2>9 DEF SessionOK, SsUpdates, AskedLast
    <3> QED BY <1>2, <1>6, <1>9, <2>6, <2>7, <3>1, <3>2, StartGoes
  <2>11. CASE ~Here(s)
    <3>1. UNCHANGED <<timeBased, distanceBased, api, answers>>
      BY <1>9, <2>11 DEF StartTracking, maps, Here
    <3>2. CASE pending' = pending
      <4>1. \A t \in Session :
              /\ Calmer(t)
              /\ GoneComes(t) /\ Head(inbox) \notin GoneReply(t) => GoneComes(t)'
        BY <1>2, <1>3, <3>1, <3>2, HandledCalm
      <4>2. \A t \in Session : Calmer(t) /\ (GoneComes(t) => GoneComes(t)')
        BY <1>1, <1>6, <4>1 DEF GoneReply
      <4> QED BY <1>2, <1>3, <3>1, <4>2, StillCalm DEF NothingFailed
    <3>3. CASE pending' = Append(pending,
                 [kind |-> "message", request |-> "start", s |-> s, opt |-> opt])
      <4>1. PICK w : w = [kind |-> "message", request |-> "start", s |-> s, opt |-> opt]
        OBVIOUS
      <4>2. w \in Message /\ w.s = s /\ w.request = "start" /\ pending' = Append(pending, w)
        BY <1>6, <3>3, <4>1 DEF Message
      <4>3. /\ Hands(<<>>, <<w>>) /\ ToSet(<<w>>) = {w}
            /\ HowMany(<<w>>, UpdWaits(s)) = 0 /\ HowMany(<<w>>, StartWaits(s)) = 1
        BY <1>2, <1>6, <3>1, <4>2, WaitHands
      <4>4. \A B : HowMany(<<>>, B) = 0 /\ ToSet(<<>>) = {}
        BY NothingCounts
      <4>5. Updates(s)' = RestUpdates(s) + 0 + 0 /\ Starts(s)' = RestStarts(s) + 1
        BY <1>2, <1>6, <4>3, <4>4, HandsCount
      <4>6. \A c \in Under(s)' : c \in Under(s)
        BY <1>2, <1>3, <1>6, <4>3, <4>4, UnderHands, RemainIs
      <4>7. Calmer(s)
        BY <2>6, <2>9, <4>5, <4>6 DEF Calmer
      <4>8. GoneComes(s) => GoneComes(s)'
        <5>1. ToSet(inbox) = {m} \cup ToSet(inbox')
          BY <1>1, <1>2, <1>3, HeadAndTail
        <5> QED BY <1>6, <3>1, <5>1 DEF GoneComes, GoneReply
      <4>9. ASSUME NEW t \in Session PROVE Calmer(t) /\ (GoneComes(t) => GoneComes(t)')
        BY <1>2, <1>6, <2>1, <4>2, <4>3, <4>4, <4>7, <4>8, OthersCalm
      <4> QED BY <1>2, <1>3, <3>1, <4>9, StillCalm DEF NothingFailed
    <3> QED BY <1>9, <3>2, <3>3 DEF StartTracking
  <2> QED BY <2>10, <2>11
<1> QED BY <1>3, <1>5, <1>8, <1>9

LEMMA UpdateReplyGoes ==
  ASSUME RqInv, TrTyped', SsInv, HandleUpdateReply
  PROVE  SsInv'
<1>1. PICK m : m = Head(inbox)
  OBVIOUS
<1>2. PICK c, s, ok : c = m.call /\ s = c.s /\ ok = m.ok
  OBVIOUS
<1>3. TrTyped /\ api' = api /\ pending' = pending
  BY DEF RqInv, HandleUpdateReply
<1>4. /\ ReceiveReply({"update"}) /\ c.by = "time" /\ c.old # None
      /\ Save(s, c.old) \/ UNCHANGED maps
      /\ Tell(s, c.request, Status(ok))
      /\ UNCHANGED <<asked, clients, events>>
  BY <1>1, <1>2 DEF HandleUpdateReply
<1>5. /\ inbox # <<>> /\ inbox' = Tail(inbox) /\ s \in Session /\ c \in ProperCall
      /\ m \in ProperReply /\ c.request = "update" /\ c.old \in TimeOption
  BY <1>1, <1>2, <1>4, ReplyParts
<1>7. /\ Handles(s) /\ Updating(s) /\ RestStarts(s) = 0 /\ distanceBased[s] = None
  BY <1>1, <1>2, <1>4, <1>5, UpdateHead DEF GoodCall, Brings, UpdCalls, Takes
<1>10. /\ distanceBased'[s] = None
       /\ \A t \in Session : t # s =>
            timeBased'[t] = timeBased[t] /\ distanceBased'[t] = distanceBased[t]
  <2>1. CASE UNCHANGED maps
    BY <1>7, <2>1 DEF maps
  <2>2. CASE Save(s, c.old)
    BY <1>3, <1>5, <1>7, <2>2, MapsMove DEF TimeOption
  <2> QED BY <1>4, <2>1, <2>2
<1>11. ~Stopped(s)' /\ \A t \in Session : t # s => answers'[t] = answers[t]
  BY <1>3, <1>4, <1>5, <1>7, StoppedBy, TellsOthers DEF Status, Request, Handles
<1>13. Goes(s, <<>>, <<>>)
  BY <1>3, <1>7, <1>10, <1>11, NothingCounts, NothingHanded DEF Goes, NewUpdates, NewStarts,
    Updating
<1>14. OthersKeep(s)
  BY <1>7, <1>10, <1>11 DEF OthersKeep, Handles
<1> QED BY <1>3, <1>5, <1>7, <1>13, <1>14, SessionGoes DEF Handles

LEMMA DistanceUpdateGoes ==
  ASSUME RqInv, TrTyped', SsInv, HandleDistanceUpdateReply
  PROVE  SsInv'
<1>1. PICK m : m = Head(inbox)
  OBVIOUS
<1>2. PICK c, s, ok : c = m.call /\ s = c.s /\ ok = m.ok
  OBVIOUS
<1>3. TrTyped /\ pending' = pending
  BY DEF RqInv, HandleDistanceUpdateReply
<1>4. /\ ReceiveReply({"update"}) /\ c.by = "distance"
      /\ \/ /\ api' = IF ok THEN Append(api, DistanceCall("start", s, c.opt, "update")) ELSE api
            /\ UNCHANGED <<maps, answers>>
         \/ /\ Save(s, c.opt) \/ UNCHANGED maps
            /\ Tell(s, c.request, Status(ok)) /\ UNCHANGED api
      /\ UNCHANGED <<asked, clients, events>>
  BY <1>1, <1>2 DEF HandleDistanceUpdateReply
<1>5. /\ inbox # <<>> /\ inbox' = Tail(inbox) /\ s \in Session /\ c \in ProperCall
      /\ m \in ProperReply /\ c.request = "update" /\ c.opt \in Option
  BY <1>1, <1>2, <1>4, ReplyParts
<1>7. /\ Handles(s) /\ Updating(s) /\ RestStarts(s) = 0
      /\ timeBased[s] = None /\ c.opt.distance
  BY <1>1, <1>2, <1>4, <1>5, UpdateHead DEF GoodCall, Brings, UpdCalls, Takes
<1>8. \A B : HowMany(<<>>, B) = 0 /\ ToSet(<<>>) = {}
  BY NothingCounts
<1>9. NewStarts(s, <<>>) = 0
  BY <1>7, <1>8 DEF NewStarts
<1>10. CASE /\ api' = Append(api, DistanceCall("start", s, c.opt, "update"))
            /\ UNCHANGED <<maps, answers>>
  <2>1. PICK d : d = DistanceCall("start", s, c.opt, "update")
    OBVIOUS
  <2>2. d \in ProperCall /\ d.s = s /\ d.request = "update" /\ d.by = "distance"
    BY <1>5, <2>1, DistanceCallTypes DEF Request
  <2>4. Hands(<<d>>, <<>>) /\ ToSet(<<d>>) = {d} /\ HowMany(<<d>>, UpdCalls(s)) = 1
    BY <1>3, <1>5, <1>10, <2>1, <2>2, CallHands
  <2>5. timeBased' = timeBased /\ distanceBased' = distanceBased /\ answers' = answers
    BY <1>10 DEF maps
  <2>6. ~Stopped(s)' /\ GoodCall(s, d)'
    BY <1>7, <2>1, <2>2, <2>5 DEF Stopped, Handles, GoodCall, DistanceCall
  <2>7. NewUpdates(s, <<d>>, <<>>) = 1
    BY <1>7, <1>8, <2>4 DEF NewUpdates, Updating
  <2>8. Goes(s, <<d>>, <<>>)
    BY <1>7, <1>8, <1>9, <2>2, <2>4, <2>5, <2>6, <2>7 DEF Goes, Updating
  <2> QED BY <1>3, <1>5, <1>7, <2>5, <2>8, SessionGoes DEF Handles, OthersKeep
<1>11. CASE /\ api' = api
            /\ \/ UNCHANGED <<maps, answers>>
               \/ /\ Save(s, c.opt) \/ UNCHANGED maps
                  /\ Tell(s, c.request, Status(ok))
  <2>1. Hands(<<>>, <<>>)
    BY <1>3, <1>11, NothingHanded
  <2>2. /\ timeBased'[s] = None
        /\ \A t \in Session : t # s =>
             timeBased'[t] = timeBased[t] /\ distanceBased'[t] = distanceBased[t]
    BY <1>3, <1>5, <1>7, <1>11, MapsMove DEF maps
  <2>3. ~Stopped(s)' /\ \A t \in Session : t # s => answers'[t] = answers[t]
    <3>1. CASE answers' = answers
      BY <1>7, <3>1 DEF Stopped, Handles
    <3>2. CASE Tell(s, c.request, Status(ok))
      BY <1>3, <1>5, <1>7, <3>2, StoppedBy, TellsOthers DEF Status, Request, Handles
    <3> QED BY <1>11, <3>1, <3>2
  <2>5. Goes(s, <<>>, <<>>)
    BY <1>7, <1>8, <1>9, <2>1, <2>2, <2>3 DEF Goes, NewUpdates, Updating
  <2>6. OthersKeep(s)
    BY <1>7, <2>2, <2>3 DEF OthersKeep, Handles
  <2> QED BY <1>3, <1>5, <1>7, <2>5, <2>6, SessionGoes DEF Handles
<1> QED BY <1>4, <1>10, <1>11

LEMMA SwitchGoes ==
  ASSUME RqInv, TrTyped', SsInv, HandleSwitchReply
  PROVE  SsInv'
<1>1. PICK m : m = Head(inbox)
  OBVIOUS
<1>2. PICK c, s : c = m.call /\ s = c.s
  OBVIOUS
<1>3. PICK todo : todo = StartMultiplex(s, c.opt, "update")
  OBVIOUS
<1>4. TrTyped /\ pending' = pending
  BY DEF RqInv, HandleSwitchReply
<1>5. /\ ReceiveReply({"switch"})
      /\ api' = api \o todo.calls /\ Tell(s, "update", todo.status) /\ Save(s, c.opt)
      /\ UNCHANGED <<asked, clients, events>>
  BY <1>1, <1>2, <1>3 DEF HandleSwitchReply
<1>6. /\ inbox # <<>> /\ inbox' = Tail(inbox) /\ s \in Session /\ c \in ProperCall
      /\ m \in ProperReply /\ c.request = "switch"
      /\ c.by \in {"time", "distance"} /\ (c.by = "time" => c.request \in Request)
      /\ c.by = "distance" => c.opt \in Option
  BY <1>1, <1>2, <1>5, ReplyParts
<1>7. /\ m \in Brings(UpdCalls(s), UpdWaits(s)) /\ Takes(m)
      /\ c.opt \in Option /\ "update" \in Request
  BY <1>1, <1>2, <1>6 DEF Brings, UpdCalls, Takes, Request
<1>8. /\ Handles(s) /\ Updating(s) /\ RestStarts(s) = 0
      /\ distanceBased[s] = None /\ ~c.opt.distance
  BY <1>2, <1>5, <1>6, <1>7, UpdateHead DEF GoodCall, Nowhere
<1>10. Answering(todo, s, "update")
  BY <1>3, <1>4, <1>6, <1>7, TodosAnswer
<1>11. PICK more : more = todo.calls
  OBVIOUS
<1>12. /\ Hands(more, <<>>) /\ HowMany(more, UpdCalls(s)) \in {0, 1}
       /\ \A a \in ToSet(more) : a.s = s /\ a.request = "update" /\ a.by = "time" /\ a.old = None
       /\ todo.status \in {"later", "success", "failure"}
  <2>1. Handing(todo, s, "update")
    BY <1>4, <1>5, <1>6, <1>10, TodoHands
  <2>2. \A a \in ToSet(todo.calls) : a.old = None
    BY <1>3, <1>6, PlainTodos
  <2> QED BY <1>11, <2>1, <2>2 DEF Handing
<1>13. /\ distanceBased'[s] = None
       /\ \A t \in Session : t # s =>
            timeBased'[t] = timeBased[t] /\ distanceBased'[t] = distanceBased[t]
  BY <1>4, <1>5, <1>6, <1>7, <1>8, MapsMove
<1>14. ~Stopped(s)' /\ \A t \in Session : t # s => answers'[t] = answers[t]
  BY <1>4, <1>5, <1>6, <1>7, <1>8, <1>12, StoppedBy, TellsOthers DEF Handles
<1>17. Goes(s, more, <<>>)
  BY <1>8, <1>12, <1>13, <1>14, NothingCounts DEF Goes, Updating, NewUpdates, NewStarts,
    GoodCall
<1>18. OthersKeep(s)
  BY <1>8, <1>13, <1>14 DEF OthersKeep, Handles
<1> QED BY <1>4, <1>6, <1>8, <1>17, <1>18, SessionGoes DEF Handles

-----------------------------------------------------------------------------
(* A client goes away                                                      *)

LEMMA GoneFrom ==
  ASSUME "update" \notin Impatient, RqInv, TrTyped', SsInv, NEW who \in Client, NEW more,
         Hands(more, <<>>), UNCHANGED <<distanceBased, inbox, asked, answers, events>>,
         clients' = clients \ {who},
         \A t \in Session : /\ Owner[t] = who => timeBased'[t] = None /\ MayGoOn(t)
                            /\ Owner[t] # who => timeBased'[t] = timeBased[t],
         \A c \in ToSet(more) : /\ c.s \in Session /\ Owner[c.s] = who
                                /\ c.request \in {"stop", "gone"}
                                /\ c.request = "stop" => c.by = "time" /\ timeBased[c.s] # None,
         \A t \in Session : Owner[t] = who /\ distanceBased[t] # None =>
           \E c \in ToSet(more) : c \in GoneCall(t)
  PROVE  SsInv'
<1> SUFFICES ASSUME NEW t \in Session PROVE SessionOK(t)'
  BY DEF SsInv
<1>1. TrTyped /\ DueOK /\ SessionOK(t) /\ api \in Seq(ProperCall) /\ more \in Seq(ProperCall)
  BY TrTypesParts DEF RqInv, SsInv, Hands
<1>2. \A B : HowMany(<<>>, B) = 0 /\ ToSet(<<>>) = {}
  BY NothingCounts
<1>5. CASE Owner[t] # who
  <2>3. Calmer(t) /\ (GoneComes(t) => GoneComes(t)')
    BY <1>1, <1>2, <1>5, OthersCalm DEF GoesOn, TakesNothing
  <2> QED BY <1>1, <1>5, <2>3, Calms DEF Less, Here, Stopped, NothingFailed
<1>6. CASE Owner[t] = who
  <2>1. ~Here(t)' /\ timeBased'[t] = None /\ distanceBased'[t] = distanceBased[t]
    BY <1>6 DEF Here
  <2>2. Nowhere(t) => Nowhere(t)'
    BY <2>1 DEF Nowhere
  <2>3. Updates(t) = 0
    BY <1>1, <1>6, NoUpdateLeft DEF SessionOK
  <2>5. Updates(t)' = RestUpdates(t) + 0 + 0 /\ Starts(t)' = RestStarts(t) + 0
    BY <1>1, <1>2, HandsCount, NoUpdateCalls
  <2>8. Updates(t)' = 0 /\ Starts(t)' = Starts(t)
    BY <1>1, <2>3, <2>5, RestIs, SsTypes DEF Updates, Starts, RestUpdates, RestStarts, SsCounted
  <2>9. \A c \in Under(t)' : \/ c \in Under(t)
                             \/ c \in ToSet(more) /\ c.s = t /\ c.request = "stop"
    BY <1>1, UnderHands DEF Remain, Under, Owed, Owing
  <2>10. SsMaps(t)'
    BY <1>1, <2>1, <2>2 DEF SessionOK, SsMaps
  <2>11. SsStarts(t)'
    BY <1>1, <2>2, <2>8, <2>9 DEF SessionOK, SsStarts, Nowhere, Stopped
  <2>13. SsCalls(t)'
    BY <1>1, <2>1, <2>3, <2>9, UpdatesCount DEF SessionOK, SsCalls, GoodCall, SsMaps
  <2>14. SsStopped(t)'
    BY <1>1, <2>2 DEF SessionOK, SsStopped, Stopped, AskedLast
  <2>15. SsGone(t)'
    BY <1>1, <1>6, <2>1, ElementsOfBoth DEF Hands, SsGone, GoneComes
  <2> QED BY <2>8, <2>10, <2>11, <2>13, <2>14, <2>15 DEF SessionOK, SsUpdates
<1> QED BY <1>5, <1>6

(* A client goes away, and its sessions are stopped for nobody *)
LEMMA GoneGoes ==
  ASSUME "update" \notin Impatient, RqInv, TrTyped', SsInv, NEW who \in Client,
         RemoveClient(who)
  PROVE  SsInv'
<1>1. TrTyped /\ api \in Seq(ProperCall) /\ pending \in Seq(Message)
  BY TrTypesParts DEF RqInv
<1>2. /\ clients' = clients \ {who}
      /\ \A t \in Session : Owner[t] = who => MayGoOn(t)
      /\ UNCHANGED <<distanceBased, pending, inbox, asked, answers, events>>
  BY DEF RemoveClient
<1>3. timeBased' = [t \in Session |-> IF Owner[t] = who THEN None ELSE timeBased[t]]
  BY <1>1, GoneCalls
<1>4. PICK f \in Seq(StopsOf(who)), e \in Seq(EndsOf(who)) :
        /\ api' = (api \o f) \o e
        /\ \A t \in Session : Owner[t] = who /\ distanceBased[t] # None =>
             \E c \in ToSet(e) : c.s = t
  BY <1>1, GoneCalls
<1>5. /\ f \in Seq(ProperCall) /\ e \in Seq(ProperCall)
      /\ ToSet(f) \subseteq StopsOf(who) /\ ToSet(e) \subseteq EndsOf(who)
  <2>1. StopsOf(who) \subseteq ProperCall /\ EndsOf(who) \subseteq ProperCall
    BY DEF StopsOf, EndsOf
  <2> QED BY <2>1, ElementsOf
<1>6. PICK more : more = f \o e
  OBVIOUS
<1>7. more \in Seq(ProperCall) /\ ToSet(more) = ToSet(f) \cup ToSet(e)
  BY <1>5, <1>6, ElementsOfBoth
<1>8. Hands(more, <<>>)
  <2>3. api' = (api \o f) \o e
    BY <1>4
  <2>4. (api \o f) \o e = api \o (f \o e)
    BY <1>1, <1>5, ConcatAssociative
  <2>1. api' = api \o more
    BY <1>6, <2>3, <2>4
  <2>2. <<>> \in Seq(Message) /\ pending' = pending \o <<>>
    BY <1>1, <1>2
  <2> QED BY <1>7, <2>1, <2>2 DEF Hands
<1>9. \A t \in Session : /\ Owner[t] = who => timeBased'[t] = None /\ MayGoOn(t)
                         /\ Owner[t] # who => timeBased'[t] = timeBased[t]
  BY <1>2, <1>3
<1>10. \A c \in ToSet(more) : /\ c.s \in Session /\ Owner[c.s] = who
                              /\ c.request \in {"stop", "gone"}
                              /\ c.request = "stop" => c.by = "time" /\ timeBased[c.s] # None
  BY <1>5, <1>7 DEF StopsOf, EndsOf
<1>11. \A t \in Session : Owner[t] = who /\ distanceBased[t] # None =>
         \E c \in ToSet(more) : c \in GoneCall(t)
  BY <1>4, <1>5, <1>7 DEF EndsOf, GoneCall
<1> QED BY <1>2, <1>8, <1>9, <1>10, <1>11, GoneFrom

-----------------------------------------------------------------------------
(* All steps together                                                      *)

LEMMA SessionsBegin == Init => SsInv
<1> SUFFICES ASSUME Init, NEW s \in Session PROVE SessionOK(s)
  BY DEF SsInv
<1>1. /\ timeBased[s] = None /\ distanceBased[s] = None /\ asked[s] = <<>> /\ answers[s] = <<>>
      /\ api = <<>> /\ pending = <<>> /\ inbox = <<>> /\ Here(s)
  BY OwnerAssumption DEF Init, Here
<1>2. \A B : HowMany(<<>>, B) = 0 /\ ToSet(<<>>) = {}
  BY NothingCounts
<1>3. Updates(s) = 0 /\ Starts(s) = 0
  BY <1>1, <1>2 DEF Updates, Starts, Flow
<1>6. SsCalls(s) /\ SsStopped(s) /\ SsGone(s)
  BY <1>1, <1>2 DEF SsCalls, SsStopped, SsGone, Under, Stopped
<1> QED BY <1>1, <1>3, <1>6 DEF SessionOK, SsMaps, SsStarts, SsUpdates, Nowhere

LEMMA NothingHappens ==
  ASSUME SsInv, UNCHANGED vars
  PROVE  SsInv'
<1>1. UNCHANGED <<timeBased, distanceBased, pending, clients, api, inbox, asked, answers, events>>
  BY DEF vars, maps, queues, modem
<1>2. SsInv <=> SsInv'
  BY <1>1 DEF SsInv, SessionOK, SsMaps, SsStarts, SsUpdates, SsCalls, SsStopped, SsGone, Starts,
     Updates, Flow, Under, Nowhere, Here, AskedLast, Stopped, GoodCall, GoneComes, NothingFailed
<1> QED BY <1>2

LEMMA SessionsStay ==
  ASSUME "update" \notin Impatient, RqInv, RqInv', SsInv, [Next]_vars
  PROVE  SsInv'
<1>1. TrTyped /\ TrTyped'
  BY DEF RqInv
<1>2. CASE ClientNext
  BY <1>1, <1>2, CommandsGo, GoneGoes DEF ClientNext
<1>3. CASE EnvironmentNext
  BY <1>1, <1>3, EnvironmentCalm
<1>4. CASE ApiNext
  BY <1>1, <1>4, ApiCalm
<1>5. CASE MsgTaskNext
  BY <1>1, <1>5, TimeCalm, UpdateReplyGoes, DistanceCalm, DistanceUpdateGoes, SwitchGoes,
     PendingGoes, EventsCalm DEF MsgTaskNext
<1>6. CASE UNCHANGED vars
  BY <1>6, NothingHappens
<1> QED BY <1>2, <1>3, <1>4, <1>5, <1>6 DEF Next

LEMMA SessionsSettle == RqInv /\ SsInv => EndedSessionsStayEnded
<1> SUFFICES ASSUME RqInv, SsInv PROVE EndedSessionsStayEnded
  OBVIOUS
<1>1. ASSUME NEW s \in Session, Len(answers[s]) > 0, Last(answers[s]) = StopAnswer
      PROVE  timeBased[s] = None /\ distanceBased[s] = None
  <2>2. Last(answers[s]) \in ToSet(answers[s])
    BY <1>1, TrTypesParts DEF Last, ToSet, RqInv
  <2> QED BY <1>1, <2>2 DEF Stopped, SsInv, SessionOK, SsStopped, Nowhere
<1>3. OneMap
  BY DEF OneMap, SsInv, SessionOK, SsMaps
<1>4. ASSUME Quiet, ~Refused, events["restart"] = 0, NEW s \in Session, Owner[s] \notin clients
      PROVE  timeBased[s] = None /\ distanceBased[s] = None
  <2>1. NothingFailed
    BY <1>4 DEF RqInv, TrTyped, EventKind, NothingFailed, Refused
  <2>2. ~GoneComes(s)
    BY <1>4, NothingCounts DEF Quiet, GoneComes
  <2> QED BY <1>4, <2>1, <2>2 DEF SsInv, SessionOK, SsMaps, SsGone, Here
<1> QED BY <1>1, <1>3, <1>4 DEF EndedSessionsStayEnded, GoneClientsLeaveNothing,
  StoppedStaysStopped, StopAnswer

(* A session ends when its client stops it or goes away, in the one map it *)
(* is in, whatever answers were still to come, for any clients, sessions   *)
(* and options: a stop that succeeded is not undone by a late answer, by a *)
(* start that waited for the engine's capabilities or by a restart, and a  *)
(* client that is gone leaves no session once nothing is under way, when   *)
(* the modem refused nothing and did not restart (GnssAdapter.cpp:         *)
(* 3439-3456, 3958-4010).  Clients wait for the answer to an update before *)
(* they ask for anything else of the session, as "update" \notin Impatient *)
(* says of them                                                            *)
THEOREM SessionsStayEnded ==
  ASSUME "update" \notin Impatient
  PROVE  TrackSpec => []EndedSessionsStayEnded
<1>1. TrackInit => SsInv
  BY SessionsBegin DEF TrackInit
<1>2. TrackInv /\ TrackInv' /\ SsInv /\ [TrackNext]_<<part, vars, ecVars, edVars>> => SsInv'
  <2> SUFFICES ASSUME TrackInv, TrackInv', SsInv, [TrackNext]_<<part, vars, ecVars, edVars>>
               PROVE  SsInv'
    OBVIOUS
  <2> QED BY SessionsStay DEF TrackInv, TrackNext, SessionStep, ConfigStep, SettingStep
<1>3. TrackInv /\ SsInv => EndedSessionsStayEnded
  BY SessionsSettle DEF TrackInv
<1> QED BY <1>1, <1>2, <1>3, TrackAlways, PTL DEF TrackSpec
=============================================================================
