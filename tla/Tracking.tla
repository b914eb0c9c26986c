------------------------------ MODULE Tracking ------------------------------
(***************************************************************************)
(* The tracking sessions of GnssAdapter (gnss/GnssAdapter.cpp).            *)
(*                                                                         *)
(* Every LocationAPI client starts, updates and stops sessions.  The modem *)
(* runs one time based session, which the adapter multiplexes among all of *)
(* its own, and a distance based session each.  The adapter calls the      *)
(* LocApi and goes on; the answer comes back in a message of its own, when *)
(* the session may have been stopped, updated or taken along by another    *)
(* one.  Power events, the engine lock and modem restarts stop and restart *)
(* the sessions meanwhile.                                                 *)
(*                                                                         *)
(* A request of a client is handled by the message thread in one step, and *)
(* was sent before the answers that still wait there.  The interval stands *)
(* for all that is multiplexed.  Left out: nHz sessions (mNHzNeeded is     *)
(* false), NTRIP, triband and the engine hub, which follow the sessions.   *)
(***************************************************************************)
EXTENDS Naturals, FiniteSets, SequencesExt

CONSTANTS
  Session,       \* session ids, fresh for every start (generateSessionId)
  Client,        \* LocationAPI objects
  Owner,         \* the client that starts each session
  Option,        \* TrackingOptions: an interval, and whether by distance
  None,          \* no session, no options, no interval
  Impatient,     \* requests whose answer clients do not always wait for
  MaxRequests,   \* bound: requests of all clients
  MaxQueue,      \* bound: clients wait while this much is under way
  MaxEvents      \* bound: power events, engine locks, modem restarts, refusals

Request == {"start", "update", "stop"}

ASSUME SessionAssumption == IsFiniteSet(Session)   \* ids have 32 bits
ASSUME OwnerAssumption == Owner \in [Session -> Client]
ASSUME OptionAssumption == Option \subseteq [interval: Nat, distance: BOOLEAN]
ASSUME NoneAssumption == None \notin Session \cup Option \cup Nat
ASSUME BoundsAssumption ==
  /\ Impatient \subseteq Request
  /\ MaxRequests \in Nat /\ MaxQueue \in Nat /\ MaxEvents \in Nat

VARIABLES
  timeBased,      \* mTimeBasedTrackingSessions
  distanceBased,  \* mDistanceBasedTrackingSessions
  power,          \* mSystemPowerState
  known,          \* mIsEngineCapabilitiesKnown
  pending,        \* mPendingMsgs
  clients,        \* clients that are not gone (mClientData)
  api,            \* calls the LocApi has not done yet
  inbox,          \* what the message thread has not handled yet
  up,             \* the modem is there
  locked,         \* mEngineLockState is ENGINE_LOCK_STATE_DISABLED
  engineTime,     \* the interval of the modem's time based session
  engineDistance, \* the modem's distance based sessions
  asked,          \* requests made so far for each session, the last of them
  answers,        \* and the answers to them
  failed,         \* some call failed so far
  events          \* power events, changes of the lock, restarts, refusals

maps == <<timeBased, distanceBased>>
queues == <<api, inbox>>
modem == <<up, engineTime, engineDistance>>
vars == <<maps, power, known, pending, clients, queues, modem, locked, asked,
          answers, failed, events>>

-----------------------------------------------------------------------------
(* Types *)

EventKind == {"power", "lock", "restart", "refusal"}

(* request: what the answer is for; old: the options to go back to *)
Call == [kind: {"call"}, cmd: {"start", "stop"}, by: {"time", "distance"},
         s: Session \cup {None}, opt: Option \cup {None},
         interval: Nat \cup {None},
         request: Request \cup {"switch", "gone", "none"},
         old: Option \cup {None}]
Reply == [kind: {"reply"}, call: Call, ok: BOOLEAN]
Answered == [request : Request, status : {"success", "failure"}]
Message == [kind: {"message"}, request: {"start", "update"}, s: Session, opt: Option]
Event == [kind: {"up"}] \cup [kind: {"lock"}, locked: BOOLEAN]

TypeOK ==
  /\ timeBased \in [Session -> Option \cup {None}]
  /\ distanceBased \in [Session -> Option \cup {None}]
  /\ power \in {"unknown", "awake", "suspended"}
  /\ known \in BOOLEAN
  /\ pending \in Seq(Message)
  /\ clients \in SUBSET Client
  /\ api \in Seq(Call)
  /\ inbox \in Seq(Reply \cup Message \cup Event)
  /\ up \in BOOLEAN /\ locked \in BOOLEAN
  /\ engineTime \in Nat \cup {None}
  /\ engineDistance \in SUBSET Session
  /\ asked \in [Session -> Seq(Request)]
  /\ answers \in [Session -> Seq(Answered)]
  /\ failed \in BOOLEAN
  /\ events \in [EventKind -> Nat]

-----------------------------------------------------------------------------
(* Sessions and calls *)

SessionsOf(map) == {s \in Session : map[s] # None}

Intervals(map) == {map[s].interval : s \in SessionsOf(map)}

(* multiplexWithForTimeBasedRequest over a map: the smallest interval *)
Wanted(map) ==
  IF SessionsOf(map) = {} THEN None ELSE Min(Intervals(map))

Without(map, s) == [map EXCEPT ![s] = None]

(* eraseTrackingSession: of the first map that has it *)
Erase(s) ==
  IF timeBased[s] # None
  THEN timeBased' = Without(timeBased, s) /\ UNCHANGED distanceBased
  ELSE distanceBased' = Without(distanceBased, s) /\ UNCHANGED timeBased

(* saveTrackingSession *)
Save(s, opt) ==
  IF opt.distance
  THEN distanceBased' = [distanceBased EXCEPT ![s] = opt] /\ UNCHANGED timeBased
  ELSE timeBased' = [timeBased EXCEPT ![s] = opt] /\ UNCHANGED distanceBased

DistanceCall(cmd, s, opt, request) ==
  [kind |-> "call", cmd |-> cmd, by |-> "distance", s |-> s, opt |-> opt,
   interval |-> None, request |-> request, old |-> None]

TimeCall(cmd, s, interval, request, old) ==
  [kind |-> "call", cmd |-> cmd, by |-> "time", s |-> s, opt |-> None,
   interval |-> interval, request |-> request, old |-> old]

Suspended == power = "suspended"

(* Mutant: the client is told at once although the modem still has to answer *)
MutantLater(calls) == [calls |-> calls, status |-> "success"]

(* A handler's calls and the answer it gives at once, if it gives one *)
Later(calls) == [calls |-> calls, status |-> "later"]
AtOnce(status) == [calls |-> <<>>, status |-> status]

(* startTimeBasedTracking *)
StartTime(s, interval, request) ==
  IF Suspended THEN AtOnce("failure")
  ELSE Later(<<TimeCall("start", s, interval, request, None)>>)

(* Mutant: a session that comes second never speeds the modem up *)
MutantStartMultiplex(s, opt, request) ==
  IF SessionsOf(timeBased) = {} THEN StartTime(s, opt.interval, request)
  ELSE AtOnce("success")

(* startTimeBasedTrackingMultiplex *)
StartMultiplex(s, opt, request) ==
  LET new == Min(Intervals(timeBased) \cup {opt.interval}) IN
  IF new # Wanted(timeBased) THEN StartTime(s, new, request)
  ELSE AtOnce("success")

(* updateTrackingMultiplex and updateTracking, which does not look at the  *)
(* power state                                                             *)
UpdateMultiplex(s, opt) ==
  LET new == Wanted([timeBased EXCEPT ![s] = opt]) IN
  IF new # Wanted(timeBased)
  THEN Later(<<TimeCall("start", s, new, "update", timeBased[s])>>)
  ELSE AtOnce("success")

(* Mutant: the modem is not slowed down for the sessions that are left *)
MutantStopMultiplex(map, s, request) ==
  IF Wanted(Without(map, s)) = None
  THEN Later(<<TimeCall("stop", s, None, request, None)>>)
  ELSE AtOnce("success")

(* stopTimeBasedTrackingMultiplex of a session of map, for a request *)
StopMultiplex(map, s, request) ==
  LET rest == Wanted(Without(map, s)) IN
  IF rest = None THEN Later(<<TimeCall("stop", s, None, request, None)>>)
  ELSE IF rest # Wanted(map) THEN StartTime(s, rest, request)
  ELSE AtOnce("success")

(* Mutant: what is answered later is also answered now *)
MutantTell(s, request, status) ==
  IF Owner[s] \notin clients THEN UNCHANGED answers
  ELSE answers' = [answers EXCEPT ![s] =
                     Append(@, [request |-> request, status |-> status])]

(* reportResponse; a client that is gone is not told *)
Tell(s, request, status) ==
  IF status = "later" \/ Owner[s] \notin clients THEN UNCHANGED answers
  ELSE answers' = [answers EXCEPT ![s] =
                     Append(@, [request |-> request, status |-> status])]

Status(ok) == IF ok THEN "success" ELSE "failure"

(* reStartTimeBasedTracking and checkAndRestartSPESession: everything in   *)
(* the maps is started again, for nobody, the distance based ones in the   *)
(* order of the map                                                        *)
MapOrders == SetToSeqs(SessionsOf(distanceBased))

RestartCalls(order) ==
  (IF SessionsOf(timeBased) = {} THEN <<>>
   ELSE <<TimeCall("start", None, Wanted(timeBased), "none", None)>>)
  \o [i \in DOMAIN order |->
        DistanceCall("start", order[i], distanceBased[order[i]], "none")]

(* suspendSessions: only the time based ones *)
SuspendCalls ==
  IF SessionsOf(timeBased) = {} THEN <<>>
  ELSE <<TimeCall("stop", None, None, "none", None)>>

-----------------------------------------------------------------------------
(* The handlers of the clients' requests *)

(* Mutant: a start that waited is not checked against the clients again *)
MutantStartTracking(s, opt) ==
  IF ~known /\ opt.distance
  THEN /\ pending' = Append(pending,
            [kind |-> "message", request |-> "start", s |-> s, opt |-> opt])
       /\ UNCHANGED <<maps, api, answers>>
  ELSE /\ Save(s, opt)
       /\ LET todo == IF opt.distance
                       THEN Later(<<DistanceCall("start", s, opt, "start")>>)
                       ELSE StartMultiplex(s, opt, "start")
          IN api' = api \o todo.calls /\ Tell(s, "start", todo.status)
       /\ UNCHANGED pending

(* MsgStartTracking *)
StartTracking(s, opt) ==
  \/ /\ ~known /\ opt.distance
     /\ pending' = Append(pending,
          [kind |-> "message", request |-> "start", s |-> s, opt |-> opt])
     /\ UNCHANGED <<maps, api, answers>>
  \/ /\ known \/ ~opt.distance
     /\ UNCHANGED pending
     /\ \/ /\ Owner[s] \notin clients
           /\ UNCHANGED <<maps, api, answers>>
        \/ /\ Owner[s] \in clients /\ opt.distance
           /\ Save(s, opt)
           /\ api' = Append(api, DistanceCall("start", s, opt, "start"))
           /\ UNCHANGED answers
        \/ /\ Owner[s] \in clients /\ ~opt.distance
           /\ Save(s, opt)
           /\ LET todo == StartMultiplex(s, opt, "start")
              IN api' = api \o todo.calls /\ Tell(s, "start", todo.status)

(* Mutant: a time based session that becomes distance based is not erased *)
MutantUpdateSession(s, opt) ==
  /\ timeBased[s] # None /\ opt.distance
  /\ LET todo == StopMultiplex(timeBased, s, "update")
     IN /\ api' = api \o todo.calls \o <<DistanceCall("start", s, opt, "none")>>
        /\ Tell(s, "update", todo.status)
  /\ Save(s, opt)

(* MsgUpdateTracking of a session that is there.  The answer of a switch   *)
(* to distance comes from stopping the time based session.                 *)
UpdateSession(s, opt) ==
  \/ /\ timeBased[s] # None /\ opt.distance
     /\ LET todo == StopMultiplex(timeBased, s, "update")
        IN /\ api' = api \o todo.calls \o <<DistanceCall("start", s, opt, "none")>>
           /\ Tell(s, "update", todo.status)
     /\ timeBased' = Without(timeBased, s)
     /\ distanceBased' = [distanceBased EXCEPT ![s] = opt]
  \/ /\ distanceBased[s] # None /\ ~opt.distance
     /\ Erase(s)
     /\ api' = Append(api, DistanceCall("stop", s, opt, "switch"))
     /\ UNCHANGED answers
  \/ /\ timeBased[s] # None /\ ~opt.distance
     /\ LET todo == UpdateMultiplex(s, opt)
        IN api' = api \o todo.calls /\ Tell(s, "update", todo.status)
     /\ Save(s, opt)
  \/ /\ timeBased[s] = None /\ distanceBased[s] # None /\ opt.distance
     /\ api' = Append(api, DistanceCall("stop", s, opt, "update"))
     /\ UNCHANGED <<maps, answers>>

(* MsgUpdateTracking *)
UpdateTracking(s, opt) ==
  \/ /\ ~known /\ opt.distance
     /\ pending' = Append(pending,
          [kind |-> "message", request |-> "update", s |-> s, opt |-> opt])
     /\ UNCHANGED <<maps, api, answers>>
  \/ /\ known \/ ~opt.distance
     /\ UNCHANGED pending
     /\ \/ UpdateSession(s, opt)
        \/ /\ timeBased[s] = None /\ distanceBased[s] = None
           /\ Tell(s, "update", "failure")
           /\ UNCHANGED <<maps, api>>

(* Mutant: a session is erased only when its stop is answered at once *)
MutantStopTracking(s) ==
  /\ timeBased[s] # None
  /\ LET todo == StopMultiplex(timeBased, s, "stop")
     IN /\ api' = api \o todo.calls
        /\ Tell(s, "stop", todo.status)
        /\ IF todo.status = "later" THEN UNCHANGED maps ELSE Erase(s)

(* MsgStopTracking: a time based session is erased at once, a distance     *)
(* based one when the modem has stopped it                                 *)
StopTracking(s) ==
  \/ /\ timeBased[s] # None
     /\ LET todo == StopMultiplex(timeBased, s, "stop")
        IN api' = api \o todo.calls /\ Tell(s, "stop", todo.status)
     /\ Erase(s)
  \/ /\ timeBased[s] = None /\ distanceBased[s] # None
     /\ api' = Append(api, DistanceCall("stop", s, None, "stop"))
     /\ UNCHANGED <<maps, answers>>
  \/ /\ timeBased[s] = None /\ distanceBased[s] = None
     /\ Tell(s, "stop", "failure")
     /\ UNCHANGED <<maps, api>>

(* A client may go on with a session when its requests are answered, or    *)
(* when it does not wait for the last answer; it is done with one that it  *)
(* stopped                                                                 *)
MayGoOn(s) ==
  Len(asked[s]) > Len(answers[s]) => Last(asked[s]) \in Impatient

Ask(s, request) ==
  /\ Owner[s] \in clients
  /\ request = "start" <=> asked[s] = <<>>
  /\ request # "start" => Last(asked[s]) # "stop"
  /\ Len(api) + Len(inbox) < MaxQueue
  /\ MayGoOn(s)
  /\ FoldFunction(LAMBDA q, n : Len(q) + n, 0, asked) < MaxRequests
  /\ asked' = [asked EXCEPT ![s] = Append(@, request)]
  /\ UNCHANGED <<power, known, clients, inbox, modem, locked, failed, events>>

StartTrackingCommand(s, opt) == Ask(s, "start") /\ StartTracking(s, opt)
UpdateTrackingCommand(s, opt) == Ask(s, "update") /\ UpdateTracking(s, opt)
StopTrackingCommand(s) == Ask(s, "stop") /\ StopTracking(s) /\ UNCHANGED pending

(* stopClientSessions and eraseClient: time based sessions one after the   *)
(* other, each erased before the next is stopped                           *)
RemoveClient(c) ==
  LET mine == {s \in Session : Owner[s] = c}
      time == SetToSeq(mine \cap SessionsOf(timeBased))
      distance == SetToSeq(mine \cap SessionsOf(distanceBased))
      left(i) == [s \in Session |->
                    IF \E j \in 1..(i - 1) : time[j] = s THEN None ELSE timeBased[s]]
  IN /\ c \in clients
     /\ \A s \in mine : MayGoOn(s)
     /\ clients' = clients \ {c}
     /\ timeBased' = left(Len(time) + 1)
     /\ api' = api
          \o FlattenSeq([i \in DOMAIN time |-> StopMultiplex(left(i), time[i], "stop").calls])
          \o [i \in DOMAIN distance |-> DistanceCall("stop", distance[i], None, "gone")]
     /\ UNCHANGED <<distanceBased, power, known, pending, inbox, modem, locked,
                    asked, answers, failed, events>>

-----------------------------------------------------------------------------
(* Power events, the engine lock and modem restarts *)

Count(kind) == events' = [events EXCEPT ![kind] = @ + 1]
MayHappen ==
  events["power"] + events["lock"] + events["restart"] + events["refusal"] < MaxEvents

(* The calls of updateSystemPowerState, for the state it sets *)
PowerCalls(p, order) ==
  CASE p = "suspended" -> SuspendCalls
    [] p = "awake" -> RestartCalls(order)
    [] OTHER -> <<>>

(* The first event is a suspend or a resume; a resume after a suspend is   *)
(* not bounded                                                             *)
UpdateSystemPowerState(p) ==
  /\ p # power
  /\ Suspended \/ MayHappen
  /\ Count("power")
  /\ power' = p
  /\ \E order \in MapOrders : api' = api \o PowerCalls(p, order)
  /\ UNCHANGED <<maps, known, pending, clients, inbox, modem, locked, asked,
                 answers, failed>>

(* The modem locks its engine, which ends its sessions, or unlocks it *)
EngineLock(lock) ==
  /\ up
  /\ lock # locked
  /\ lock => MayHappen
  /\ Count("lock")
  /\ locked' = lock
  /\ engineTime' = IF lock THEN None ELSE engineTime
  /\ engineDistance' = IF lock THEN {} ELSE engineDistance
  /\ inbox' = Append(inbox, [kind |-> "lock", locked |-> lock])
  /\ UNCHANGED <<maps, power, known, pending, clients, api, up, asked, answers, failed>>

ModemDown ==
  /\ up
  /\ MayHappen
  /\ Count("restart")
  /\ up' = FALSE
  /\ engineTime' = None
  /\ engineDistance' = {}
  /\ UNCHANGED <<maps, power, known, pending, clients, queues, locked, asked,
                 answers, failed>>

(* The LocApi learns of the lock before it reports that the engine is up *)
ModemUp ==
  /\ ~up
  /\ up' = TRUE
  /\ locked' \in {locked, FALSE}
  /\ inbox' = Append(inbox, [kind |-> "up"])
  /\ UNCHANGED <<maps, power, known, pending, clients, api, engineTime,
                 engineDistance, asked, answers, failed, events>>

-----------------------------------------------------------------------------
(* The LocApi and the modem, which does what it is asked in order *)

Answer(ok) ==
  /\ api' = Tail(api)
  /\ inbox' = IF Head(api).request = "none" THEN inbox
              ELSE Append(inbox, [kind |-> "reply", call |-> Head(api), ok |-> ok])

ApiCall ==
  /\ api # <<>>
  /\ up
  /\ LET call == Head(api) IN
     /\ call.cmd = "start" => ~locked
     /\ \/ /\ call.by = "time"
           /\ engineTime' = IF call.cmd = "start" THEN call.interval ELSE None
           /\ UNCHANGED engineDistance
        \/ /\ call.by = "distance"
           /\ engineDistance' = IF call.cmd = "start"
                                THEN engineDistance \cup {call.s}
                                ELSE engineDistance \ {call.s}
           /\ UNCHANGED engineTime
  /\ Answer(TRUE)
  /\ UNCHANGED <<maps, power, known, pending, clients, up, locked, asked, answers,
                 failed, events>>

(* The modem is not there, or may not start anything *)
ApiFail ==
  /\ api # <<>>
  /\ ~up \/ (locked /\ Head(api).cmd = "start")
  /\ failed' = TRUE
  /\ Answer(FALSE)
  /\ UNCHANGED <<maps, power, known, pending, clients, modem, locked, asked,
                 answers, events>>

ApiRefuse ==
  /\ api # <<>>
  /\ up /\ ~locked
  /\ MayHappen
  /\ Count("refusal")
  /\ failed' = TRUE
  /\ Answer(FALSE)
  /\ UNCHANGED <<maps, power, known, pending, clients, modem, locked, asked,
                 answers>>

-----------------------------------------------------------------------------
(* The message thread *)

Receive(kind) ==
  /\ inbox # <<>>
  /\ Head(inbox).kind = kind

ReceiveReply(requests) ==
  /\ Receive("reply")
  /\ Head(inbox).call.request \in requests
  /\ inbox' = Tail(inbox)

(* The answer to startTimeBasedTracking, also when it was called to stop a *)
(* session, and to stopTracking                                            *)
HandleTimeReply ==
  LET call == Head(inbox).call
      ok == Head(inbox).ok
  IN /\ ReceiveReply(Request)
     /\ call.by = "time" /\ call.old = None
     /\ IF call.cmd = "start" /\ ~locked /\ ~ok THEN Erase(call.s) ELSE UNCHANGED maps
     /\ Tell(call.s, call.request, Status(ok))
     /\ UNCHANGED <<power, known, pending, clients, api, modem, locked, asked,
                    failed, events>>

(* The answer to updateTracking *)
HandleUpdateReply ==
  LET call == Head(inbox).call
      ok == Head(inbox).ok
  IN /\ ReceiveReply({"update"})
     /\ call.by = "time" /\ call.old # None
     /\ IF ~locked /\ ~ok THEN Save(call.s, call.old) ELSE UNCHANGED maps
     /\ Tell(call.s, call.request, Status(ok))
     /\ UNCHANGED <<power, known, pending, clients, api, modem, locked, asked,
                    failed, events>>

(* Mutant: the client hears of success only *)
MutantHandleDistanceReply ==
  LET call == Head(inbox).call
      ok == Head(inbox).ok
      erase == CASE call.request = "start" -> ~locked /\ ~ok
                 [] call.request = "stop" -> locked \/ ok
                 [] call.request = "gone" -> ok
  IN /\ ReceiveReply({"start", "stop", "gone"})
     /\ call.by = "distance"
     /\ IF erase THEN Erase(call.s) ELSE UNCHANGED maps
     /\ Tell(call.s, call.request,
             IF call.request = "gone" \/ ~ok THEN "later" ELSE "success")
     /\ UNCHANGED <<power, known, pending, clients, api, modem, locked, asked,
                    failed, events>>

(* The answers to startDistanceBasedTracking and stopDistanceBasedTracking *)
(* of a start, a stop and a client that is gone                            *)
HandleDistanceReply ==
  LET call == Head(inbox).call
      ok == Head(inbox).ok
      erase == CASE call.request = "start" -> ~locked /\ ~ok
                 [] call.request = "stop" -> locked \/ ok
                 [] call.request = "gone" -> ok
  IN /\ ReceiveReply({"start", "stop", "gone"})
     /\ call.by = "distance"
     /\ IF erase THEN Erase(call.s) ELSE UNCHANGED maps
     /\ Tell(call.s, call.request, IF call.request = "gone" THEN "later" ELSE Status(ok))
     /\ UNCHANGED <<power, known, pending, clients, api, modem, locked, asked,
                    failed, events>>

(* The answers within an update of a distance based session: stopped, then *)
(* started with the new options, which are saved only then                 *)
HandleDistanceUpdateReply ==
  LET call == Head(inbox).call
      ok == Head(inbox).ok
  IN /\ ReceiveReply({"update"})
     /\ call.by = "distance"
     /\ \/ /\ call.cmd = "stop"
           /\ api' = IF ok THEN Append(api, DistanceCall("start", call.s, call.opt, "update"))
                     ELSE api
           /\ UNCHANGED <<maps, answers>>
        \/ /\ call.cmd = "start"
           /\ IF locked \/ ok THEN Save(call.s, call.opt) ELSE UNCHANGED maps
           /\ Tell(call.s, call.request, Status(ok))
           /\ UNCHANGED api
     /\ UNCHANGED <<power, known, pending, clients, modem, locked, asked,
                    failed, events>>

(* A distance based session was stopped, to go on as a time based one *)
HandleSwitchReply ==
  LET call == Head(inbox).call
      todo == StartMultiplex(call.s, call.opt, "update")
  IN /\ ReceiveReply({"switch"})
     /\ api' = api \o todo.calls
     /\ Tell(call.s, "update", todo.status)
     /\ Save(call.s, call.opt)
     /\ UNCHANGED <<power, known, pending, clients, modem, locked, asked,
                    failed, events>>

(* A request that waited for the engine's capabilities *)
HandlePending ==
  LET msg == Head(inbox)
  IN /\ Receive("message")
     /\ inbox' = Tail(inbox)
     /\ \/ msg.request = "start" /\ StartTracking(msg.s, msg.opt)
        \/ msg.request = "update" /\ UpdateTracking(msg.s, msg.opt)
     /\ UNCHANGED <<power, known, clients, modem, locked, asked, failed, events>>

(* handleEngineUpEvent: updateSystemPowerState with the state it has, then *)
(* the pending messages and restartSessions                                *)
HandleEngineUp ==
  /\ Receive("up")
  /\ known' = TRUE
  /\ inbox' = IF locked THEN Tail(inbox) ELSE Tail(inbox) \o pending
  /\ pending' = IF locked THEN pending ELSE <<>>
  /\ \E order \in MapOrders :
       api' = api \o PowerCalls(power, order)
                  \o (IF locked \/ Suspended THEN <<>> ELSE RestartCalls(order))
  /\ UNCHANGED <<maps, power, clients, modem, locked, asked, answers, failed, events>>

(* handleEngineLockStatus *)
HandleEngineLockStatus ==
  /\ Receive("lock")
  /\ LET lock == Head(inbox).locked IN
     /\ inbox' = IF lock THEN Tail(inbox) ELSE Tail(inbox) \o pending
     /\ pending' = IF lock THEN pending ELSE <<>>
     /\ \E order \in MapOrders :
          api' = api \o (IF lock \/ Suspended THEN <<>> ELSE RestartCalls(order))
  /\ UNCHANGED <<maps, power, known, clients, modem, locked, asked, answers,
                 failed, events>>

-----------------------------------------------------------------------------
(* The specification *)

(* Before the modem is up nothing is known of it and the lock is not known *)
(* to be open                                                              *)
Init ==
  /\ timeBased = [s \in Session |-> None]
  /\ distanceBased = [s \in Session |-> None]
  /\ power = "unknown"
  /\ known = FALSE
  /\ pending = <<>>
  /\ clients = Client
  /\ api = <<>>
  /\ inbox = <<>>
  /\ up = FALSE
  /\ locked = TRUE
  /\ engineTime = None
  /\ engineDistance = {}
  /\ asked = [s \in Session |-> <<>>]
  /\ answers = [s \in Session |-> <<>>]
  /\ failed = FALSE
  /\ events = [kind \in EventKind |-> 0]

ClientNext ==
  \/ \E s \in Session, opt \in Option : StartTrackingCommand(s, opt)
  \/ \E s \in Session, opt \in Option : UpdateTrackingCommand(s, opt)
  \/ \E s \in Session : StopTrackingCommand(s)
  \/ \E c \in Client : RemoveClient(c)

EnvironmentNext ==
  \/ \E p \in {"suspended", "awake"} : UpdateSystemPowerState(p)
  \/ \E lock \in BOOLEAN : EngineLock(lock)
  \/ ModemDown
  \/ ModemUp

ApiNext == ApiCall \/ ApiFail \/ ApiRefuse

MsgTaskNext ==
  \/ HandleTimeReply
  \/ HandleUpdateReply
  \/ HandleDistanceReply
  \/ HandleDistanceUpdateReply
  \/ HandleSwitchReply
  \/ HandlePending
  \/ HandleEngineUp
  \/ HandleEngineLockStatus

Next == ClientNext \/ EnvironmentNext \/ ApiNext \/ MsgTaskNext

Spec == Init /\ [][Next]_vars

-----------------------------------------------------------------------------
(* Properties *)

(* Nothing is under way, and the engine may run *)
Quiet == api = <<>> /\ inbox = <<>> /\ pending = <<>>
EngineReady == up /\ ~locked /\ ~Suspended
Undisturbed == \A kind \in EventKind : events[kind] = 0
Refused == events["refusal"] > 0

(* With nothing under way the modem serves every session the adapter       *)
(* keeps: the time based ones at their smallest interval, however          *)
(* requests, answers, power events, locks and restarts overlap             *)
(* (startTimeBasedTrackingMultiplex, restartSessions,                      *)
(* GnssAdapter.cpp:3288-3325 and 3630-3682).                               *)
SessionsAreServed ==
  Quiet /\ EngineReady /\ ~Refused =>
    /\ SessionsOf(timeBased) # {} =>
         engineTime # None /\ engineTime <= Wanted(timeBased)
    /\ SessionsOf(distanceBased) \subseteq engineDistance

(* The modem runs no more than that, which matters for the battery, unless *)
(* a call failed: the answer may erase a session that a restart is just    *)
(* starting again.  A distance based session may also be started again by  *)
(* a power event, a lock or a restart while it is being stopped.           *)
NothingRunsForNobody ==
  Quiet /\ EngineReady /\ ~failed =>
    /\ engineTime = Wanted(timeBased)
    /\ Undisturbed => engineDistance = SessionsOf(distanceBased)

(* The modem ends up running what the clients' sessions need, and no more  *)
(* (GnssAdapter.cpp:3311-3335, 3648-3682 and 4012-4072).                   *)
ModemRunsTheSessions == SessionsAreServed /\ NothingRunsForNobody

(* No request is answered twice, not by the handler and by the reply       *)
(* (reportToClientWithNoWait), nor by two replies.                         *)
AnsweredOnce == \A s \in Session : Len(answers[s]) <= Len(asked[s])

(* Every request of a client that is still there is answered, but for the  *)
(* update of a distance based session that the modem does not stop         *)
(* (GnssAdapter.cpp:3876-3892).                                            *)
EveryRequestAnswered ==
  Quiet /\ ~Refused /\ events["restart"] = 0 =>
    \A s \in Session : Owner[s] \in clients => Len(answers[s]) = Len(asked[s])

(* A client gets one answer to each request (reportResponse,               *)
(* GnssAdapter.cpp:3487-3500).                                             *)
RequestsAreAnswered == AnsweredOnce /\ EveryRequestAnswered

(* A session whose last request is a stop that succeeded does not come     *)
(* back: no late answer of the modem saves it again (MsgStopTracking,      *)
(* GnssAdapter.cpp:3958-4010).                                             *)
StoppedStaysStopped ==
  \A s \in Session :
    /\ Len(asked[s]) > 0 /\ Last(asked[s]) = "stop"
    /\ Len(answers[s]) > 0
    /\ Last(answers[s]) = [request |-> "stop", status |-> "success"]
    => timeBased[s] = None /\ distanceBased[s] = None

(* A session is in one of the two maps: eraseTrackingSession looks into    *)
(* the second only if it is not in the first (GnssAdapter.cpp:3440-3456).  *)
OneMap == \A s \in Session : timeBased[s] = None \/ distanceBased[s] = None

(* A client that is gone leaves no session (stopClientSessions).           *)
GoneClientsLeaveNothing ==
  Quiet /\ ~Refused /\ events["restart"] = 0 => \A s \in Session :
    Owner[s] \notin clients => timeBased[s] = None /\ distanceBased[s] = None

(* A session ends when its client stops it or goes away, in the one map it *)
(* is in, whatever answers were still to come (GnssAdapter.cpp:3439-3456,  *)
(* 3958-4010).                                                             *)
EndedSessionsStayEnded == StoppedStaysStopped /\ OneMap /\ GoneClientsLeaveNothing

(* What the client is told of a start, "LOCATION_ERROR_SUCCESS if session   *)
(* was successfully started" (LocationAPI.h:78): with nothing else going    *)
(* on, a session that is started and never touched again is served.        *)
StartedIsServed ==
  /\ Quiet /\ EngineReady /\ events["restart"] + events["power"] = 0
  => \A s \in Session :
       /\ asked[s] = <<"start">> /\ Owner[s] \in clients
       /\ answers[s] = <<[request |-> "start", status |-> "success"]>>
       => \/ s \in engineDistance
          \/ /\ timeBased[s] # None /\ engineTime # None
             /\ engineTime <= timeBased[s].interval

=============================================================================
