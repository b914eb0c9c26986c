------------------------------ MODULE Batching ------------------------------
(***************************************************************************)
(* The batching sessions of BatchingAdapter (batching/BatchingAdapter.cpp, *)
(* batching/BatchingAdapter.h).                                            *)
(*                                                                         *)
(* Routine sessions, reported when the batch is full, and sessions without *)
(* automatic reports run in the modem one by one.  Trips, reported when a  *)
(* distance is covered, share one trip of the modem, which the adapter     *)
(* restarts with the smallest distance that is left and the smallest       *)
(* interval whenever a trip joins, ends or is stopped.  Every call to the  *)
(* modem is answered in a message of its own.                              *)
(*                                                                         *)
(* As in Tracking a request of a client is handled in one step.  A handler *)
(* changes several variables one after the other and may call others, so   *)
(* handlers are functions of the adapter's state, a record; Become makes   *)
(* their result the next state.  Requests refused for their parameters,    *)
(* which nobody is told of, and getBatchedLocations, which changes         *)
(* nothing, are left out.                                                  *)
(***************************************************************************)
EXTENDS Integers, FiniteSets, SequencesExt

CONSTANTS
  Session,      \* session ids, generated in order (generateSessionId)
  Client,       \* LocationAPI objects
  Owner,        \* the client that starts each session
  Option,       \* BatchingOptions clients use
  None,         \* no session, no options
  Modulus,      \* 2^32, the range of uint32_t
  Impatient,    \* requests whose answer clients do not always wait for
  MaxQueue,     \* bound: clients wait while this much is under way
  MaxEvents,    \* bound: all that happens, but for unlocks and resumes
  MaxMoves      \* bound: how far the device moves

Request == {"start", "update", "stop"}
Mode == {"routine", "no_auto", "trip"}

ASSUME OwnerAssumption == Session \subseteq Nat /\ Owner \in [Session -> Client]
ASSUME OptionAssumption ==
  Option \subseteq [mode: Mode, distance: 0..(Modulus - 1), interval: Nat]
ASSUME NoneAssumption == None \notin Session /\ None \notin Option
ASSUME BoundsAssumption ==
  /\ Impatient \subseteq Request
  /\ Modulus \in Nat \ {0} /\ MaxQueue \in Nat
  /\ MaxEvents \in Nat /\ MaxMoves \in Nat

VARIABLES
  sessions,     \* mBatchingSessions
  trips,        \* mTripSessions
  ongoing,      \* mOngoingTripDistance and mOngoingTripTBFInterval
  dropped,      \* which of the two belonged to a trip that ended
  full,         \* LOC_API_ADAPTER_BIT_BATCH_FULL is registered
  suspended,    \* mSystemPowerState is one of the sleeping states
  known,        \* mIsEngineCapabilitiesKnown
  pending,      \* mPendingMsgs
  clients,      \* clients that are not gone (mClientData)
  api,          \* calls the LocApi has not done yet
  inbox,        \* what the message thread has not handled yet
  up,           \* the modem is there
  locked,       \* mEngineLockState is ENGINE_LOCK_STATE_DISABLED
  engine,       \* the sessions the modem batches, but for trips
  engineTrip,   \* the modem's trip
  asked,        \* requests made so far for each session, the last of them
  answers,      \* and the answers to them
  missed,       \* a handler counted on a trip that was not there any more
  events,       \* requests, clients that went, power events, changes of the
                \* lock, restarts and refusals so far
  moves         \* how far the device has moved

adapter == <<sessions, trips, ongoing, dropped, full, missed>>
modem == <<up, engine, engineTrip>>
vars == <<adapter, suspended, known, pending, clients, api, inbox, modem, locked,
          asked, answers, events, moves>>

-----------------------------------------------------------------------------
(* Types *)

EventKind == {"request", "gone", "power", "lock", "restart", "refusal"}
Field == {"distance", "interval"}
Distance == 0..(Modulus - 1)
Target == [distance: Distance, interval: Nat]

(* The options a stop without update carries: BatchingOptions() *)
DefaultOption == [mode |-> "routine", distance |-> 0, interval |-> 0]
AnyOption == Option \cup {DefaultOption}

(* joined, covered and before are accumulatedDistanceOngoingBatch,         *)
(* accumulatedDistanceThisTrip and accumulatedDistanceOnTripRestart        *)
Trip == [joined: Distance, covered: Distance, before: Distance,
         distance: Distance, interval: Nat]

(* restart: silently, for a session that is in the map; join, balance:     *)
(* query the distance; speedUp, rebalance: restart the trip                *)
Command == {"start", "restart", "stop", "startTrip", "restartTrips", "stopTrip",
            "endTrip", "join", "speedUp", "balance", "rebalance"}
Call == [cmd: Command, s: Session \cup {None}, opt: AnyOption \cup {None},
         old: AnyOption \cup {None}, update: BOOLEAN, erase: BOOLEAN,
         target: Target, moved: Distance \cup {None}]
Reply == [kind: {"reply"}, call: Call, ok: BOOLEAN, moved: Distance]
Message == [kind: {"message"}, request: Request, s: Session, opt: AnyOption]
Event == [kind: {"up"}] \cup [kind: {"lock"}, locked: BOOLEAN]
         \cup [kind: {"completed"}, moved: Distance]

TypeOK ==
  /\ sessions \in [Session -> AnyOption \cup {None}]
  /\ trips \in [Session -> Trip \cup {None}]
  /\ ongoing \in Target
  /\ dropped \in SUBSET Field
  /\ full \in BOOLEAN /\ suspended \in BOOLEAN /\ known \in BOOLEAN
  /\ pending \in Seq(Message)
  /\ clients \in SUBSET Client
  /\ api \in Seq(Call)
  /\ inbox \in Seq(Reply \cup Message \cup Event)
  /\ up \in BOOLEAN /\ locked \in BOOLEAN
  /\ engine \in SUBSET Session
  /\ engineTrip = None \/ engineTrip \in [target: Target, moved: Distance]
  /\ asked \in [Session -> Seq(Request)]
  /\ answers \in [Session -> Seq([request: Request, ok: BOOLEAN])]
  /\ missed \in BOOLEAN
  /\ events \in [EventKind -> Nat]
  /\ moves \in Nat

-----------------------------------------------------------------------------
(* The adapter's state *)

Now == [sessions |-> sessions, trips |-> trips, ongoing |-> ongoing,
        dropped |-> dropped, full |-> full, missed |-> missed,
        calls |-> <<>>, told |-> <<>>]

(* a's calls go to the LocApi, and clients that are not gone get its       *)
(* answers (reportResponse)                                                *)
Become(a) ==
  /\ sessions' = a.sessions /\ trips' = a.trips /\ ongoing' = a.ongoing
  /\ dropped' = a.dropped /\ full' = a.full /\ missed' = a.missed
  /\ api' = api \o a.calls
  /\ answers' = [s \in Session |->
       IF Owner[s] \notin clients THEN answers[s]
       ELSE LET mine == SelectSeq(a.told, LAMBDA t : t.s = s)
            IN answers[s] \o [i \in DOMAIN mine |->
                                [request |-> mine[i].request, ok |-> mine[i].ok]]]

(* The answer does not tell the client which request it is for *)
Tell(a, s, request, ok) ==
  [a EXCEPT !.told = Append(@, [s |-> s, request |-> request, ok |-> ok])]
StopOrUpdate(update) == IF update THEN "update" ELSE "stop"

Ask(a, call) == [a EXCEPT !.calls = Append(@, call)]

InMap(map) == {s \in Session : map[s] # None}

(* autoReportBatchingSessionsCount: a trip may count once in either map *)
AutoReports(a) ==
  Cardinality({s \in InMap(a.sessions) : a.sessions[s].mode # "no_auto"})
    + Cardinality(InMap(a.trips))

(* Mutant: a difference may be negative *)
MutantMinus(m, n) == m - n

(* Differences of uint32_t *)
Minus(m, n) == (m - n) % Modulus

(* The loops for a minimum start with 0, which stands for none so far: a 0 *)
(* on the way makes them start again                                       *)
Least(S, f) ==
  LET zeros == {s \in S : f[s] = 0}
      rest == {s \in S : \A z \in zeros : z < s}
  IN IF rest = {} THEN 0 ELSE Min({f[s] : s \in rest})

LeastTarget(a) ==
  LET S == InMap(a.trips) IN
  [distance |-> Least(S, [s \in S |-> Minus(a.trips[s].distance, a.trips[s].covered)]),
   interval |-> Least(S, [s \in S |-> a.trips[s].interval])]

NoTarget == [distance |-> 0, interval |-> 0]

ToCall(cmd, s, opt) ==
  [cmd |-> cmd, s |-> s, opt |-> opt, old |-> None, update |-> FALSE,
   erase |-> FALSE, target |-> NoTarget, moved |-> None]

-----------------------------------------------------------------------------
(* Starts and stops of routine sessions *)

(* startBatching: assume that it will be OK *)
StartRoutine(a, s, opt) ==
  Ask([a EXCEPT !.full = @ \/ (opt.mode # "no_auto" /\ AutoReports(a) = 0),
                !.sessions[s] = opt],
      ToCall("start", s, opt))

(* Mutant: the session is not erased *)
MutantStopRoutine(a, s, update, opt, erase) ==
  IF a.sessions[s] = None THEN a
  ELSE Ask(a, [ToCall("stop", s, opt) EXCEPT !.old = a.sessions[s], !.update = update,
                                             !.erase = erase])

(* stopBatching: assume that it will be OK *)
StopRoutine(a, s, update, opt, erase) ==
  IF a.sessions[s] = None THEN a
  ELSE Ask([a EXCEPT !.sessions[s] = IF erase THEN None ELSE @],
           [ToCall("stop", s, opt) EXCEPT !.old = a.sessions[s], !.update = update,
                                          !.erase = erase])

-----------------------------------------------------------------------------
(* Starts and stops of trips *)

(* startTripBatchingMultiplex: the first starts the modem's trip, another  *)
(* one asks how far that has come                                          *)
StartTrip(a, s, opt) ==
  IF InMap(a.trips) # {} THEN Ask(a, ToCall("join", s, opt))
  ELSE Ask([a EXCEPT !.full = @ \/ AutoReports(a) = 0,
                     !.sessions[s] = opt,
                     !.trips[s] = [joined |-> 0, covered |-> 0, before |-> 0,
                                   distance |-> opt.distance,
                                   interval |-> opt.interval]],
           ToCall("startTrip", s, opt))

Start(a, s, opt) ==
  IF opt.mode = "trip" THEN StartTrip(a, s, opt) ELSE StartRoutine(a, s, opt)

(* The answer to queryAccumulatedTripDistance of a trip that joins.  It is *)
(* not saved in mBatchingSessions, and nowhere if the query failed.        *)
Joined(a, s, opt, ok, moved) ==
  LET left == IF ok THEN Minus(a.ongoing.distance, moved) ELSE a.ongoing.distance
      sooner == opt.interval < a.ongoing.interval
      shorter == opt.distance < left
      new == [distance |-> IF shorter THEN opt.distance ELSE left,
              interval |-> IF sooner THEN opt.interval ELSE a.ongoing.interval]
      base == [a EXCEPT !.missed = @ \/ InMap(a.trips) = {} \/ a.ongoing = NoTarget]
      saved == IF ok
               THEN [base EXCEPT !.trips[s] =
                       [joined |-> moved, covered |-> 0, before |-> 0,
                        distance |-> opt.distance, interval |-> opt.interval]]
               ELSE base
  IN IF sooner \/ shorter
     THEN Ask([saved EXCEPT !.ongoing = new,
                            !.trips = [t \in Session |->
                               IF @[t] = None THEN None
                               ELSE [@[t] EXCEPT !.joined = 0,
                                                 !.before = saved.trips[t].covered]]],
              [ToCall("speedUp", s, opt) EXCEPT !.target = new])
     ELSE Tell(saved, s, "start", TRUE)

(* Mutant: with one trip left there is nothing to restart *)
MutantRestartTrips(a, moved) ==
  IF Cardinality(InMap(a.trips)) < 2
  THEN Ask([a EXCEPT !.ongoing = NoTarget,
                     !.full = @ /\ AutoReports(a) # 0],
           ToCall("endTrip", None, None))
  ELSE Ask(a, [ToCall("balance", None, None) EXCEPT
                 !.target = LeastTarget(a), !.moved = moved])

(* restartTripBatching: after a trip was stopped, when the modem is asked  *)
(* how far it came, or completed, when it reported that                    *)
RestartTrips(a, moved) ==
  IF InMap(a.trips) = {}
  THEN Ask([a EXCEPT !.ongoing = NoTarget,
                     !.full = @ /\ AutoReports(a) # 0],
           ToCall("endTrip", None, None))
  ELSE Ask(a, [ToCall("balance", None, None) EXCEPT
                 !.target = LeastTarget(a), !.moved = moved])

(* The answer to its query *)
Balanced(a, least, moved) ==
  LET left == Minus(a.ongoing.distance, moved)
      restDistance == IF "distance" \notin a.dropped /\ left # 0
                      THEN least.distance < left
                      ELSE least.distance # 0
      restInterval == \/ least.interval < a.ongoing.interval
                      \/ least.interval # a.ongoing.interval /\ "interval" \in a.dropped
      new == [distance |-> IF restDistance THEN least.distance ELSE a.ongoing.distance,
              interval |-> IF restInterval THEN least.interval ELSE a.ongoing.interval]
  IN IF restDistance \/ restInterval
     THEN Ask([a EXCEPT !.missed = @ \/ InMap(a.trips) = {}],
              [ToCall("rebalance", None, None) EXCEPT !.target = new, !.moved = moved])
     ELSE a

(* The answer to reStartOutdoorTripBatching of that *)
Rebalanced(a, target, moved) ==
  [a EXCEPT !.ongoing = target,
            !.trips = [s \in Session |->
               IF @[s] = None THEN None
               ELSE LET covered == (@[s].before + Minus(moved, @[s].joined)) % Modulus
                    IN [@[s] EXCEPT !.covered = covered, !.joined = 0,
                                    !.before = covered]]]

(* stopTripBatchingMultiplexCommon.  A trip that is not there any more is  *)
(* looked up all the same: what it has in common with the ongoing one is   *)
(* whatever the memory holds, odd.  A trip that is not erased, because the *)
(* device suspends, is balanced with the others, and runs again.           *)
StopTripCommon(a, s, ok, update, opt, erase, odd) ==
  LET trip == a.trips[s]
      shared == IF trip = None THEN odd
                ELSE {f \in Field : trip[f] = a.ongoing[f]}
      left == [a EXCEPT !.missed = @ \/ trip = None,
                        !.dropped = @ \cup shared,
                        !.trips[s] = IF erase THEN None ELSE @]
      rest == IF InMap(left.trips) = {} THEN [left EXCEPT !.ongoing = NoTarget]
              ELSE RestartTrips(left, None)
      done == IF update THEN Start([rest EXCEPT !.sessions[s] = None], s, opt)
              ELSE rest
  IN Tell(done, s, StopOrUpdate(update), ok)

(* stopTripBatchingMultiplex *)
StopTrip(a, s, update, opt, erase, odd) ==
  IF Cardinality(InMap(a.trips)) = 1
  THEN Ask(a, [ToCall("stopTrip", s, opt) EXCEPT !.update = update, !.erase = erase])
  ELSE StopTripCommon(a, s, TRUE, update, opt, erase, odd)

-----------------------------------------------------------------------------
(* All sessions of a client, and all there are *)

ById(S) == SetToSortSeq(S, <)

(* stopClientSessions *)
StopClient(a, c, erase, odd) ==
  LET Stop(b, s) ==
        IF a.sessions[s].mode = "trip"
        THEN StopTrip(b, s, FALSE, DefaultOption, erase, odd)
        ELSE StopRoutine(b, s, FALSE, DefaultOption, erase)
  IN FoldLeft(Stop, a, ById({s \in InMap(a.sessions) : Owner[s] = c}))

(* suspendBatchingSessions: a client's sessions once for each of them *)
Suspend(a, odd) ==
  FoldLeft(LAMBDA b, s : StopClient(b, Owner[s], FALSE, odd), a, ById(InMap(a.sessions)))

(* Mutant: sessions that are read on demand are not restarted *)
MutantRestart(a) ==
  LET routine == ById({s \in InMap(a.sessions) : a.sessions[s].mode = "routine"})
      started == [a EXCEPT !.full = @ \/ AutoReports(a) > 0,
                           !.calls = @ \o [i \in DOMAIN routine |->
                              ToCall("restart", routine[i], a.sessions[routine[i]])]]
  IN IF InMap(a.trips) = {} THEN started
     ELSE Ask([started EXCEPT !.ongoing = LeastTarget(a)],
              [ToCall("restartTrips", None, None) EXCEPT !.target = LeastTarget(a)])

(* restartSessions *)
Restart(a) ==
  LET routine == ById({s \in InMap(a.sessions) : a.sessions[s].mode # "trip"})
      started == [a EXCEPT !.full = @ \/ AutoReports(a) > 0,
                           !.calls = @ \o [i \in DOMAIN routine |->
                              ToCall("restart", routine[i], a.sessions[routine[i]])]]
  IN IF InMap(a.trips) = {} THEN started
     ELSE Ask([started EXCEPT !.ongoing = LeastTarget(a)],
              [ToCall("restartTrips", None, None) EXCEPT !.target = LeastTarget(a)])

-----------------------------------------------------------------------------
(* The handlers of the clients' requests *)

Stop(s) ==
  \E odd \in SUBSET Field :
    Become(IF trips[s] # None THEN StopTrip(Now, s, FALSE, DefaultOption, TRUE, odd)
           ELSE StopRoutine(Now, s, FALSE, DefaultOption, TRUE))

Update(s, opt) ==
  \E odd \in SUBSET Field :
    Become(IF trips[s] # None THEN StopTrip(Now, s, TRUE, opt, TRUE, odd)
           ELSE StopRoutine(Now, s, TRUE, opt, TRUE))

(* MsgStartBatching, MsgUpdateBatching and MsgStopBatching: nothing else   *)
(* happens, and nobody is told, if the client or the session is unknown    *)
Proc(request, s, opt) ==
  \/ /\ ~known
     /\ pending' = Append(pending, [kind |-> "message", request |-> request,
                                    s |-> s, opt |-> opt])
     /\ UNCHANGED <<adapter, api, answers>>
  \/ /\ known
     /\ UNCHANGED pending
     /\ \/ request = "start" /\ Owner[s] \in clients /\ Become(Start(Now, s, opt))
        \/ request = "update" /\ sessions[s] # None /\ Update(s, opt)
        \/ request = "stop" /\ sessions[s] # None /\ Stop(s)
        \/ /\ IF request = "start" THEN Owner[s] \notin clients ELSE sessions[s] = None
           /\ UNCHANGED <<adapter, api, answers>>

Count(kind) == events' = [events EXCEPT ![kind] = @ + 1]
MayHappen ==
  events["request"] + events["gone"] + events["power"] + events["lock"]
    + events["restart"] + events["refusal"] < MaxEvents

(* A client may go on with a session when it has as many answers as it     *)
(* made requests, or when it does not wait for the last one; it is done    *)
(* with one that it stopped                                                *)
MayGoOn(s) ==
  Len(asked[s]) > Len(answers[s]) => Last(asked[s]) \in Impatient

ClientAsks(request, s, opt) ==
  /\ Owner[s] \in clients
  /\ request = "start" <=> asked[s] = <<>>
  /\ request # "start" => Last(asked[s]) # "stop"
  /\ Len(api) + Len(inbox) + Len(pending) < MaxQueue
  /\ MayGoOn(s)
  /\ MayHappen
  /\ Count("request")
  /\ asked' = [asked EXCEPT ![s] = Append(@, request)]
  /\ Proc(request, s, opt)
  /\ UNCHANGED <<suspended, known, clients, inbox, modem, locked, moves>>

StartBatchingCommand(s, opt) == ClientAsks("start", s, opt)
UpdateBatchingOptionsCommand(s, opt) == ClientAsks("update", s, opt)
StopBatchingCommand(s) == ClientAsks("stop", s, DefaultOption)

(* removeClientCommand: stopClientSessions, then eraseClient, which        *)
(* registers for what is wanted by the sessions that are left              *)
(* (updateClientsEventMask)                                                *)
RemoveClient(c) ==
  /\ c \in clients
  /\ \A s \in Session : Owner[s] = c => MayGoOn(s)
  /\ MayHappen
  /\ Count("gone")
  /\ clients' = clients \ {c}
  /\ \E odd \in SUBSET Field :
       LET a == StopClient(Now, c, TRUE, odd)
       IN Become([a EXCEPT !.full = AutoReports(a) > 0])
  /\ UNCHANGED <<suspended, known, pending, inbox, modem, locked, asked, moves>>

-----------------------------------------------------------------------------
(* Power events, the engine lock, modem restarts and the way of the device *)

(* A resume after a suspend is not bounded *)
UpdateSystemPowerState(suspend) ==
  /\ (suspended /\ ~suspend) \/ MayHappen
  /\ Count("power")
  /\ suspended' = suspend
  /\ \E odd \in SUBSET Field :
       Become(IF suspend THEN Suspend(Now, odd) ELSE Restart(Now))
  /\ UNCHANGED <<known, pending, clients, inbox, modem, locked, asked, moves>>

(* The modem locks its engine, which ends its sessions, or unlocks it *)
EngineLock(lock) ==
  /\ up
  /\ lock # locked
  /\ lock => MayHappen
  /\ Count("lock")
  /\ locked' = lock
  /\ engine' = IF lock THEN {} ELSE engine
  /\ engineTrip' = IF lock THEN None ELSE engineTrip
  /\ inbox' = Append(inbox, [kind |-> "lock", locked |-> lock])
  /\ UNCHANGED <<adapter, suspended, known, pending, clients, api, up, asked,
                 answers, moves>>

ModemDown ==
  /\ up
  /\ MayHappen
  /\ Count("restart")
  /\ up' = FALSE
  /\ engine' = {}
  /\ engineTrip' = None
  /\ UNCHANGED <<adapter, suspended, known, pending, clients, api, inbox, locked,
                 asked, answers, moves>>

(* The LocApi learns of the lock before it reports that the engine is up *)
ModemUp ==
  /\ ~up
  /\ up' = TRUE
  /\ locked' \in {locked, FALSE}
  /\ inbox' = Append(inbox, [kind |-> "up"])
  /\ UNCHANGED <<adapter, suspended, known, pending, clients, api, engine, engineTrip,
                 asked, answers, events, moves>>

(* The modem reports a trip when its distance is covered *)
Move ==
  /\ engineTrip # None
  /\ engineTrip.moved < engineTrip.target.distance
  /\ moves < MaxMoves
  /\ moves' = moves + 1
  /\ engineTrip' = [engineTrip EXCEPT !.moved = @ + 1]
  /\ inbox' = IF engineTrip'.moved = engineTrip.target.distance
              THEN Append(inbox, [kind |-> "completed", moved |-> engineTrip'.moved])
              ELSE inbox
  /\ UNCHANGED <<adapter, suspended, known, pending, clients, api, up, engine, locked,
                 asked, answers, events>>

-----------------------------------------------------------------------------
(* The LocApi and the modem, which does what it is asked in order *)

Starts == {"start", "restart", "startTrip", "restartTrips", "speedUp", "rebalance"}
Queries == {"join", "balance"}

(* Nobody waits for the answer to a session's restart and the end of trips *)
Answer(ok) ==
  /\ api' = Tail(api)
  /\ inbox' = IF Head(api).cmd \in {"restart", "endTrip"} THEN inbox
              ELSE Append(inbox, [kind |-> "reply", call |-> Head(api), ok |-> ok,
                                  moved |-> IF engineTrip = None THEN 0
                                            ELSE engineTrip.moved])

ApiCall ==
  /\ api # <<>>
  /\ up
  /\ LET call == Head(api) IN
     /\ call.cmd \in Starts => ~locked
     /\ engine' = CASE call.cmd \in {"start", "restart"} -> engine \cup {call.s}
                    [] call.cmd = "stop" -> engine \ {call.s}
                    [] OTHER -> engine
     /\ engineTrip' =
          CASE call.cmd = "startTrip" ->
                 [target |-> [distance |-> call.opt.distance,
                              interval |-> call.opt.interval], moved |-> 0]
            [] call.cmd \in {"restartTrips", "speedUp", "rebalance"} ->
                 [target |-> call.target, moved |-> 0]
            [] call.cmd \in {"stopTrip", "endTrip"} -> None
            [] OTHER -> engineTrip
  /\ Answer(TRUE)
  /\ UNCHANGED <<adapter, suspended, known, pending, clients, up, locked, asked,
                 answers, events, moves>>

(* The modem is not there, may not start anything, or has no trip *)
ApiFail ==
  /\ api # <<>>
  /\ \/ ~up
     \/ locked /\ Head(api).cmd \in Starts
     \/ engineTrip = None /\ Head(api).cmd \in Queries
  /\ Answer(FALSE)
  /\ UNCHANGED <<adapter, suspended, known, pending, clients, modem, locked, asked,
                 answers, events, moves>>

ApiRefuse ==
  /\ api # <<>>
  /\ up /\ ~locked
  /\ MayHappen
  /\ Count("refusal")
  /\ Answer(FALSE)
  /\ UNCHANGED <<adapter, suspended, known, pending, clients, modem, locked, asked,
                 answers, moves>>

-----------------------------------------------------------------------------
(* The message thread *)

Receive(kind) ==
  /\ inbox # <<>>
  /\ Head(inbox).kind = kind

others == <<suspended, known, pending, clients, modem, locked, asked, events, moves>>

ReceiveReply(cmd) ==
  /\ Receive("reply")
  /\ Head(inbox).call.cmd = cmd
  /\ inbox' = Tail(inbox)
  /\ UNCHANGED others

(* The answer to startBatching *)
HandleStartReply ==
  /\ ReceiveReply("start")
  /\ LET call == Head(inbox).call
         ok == Head(inbox).ok
         a == [Now EXCEPT !.sessions[call.s] = IF ~locked /\ ~ok THEN None ELSE @]
         last == ~ok /\ call.opt.mode # "no_auto" /\ AutoReports(a) = 0
     IN Become(Tell([a EXCEPT !.full = @ /\ ~last], call.s, "start", ok))

(* Mutant: batch full is no longer registered for when any session stops *)
MutantHandleStopReply ==
  /\ ReceiveReply("stop")
  /\ LET call == Head(inbox).call
         ok == Head(inbox).ok
         back == [Now EXCEPT !.sessions[call.s] = IF call.erase THEN call.opt ELSE @]
         gone == [Now EXCEPT !.full = FALSE]
         a == IF ~locked /\ ~ok THEN back
              ELSE IF call.update THEN Start(gone, call.s, call.opt)
              ELSE gone
     IN Become(Tell(a, call.s, StopOrUpdate(call.update), ok))

(* The answer to stopBatching.  A session that is not stopped gets the     *)
(* options that the stop carries, not those that it had.                   *)
HandleStopReply ==
  /\ ReceiveReply("stop")
  /\ LET call == Head(inbox).call
         ok == Head(inbox).ok
         back == [Now EXCEPT !.sessions[call.s] = IF call.erase THEN call.opt ELSE @]
         last == AutoReports(Now) = 0 /\ call.old.mode # "no_auto"
         gone == [Now EXCEPT !.full = @ /\ ~last]
         a == IF ~locked /\ ~ok THEN back
              ELSE IF call.update THEN Start(gone, call.s, call.opt)
              ELSE gone
     IN Become(Tell(a, call.s, StopOrUpdate(call.update), ok))

(* The answer to startOutdoorTripBatching of the first trip *)
HandleStartTripReply ==
  /\ ReceiveReply("startTrip")
  /\ LET call == Head(inbox).call
         ok == Head(inbox).ok
         gone == [Now EXCEPT !.sessions[call.s] = None, !.trips[call.s] = None]
         a == IF locked \/ ok
              THEN [Now EXCEPT !.ongoing = [distance |-> call.opt.distance,
                                            interval |-> call.opt.interval]]
              ELSE [gone EXCEPT !.full = @ /\ AutoReports(gone) # 0]
     IN Become(Tell(a, call.s, "start", ok))

(* and of restartSessions *)
HandleRestartTripsReply ==
  /\ ReceiveReply("restartTrips")
  /\ Become([Now EXCEPT !.ongoing = IF Head(inbox).ok THEN @ ELSE NoTarget])

HandleJoinReply ==
  /\ ReceiveReply("join")
  /\ LET call == Head(inbox).call
     IN Become(Joined(Now, call.s, call.opt, Head(inbox).ok, Head(inbox).moved))

HandleSpeedUpReply ==
  /\ ReceiveReply("speedUp")
  /\ Become(Tell(Now, Head(inbox).call.s, "start", Head(inbox).ok))

(* The answer to stopOutdoorTripBatching of the last trip, which still     *)
(* counts as one                                                           *)
HandleStopTripReply ==
  /\ ReceiveReply("stopTrip")
  /\ LET call == Head(inbox).call
         ok == Head(inbox).ok
         a == [Now EXCEPT !.full = @ /\ ~(ok /\ AutoReports(Now) = 1)]
     IN \E odd \in SUBSET Field :
          Become(StopTripCommon(a, call.s, ok, call.update, call.opt, call.erase, odd))

HandleBalanceReply ==
  /\ ReceiveReply("balance")
  /\ LET call == Head(inbox).call
     IN Become(Balanced(Now, call.target,
                        IF call.moved = None THEN Head(inbox).moved ELSE call.moved))

HandleRebalanceReply ==
  /\ ReceiveReply("rebalance")
  /\ LET call == Head(inbox).call
     IN Become(IF Head(inbox).ok THEN Rebalanced(Now, call.target, call.moved) ELSE Now)

(* reportCompletedTrips: the trips that covered their distance are erased, *)
(* and what they have in common with the ongoing one is read after that    *)
HandleCompletedTrips ==
  /\ Receive("completed")
  /\ inbox' = Tail(inbox)
  /\ LET moved == Head(inbox).moved
         counted == [s \in Session |->
           IF trips[s] = None THEN None
           ELSE [trips[s] EXCEPT !.covered =
                   (trips[s].before + Minus(moved, trips[s].joined)) % Modulus]]
         done == {s \in InMap(trips) : counted[s].distance <= counted[s].covered}
         left == [s \in Session |-> IF s \in done THEN None ELSE counted[s]]
     IN \/ /\ done = {}
           /\ Become([Now EXCEPT !.trips = left])
        \/ /\ done # {}
           /\ \E odd \in SUBSET Field :
                Become(RestartTrips([Now EXCEPT !.trips = left, !.dropped = @ \cup odd],
                                    moved))
  /\ UNCHANGED others

(* A request that waited for the engine's capabilities *)
HandlePending ==
  /\ Receive("message")
  /\ inbox' = Tail(inbox)
  /\ LET msg == Head(inbox) IN Proc(msg.request, msg.s, msg.opt)
  /\ UNCHANGED <<suspended, known, clients, modem, locked, asked, events, moves>>

(* handleEngineUpEvent and handleEngineLockStatus, with the lock as it is  *)
(* and as it was                                                           *)
Ready(lock) ==
  /\ inbox' = IF lock THEN Tail(inbox) ELSE Tail(inbox) \o pending
  /\ pending' = IF lock THEN pending ELSE <<>>
  /\ Become(IF lock \/ suspended THEN Now ELSE Restart(Now))
  /\ UNCHANGED <<suspended, clients, modem, locked, asked, events, moves>>

HandleEngineUp == Receive("up") /\ known' = TRUE /\ Ready(locked)

HandleEngineLockStatus ==
  Receive("lock") /\ Ready(Head(inbox).locked) /\ UNCHANGED known

-----------------------------------------------------------------------------
(* The specification *)

(* Before the modem is up nothing is known of it and the lock is not known *)
(* to be open                                                              *)
Init ==
  /\ sessions = [s \in Session |-> None]
  /\ trips = [s \in Session |-> None]
  /\ ongoing = NoTarget
  /\ dropped = {}
  /\ full = FALSE
  /\ suspended = FALSE
  /\ known = FALSE
  /\ pending = <<>>
  /\ clients = Client
  /\ api = <<>>
  /\ inbox = <<>>
  /\ up = FALSE
  /\ locked = TRUE
  /\ engine = {}
  /\ engineTrip = None
  /\ asked = [s \in Session |-> <<>>]
  /\ answers = [s \in Session |-> <<>>]
  /\ missed = FALSE
  /\ events = [kind \in EventKind |-> 0]
  /\ moves = 0

ClientNext ==
  \/ \E s \in Session, opt \in Option : StartBatchingCommand(s, opt)
  \/ \E s \in Session, opt \in Option : UpdateBatchingOptionsCommand(s, opt)
  \/ \E s \in Session : StopBatchingCommand(s)
  \/ \E c \in Client : RemoveClient(c)

EnvironmentNext ==
  \/ \E suspend \in BOOLEAN : UpdateSystemPowerState(suspend)
  \/ \E lock \in BOOLEAN : EngineLock(lock)
  \/ ModemDown
  \/ ModemUp
  \/ Move

ApiNext == ApiCall \/ ApiFail \/ ApiRefuse

MsgTaskNext ==
  \/ HandleStartReply
  \/ HandleStopReply
  \/ HandleStartTripReply
  \/ HandleRestartTripsReply
  \/ HandleJoinReply
  \/ HandleSpeedUpReply
  \/ HandleStopTripReply
  \/ HandleBalanceReply
  \/ HandleRebalanceReply
  \/ HandleCompletedTrips
  \/ HandlePending
  \/ HandleEngineUp
  \/ HandleEngineLockStatus

Next == ClientNext \/ EnvironmentNext \/ ApiNext \/ MsgTaskNext

Spec == Init /\ [][Next]_vars

-----------------------------------------------------------------------------
(* Properties *)

(* Nothing is under way, and the engine may run *)
Quiet == api = <<>> /\ inbox = <<>> /\ pending = <<>>
EngineReady == up /\ ~locked /\ ~suspended
Refused == events["refusal"] > 0
Undisturbed == \A kind \in EventKind \ {"request"} : events[kind] = 0

(* The sessions that the modem runs one by one; a trip that ended is still *)
(* in mBatchingSessions                                                    *)
Routine == {s \in InMap(sessions) : sessions[s].mode # "trip"}

(* With nothing under way the modem runs every session the adapter keeps,  *)
(* however starts, stops, updates, power events, locks and restarts        *)
(* overlap, and no other if nothing but requests happened (startBatching,  *)
(* stopBatching, restartSessions, BatchingAdapter.cpp:246-301, 426-459 and *)
(* 553-593).                                                               *)
RoutineServed ==
  Quiet /\ EngineReady /\ ~Refused =>
    /\ Routine \subseteq engine
    /\ Undisturbed => engine \subseteq Routine

(* While the adapter keeps a trip the modem runs one: the last one that is *)
(* left is not the one that is ended, and the queries, restarts and ends   *)
(* of overlapping requests and completed trips do not stop it for good     *)
(* (restartTripBatching, BatchingAdapter.cpp:987-1092).  A handler that    *)
(* counted on a trip that was gone breaks this, see missed.                *)
TripsServed ==
  Quiet /\ EngineReady /\ ~Refused /\ ~missed /\ InMap(trips) # {}
  => engineTrip # None

(* The adapter is registered for full batches while a session or a trip is *)
(* to be reported automatically: every handler that unregisters counts all *)
(* that are left, some of them still under way (updateEvtMask,             *)
(* autoReportBatchingSessionsCount, BatchingAdapter.cpp:354-365).          *)
BatchFullRegistered ==
  Quiet /\ EngineReady /\ ~Refused /\ ~missed =>
    ((\E s \in Routine : sessions[s].mode = "routine") \/ InMap(trips) # {} => full)

(* What the clients' sessions need runs in the modem, and reports          *)
(* (BatchingAdapter.cpp:246-301, 354-365 and 987-1092).                    *)
SessionsAreServed == RoutineServed /\ TripsServed /\ BatchFullRegistered

(* A session whose stop was answered with success does not come back, not  *)
(* by the answer to an update or a start that was under way, nor by a      *)
(* restart (stopBatching, BatchingAdapter.cpp:553-593).  Suspending answers*)
(* stops nobody asked for (stopClientSessions, 129-154), so without power  *)
(* events.                                                                 *)
StoppedStaysStopped ==
  \A s \in Session :
    /\ Quiet /\ events["power"] = 0
    /\ Len(asked[s]) > 0 /\ Last(asked[s]) = "stop"
    /\ Len(answers[s]) > 0 /\ Last(answers[s]) = [request |-> "stop", ok |-> TRUE]
    => s \notin Routine /\ trips[s] = None

=============================================================================
