------------------------------ MODULE Geofence ------------------------------
(***************************************************************************)
(* GeofenceAdapter (geofence/GeofenceAdapter.cpp, GeofenceAdapter.h): the  *)
(* geofences of every LocationAPI client, kept in two maps and in the      *)
(* modem.                                                                  *)
(*                                                                         *)
(* A command of a client names several geofences.  Its handler queues one  *)
(* turn per geofence with LocApiBase::addToCallQueue; when the turn comes  *)
(* back the geofence is looked up and the modem is called; when the call   *)
(* is answered the maps are updated, and the answer for the last geofence  *)
(* sends the collective response.  Between the three steps anything else   *)
(* the message thread handles may come: other commands, a power event, a   *)
(* client that goes away, a modem restart.                                 *)
(*                                                                         *)
(* The LocApi is one more message thread (LocApiBase::mMsgTask): it does   *)
(* what it is asked in order and answers in order.  The handler of a       *)
(* command reads no state, so it runs when the client issues the command.  *)
(* Commands with a NULL array and the engine lock are left out.            *)
(***************************************************************************)
EXTENDS Naturals, Sequences, FiniteSets

CONSTANTS
  Geofence,      \* geofence ids, fresh for every add (generateSessionId)
  Client,        \* LocationAPI objects
  Owner,         \* the client each id is generated for
  Option,        \* GeofenceOption values
  HwId,          \* ids the modem gives to geofences
  None,          \* no entry, no id
  Batches,       \* the arrays of ids that commands name
  Ops,           \* the commands clients use
  Failing,       \* the calls the modem may refuse
  Destroys,      \* clients may go away
  MaxCommands,   \* bound: commands of all clients
  MaxEvents      \* bound: power events and modem restarts

Operation == {"add", "remove", "pause", "resume", "modify"}

ASSUME OwnerAssumption == Owner \in [Geofence -> Client]
ASSUME NoneAssumption ==
  None \notin Geofence \cup HwId \cup Option \cup [g: Geofence, opt: Option, paused: BOOLEAN]
ASSUME FiniteAssumption == IsFiniteSet(Geofence) /\ IsFiniteSet(HwId)
ASSUME OpsAssumption == Ops \subseteq Operation /\ Failing \subseteq Operation
ASSUME BatchesAssumption == Batches \subseteq Seq(Geofence) \ {<<>>}
ASSUME BoundsAssumption ==
  /\ MaxCommands \in Nat /\ MaxEvents \in Nat
  /\ Destroys \in BOOLEAN

VARIABLES
  ids,         \* mGeofenceIds
  fences,      \* mGeofences
  suspended,   \* mSystemPowerState is one of the sleeping states
  clients,     \* clients that are not gone (mClientData)
  cmds,        \* every command so far with its errs array
  api,         \* turns and calls the LocApi thread has not done yet
  inbox,       \* what the message thread has not handled yet
  engine,      \* the geofences the modem monitors or keeps paused
  up,          \* the modem is there
  powers, ssrs \* power events and restarts so far

maps == <<ids, fences>>
modem == <<engine, up>>
counters == <<powers, ssrs>>
vars == <<maps, suspended, clients, cmds, api, inbox, modem, counters>>

-----------------------------------------------------------------------------
(* Types *)

Fence == [g: Geofence, opt: Option, paused: BOOLEAN]
Err == {"unset", "success", "unknown", "failure"}
Result == {"pending", "success", "unknown", "failure"}
Command == [op: Operation, gs: Seq(Geofence), opt: Option,
            errs: Seq(Err), results: Seq(Result), answers: Nat]

(* A call remembers why it was made: for item i of command cmd, or for a   *)
(* client that is gone, a power event, a restart.                          *)
Call == [kind: {"call"}, op: Operation, g: Geofence, h: HwId \cup {None},
         opt: Option \cup {None}, paused: BOOLEAN,
         why: {"client", "gone", "power", "restart", "repause"},
         cmd: Nat, i: Nat]
Turn == [kind: {"turn"}, cmd: Nat, i: Nat]
Reply == [kind: {"reply"}, call: Call, ok: BOOLEAN, h: HwId \cup {None}]
Breach == [kind: {"breach"}, h: HwId, g: Geofence]
EngineUp == [kind |-> "up"]

TypeOK ==
  /\ ids \in [Geofence -> HwId \cup {None}]
  /\ fences \in [HwId -> Fence \cup {None}]
  /\ suspended \in BOOLEAN
  /\ clients \in SUBSET Client
  /\ cmds \in Seq(Command)
  /\ api \in Seq(Turn \cup Call)
  /\ inbox \in Seq(Turn \cup Reply \cup Breach \cup {EngineUp})
  /\ engine \in [HwId -> Fence \cup {None}]
  /\ up \in BOOLEAN
  /\ powers \in Nat /\ ssrs \in Nat

-----------------------------------------------------------------------------
(* Helpers *)

Members(q) == {q[i] : i \in DOMAIN q}

(* A loop over a map makes its calls in some order *)
Orders(S) == {q \in [1..Cardinality(S) -> S] : Members(q) = S}

NewCall(op, g, h, why) ==
  [kind |-> "call", op |-> op, g |-> g, h |-> h, opt |-> None,
   paused |-> FALSE, why |-> why, cmd |-> 0, i |-> 0]

Turns(c, n) == [i \in 1..n |-> [kind |-> "turn", cmd |-> c, i |-> i]]

IsLast(c, i) == i = Len(cmds[c].gs)

MutantRecord(c, i, err, result, answer) ==
  LET cmd == cmds[c] IN
  cmds' = [cmds EXCEPT ![c] =
            [cmd EXCEPT !.errs[i] = IF cmd.answers > 0 THEN @ ELSE err,
                        !.results[i] = result,
                        !.answers = @ + 1]]

(* errs[i] is written, unless the arrays were deleted with the answer; the *)
(* answer goes out, and the arrays with it, after the last item.           *)
Record(c, i, err, result, answer) ==
  LET cmd == cmds[c] IN
  cmds' = [cmds EXCEPT ![c] =
            [cmd EXCEPT !.errs[i] = IF cmd.answers > 0 THEN @ ELSE err,
                        !.results[i] = result,
                        !.answers = IF answer THEN @ + 1 ELSE @]]

MutantSave(g, h, opt) ==
  /\ fences' = [fences EXCEPT ![h] = [g |-> g, opt |-> opt, paused |-> None]]
  /\ ids' = [ids EXCEPT ![g] = h]

MutantSaveInsert(g, h, opt) ==
  /\ fences' = IF fences[h] = None
               THEN [fences EXCEPT ![h] = [g |-> g, opt |-> opt, paused |-> FALSE]]
               ELSE fences
  /\ ids' = [ids EXCEPT ![g] = h]

(* saveGeofenceItem: a saved geofence is not paused *)
Save(g, h, opt) ==
  /\ fences' = [fences EXCEPT ![h] = [g |-> g, opt |-> opt, paused |-> FALSE]]
  /\ ids' = [ids EXCEPT ![g] = h]

MutantRemoveItem(h) ==
  /\ fences' = [fences EXCEPT ![h] = None]
  /\ UNCHANGED ids

(* removeGeofenceItem erases both entries or none *)
RemoveItem(h) ==
  IF fences[h] # None /\ ids[fences[h].g] # None
  THEN /\ ids' = [ids EXCEPT ![fences[h].g] = None]
       /\ fences' = [fences EXCEPT ![h] = None]
  ELSE UNCHANGED maps

(* pauseGeofenceItem, resumeGeofenceItem *)
SetPaused(h, paused) ==
  /\ fences' = IF fences[h] = None THEN fences
               ELSE [fences EXCEPT ![h].paused = paused]
  /\ UNCHANGED ids

(* modifyGeofenceItem *)
ModifyItem(h, opt) ==
  /\ fences' = IF fences[h] = None THEN fences ELSE [fences EXCEPT ![h].opt = opt]
  /\ UNCHANGED ids

-----------------------------------------------------------------------------
(* Clients, power events and the modem *)

Named == UNION {Members(cmds[c].gs) : c \in 1..Len(cmds)}

AnyOption == CHOOSE opt \in Option : TRUE

(* The handler of a command queues a turn for each id.  Only additions and *)
(* modifications carry options; each geofence added gets an id of its own. *)
Issue(op, gs, opt) ==
  /\ Len(cmds) < MaxCommands
  /\ op \in Ops
  /\ op \in {"add", "modify"} \/ opt = AnyOption
  /\ \A g \in Members(gs) :
       /\ Owner[g] \in clients
       /\ Owner[g] = Owner[gs[1]]
       /\ op = "add" <=> g \notin Named
  /\ op = "add" => \A i, j \in DOMAIN gs : gs[i] = gs[j] => i = j
  /\ cmds' = Append(cmds, [op |-> op, gs |-> gs, opt |-> opt,
                           errs |-> [i \in DOMAIN gs |-> "unset"],
                           results |-> [i \in DOMAIN gs |-> "pending"],
                           answers |-> 0])
  /\ api' = api \o Turns(Len(cmds) + 1, Len(gs))
  /\ UNCHANGED <<maps, suspended, clients, inbox, modem, counters>>

(* stopClientSessions and eraseClient, when a client is removed *)
StopClientSessions(client) ==
  /\ Destroys
  /\ client \in clients
  /\ clients' = clients \ {client}
  /\ LET mine == {g \in Geofence : Owner[g] = client /\ ids[g] # None}
     IN /\ ids' = [g \in Geofence |-> IF g \in mine THEN None ELSE ids[g]]
        /\ \E order \in Orders(mine) :
             api' = api \o [i \in DOMAIN order |->
                             NewCall("remove", order[i], ids[order[i]], "gone")]
  /\ UNCHANGED <<fences, suspended, cmds, inbox, modem, counters>>

(* updateSystemPowerState and pauseOrResumeGeofences.  The first event is  *)
(* a suspend or a resume alike; the same event may be repeated.            *)
UpdateSystemPowerState(suspend) ==
  /\ powers + ssrs < MaxEvents
  /\ powers' = powers + 1
  /\ suspended' = suspend
  /\ \E order \in Orders({g \in Geofence : ids[g] # None}) :
       api' = api \o [i \in DOMAIN order |->
                       NewCall(IF suspend THEN "pause" ELSE "resume",
                               order[i], ids[order[i]], "power")]
  /\ UNCHANGED <<maps, clients, cmds, inbox, modem, ssrs>>

ModemDown ==
  /\ up
  /\ powers + ssrs < MaxEvents
  /\ ssrs' = ssrs + 1
  /\ up' = FALSE
  /\ engine' = [h \in HwId |-> None]
  /\ UNCHANGED <<maps, suspended, clients, cmds, api, inbox, powers>>

ModemUp ==
  /\ ~up
  /\ up' = TRUE
  /\ inbox' = Append(inbox, EngineUp)
  /\ UNCHANGED <<maps, suspended, clients, cmds, api, engine, counters>>

-----------------------------------------------------------------------------
(* The LocApi thread *)

ApiTurn ==
  /\ api # <<>>
  /\ Head(api).kind = "turn"
  /\ inbox' = Append(inbox, Head(api))
  /\ api' = Tail(api)
  /\ UNCHANGED <<maps, suspended, clients, cmds, modem, counters>>

Answer(ok, h) ==
  /\ inbox' = Append(inbox, [kind |-> "reply", call |-> Head(api), ok |-> ok, h |-> h])
  /\ api' = Tail(api)

(* The modem does what it is asked *)
ApiCall ==
  /\ api # <<>>
  /\ Head(api).kind = "call"
  /\ up
  /\ LET call == Head(api)
         h == call.h
     IN \/ /\ call.op = "add"
           /\ \E new \in {x \in HwId : engine[x] = None} :
                /\ engine' = [engine EXCEPT ![new] =
                     [g |-> call.g, opt |-> call.opt, paused |-> FALSE]]
                /\ Answer(TRUE, new)
        \/ /\ call.op # "add"
           /\ engine[h] # None
           /\ engine' = [engine EXCEPT ![h] =
                CASE call.op = "remove" -> None
                  [] call.op = "pause" -> [@ EXCEPT !.paused = TRUE]
                  [] call.op = "resume" -> [@ EXCEPT !.paused = FALSE]
                  [] call.op = "modify" -> [@ EXCEPT !.opt = call.opt]]
           /\ Answer(TRUE, h)
  /\ UNCHANGED <<maps, suspended, clients, cmds, up, counters>>

(* The modem refuses a call, does not know the id, or is not there *)
ApiFail ==
  /\ api # <<>>
  /\ LET call == Head(api) IN
       /\ call.kind = "call"
       /\ \/ call.op \in Failing
          \/ ~up
          \/ call.op # "add" /\ engine[call.h] = None
       /\ Answer(FALSE, None)
  /\ UNCHANGED <<maps, suspended, clients, cmds, modem, counters>>

(* The modem reports a breach by its own id, one at a time here; the       *)
(* geofence it means is remembered to compare it with.                     *)
GeofenceBreachEvent(h) ==
  /\ up
  /\ engine[h] # None /\ ~engine[h].paused
  /\ \A i \in DOMAIN inbox : inbox[i].kind # "breach"
  /\ inbox' = Append(inbox, [kind |-> "breach", h |-> h, g |-> engine[h].g])
  /\ UNCHANGED <<maps, suspended, clients, cmds, api, modem, counters>>

-----------------------------------------------------------------------------
(* The message thread *)

(* The call for item i of command c, of the hwId that was looked up *)
ClientCall(c, i, h) ==
  [kind |-> "call", op |-> cmds[c].op, g |-> cmds[c].gs[i], h |-> h, opt |-> cmds[c].opt,
   paused |-> FALSE, why |-> "client", cmd |-> c, i |-> i]

(* The turn of item i of a command came: look the id up, call the modem *)
HandleTurn ==
  /\ inbox # <<>>
  /\ Head(inbox).kind = "turn"
  /\ inbox' = Tail(inbox)
  /\ LET c == Head(inbox).cmd
         i == Head(inbox).i
         g == cmds[c].gs[i]
     IN \/ /\ cmds[c].op = "add"
           /\ api' = Append(api, ClientCall(c, i, None))
           /\ UNCHANGED cmds
        \/ /\ cmds[c].op # "add"
           /\ ids[g] # None
           /\ api' = Append(api, ClientCall(c, i, ids[g]))
           /\ Record(c, i, "success", "pending", FALSE)
        \/ /\ cmds[c].op # "add"
           /\ ids[g] = None
           /\ Record(c, i, "unknown", "unknown", IsLast(c, i))
           /\ UNCHANGED api
  /\ UNCHANGED <<maps, suspended, clients, modem, counters>>

TakeReply(why) ==
  /\ inbox # <<>>
  /\ Head(inbox).kind = "reply"
  /\ Head(inbox).call.why \in why
  /\ inbox' = Tail(inbox)

(* The maps after a call that succeeded *)
Apply(call, h) ==
  \/ call.op = "add" /\ Save(call.g, h, call.opt)
  \/ call.op = "remove" /\ RemoveItem(call.h)
  \/ call.op = "pause" /\ SetPaused(call.h, TRUE)
  \/ call.op = "resume" /\ SetPaused(call.h, FALSE)
  \/ call.op = "modify" /\ ModifyItem(call.h, call.opt)

MutantHandleClientReply ==
  /\ TakeReply({"client"})
  /\ LET call == Head(inbox).call
         ok == Head(inbox).ok
         status == IF ok THEN "success" ELSE "failure"
     IN /\ IF ok THEN Apply(call, Head(inbox).h) ELSE UNCHANGED maps
        /\ IF ok THEN Record(call.cmd, call.i, "success", status, IsLast(call.cmd, call.i))
           ELSE Record(call.cmd, call.i, cmds[call.cmd].errs[call.i], status, FALSE)
  /\ UNCHANGED <<suspended, clients, api, modem, counters>>

MutantHandleClientReplyErr ==
  /\ TakeReply({"client"})
  /\ LET call == Head(inbox).call
         ok == Head(inbox).ok
         status == IF ok THEN "success" ELSE "failure"
     IN /\ IF ok THEN Apply(call, Head(inbox).h) ELSE UNCHANGED maps
        /\ Record(call.cmd, call.i, "success", status, IsLast(call.cmd, call.i))
  /\ UNCHANGED <<suspended, clients, api, modem, counters>>

(* The answer to a client's call.  A modify that failed leaves errs[i] as  *)
(* the lookup set it, a resume that failed does nothing at all.            *)
HandleClientReply ==
  /\ TakeReply({"client"})
  /\ LET call == Head(inbox).call
         ok == Head(inbox).ok
         status == IF ok THEN "success" ELSE "failure"
         err == IF call.op \in {"modify", "resume"} /\ ~ok THEN "success" ELSE status
         answer == IsLast(call.cmd, call.i) /\ (ok \/ call.op # "resume")
     IN /\ IF ok THEN Apply(call, Head(inbox).h) ELSE UNCHANGED maps
        /\ Record(call.cmd, call.i, err, status, answer)
  /\ UNCHANGED <<suspended, clients, api, modem, counters>>

(* stopClientSessions' removals: the entry in mGeofences goes by its hwId *)
HandleGoneReply ==
  /\ TakeReply({"gone"})
  /\ IF Head(inbox).ok
     THEN fences' = [fences EXCEPT ![Head(inbox).call.h] = None]
     ELSE UNCHANGED fences
  /\ UNCHANGED <<ids, suspended, clients, cmds, api, modem, counters>>

MutantHandlePowerReply ==
  /\ TakeReply({"power", "repause"})
  /\ UNCHANGED <<maps, suspended, clients, cmds, api, modem, counters>>

(* pauseOrResumeGeofences' calls, and the pause of a restarted geofence,   *)
(* whose answer nobody looks at                                            *)
HandlePowerReply ==
  /\ TakeReply({"power", "repause"})
  /\ IF Head(inbox).ok /\ Head(inbox).call.why = "power"
     THEN SetPaused(Head(inbox).call.h, Head(inbox).call.op = "pause")
     ELSE UNCHANGED maps
  /\ UNCHANGED <<suspended, clients, cmds, api, modem, counters>>

MutantHandleRestartReply ==
  /\ TakeReply({"restart"})
  /\ LET call == Head(inbox).call
         h == Head(inbox).h
     IN IF Head(inbox).ok
        THEN IF call.paused
             THEN /\ api' = Append(api, NewCall("pause", call.g, h, "repause"))
                  /\ UNCHANGED maps
             ELSE Save(call.g, h, call.opt) /\ UNCHANGED api
        ELSE UNCHANGED <<maps, api>>
  /\ UNCHANGED <<suspended, clients, cmds, modem, counters>>

(* restartGeofences' additions *)
HandleRestartReply ==
  /\ TakeReply({"restart"})
  /\ LET call == Head(inbox).call
         h == Head(inbox).h
     IN IF Head(inbox).ok
        THEN /\ Save(call.g, h, call.opt)
             /\ api' = IF call.paused
                       THEN Append(api, NewCall("pause", call.g, h, "repause"))
                       ELSE api
        ELSE UNCHANGED <<maps, api>>
  /\ UNCHANGED <<suspended, clients, cmds, modem, counters>>

(* What restartGeofences asks for, of an entry of the old map *)
RestartCall(h) ==
  [kind |-> "call", op |-> "add", g |-> fences[h].g, h |-> None, opt |-> fences[h].opt,
   paused |-> fences[h].paused, why |-> "restart", cmd |-> 0, i |-> 0]

(* handleEngineUpEvent and restartGeofences: both maps are emptied and     *)
(* every geofence is added again, unless the system is going to sleep.     *)
HandleEngineUp ==
  /\ inbox # <<>>
  /\ Head(inbox) = EngineUp
  /\ inbox' = Tail(inbox)
  /\ LET old == {h \in HwId : fences[h] # None} IN
     IF suspended \/ old = {}
     THEN UNCHANGED <<maps, api>>
     ELSE /\ fences' = [h \in HwId |-> None]
          /\ ids' = [g \in Geofence |-> None]
          /\ \E order \in Orders(old) :
               api' = api \o [i \in DOMAIN order |-> RestartCall(order[i])]
  /\ UNCHANGED <<suspended, clients, cmds, modem, counters>>

(* The geofences that geofenceBreach reports to their clients *)
BreachedAs(h) == IF fences[h] = None THEN {} ELSE {fences[h].g}

HandleBreach ==
  /\ inbox # <<>>
  /\ Head(inbox).kind = "breach"
  /\ inbox' = Tail(inbox)
  /\ UNCHANGED <<maps, suspended, clients, cmds, api, modem, counters>>

-----------------------------------------------------------------------------
(* The specification *)

Init ==
  /\ ids = [g \in Geofence |-> None]
  /\ fences = [h \in HwId |-> None]
  /\ suspended = FALSE
  /\ clients = Client
  /\ cmds = <<>>
  /\ api = <<>>
  /\ inbox = <<>>
  /\ engine = [h \in HwId |-> None]
  /\ up = TRUE
  /\ powers = 0
  /\ ssrs = 0

Environment ==
  \/ \E op \in Operation, gs \in Batches, opt \in Option : Issue(op, gs, opt)
  \/ \E client \in Client : StopClientSessions(client)
  \/ \E suspend \in BOOLEAN : UpdateSystemPowerState(suspend)
  \/ ModemDown
  \/ \E h \in HwId : GeofenceBreachEvent(h)

ApiNext == ApiTurn \/ ApiCall \/ ApiFail

MsgTaskNext ==
  \/ HandleTurn
  \/ HandleClientReply
  \/ HandleGoneReply
  \/ HandlePowerReply
  \/ HandleRestartReply
  \/ HandleEngineUp
  \/ HandleBreach

Next == Environment \/ ModemUp \/ ApiNext \/ MsgTaskNext

Spec == Init /\ [][Next]_vars

-----------------------------------------------------------------------------
(* Properties *)

Quiet == api = <<>> /\ inbox = <<>> /\ up

(* No client has gone with its geofences half added, and no modem restart  *)
(* found the system asleep: both leave the maps apart (README, divergences)*)
Settled == clients = Client /\ (ssrs = 0 \/ powers = 0)

Answered(c) == cmds[c].answers > 0

(* What g's owner was last told of it, and nothing else is under way *)
LastTold(g, op, err) ==
  \E c \in 1..Len(cmds) : \E i \in DOMAIN cmds[c].gs :
    /\ cmds[c].gs[i] = g /\ cmds[c].op = op
    /\ Answered(c) /\ cmds[c].errs[i] = err
    /\ \A later \in (c + 1)..Len(cmds) : g \notin Members(cmds[later].gs)

InEngine(g) == {h \in HwId : engine[h] # None /\ engine[h].g = g}

(* When nothing is under way, mGeofences says of every hwId what the modem *)
(* has there, its options and whether it is paused, however refused calls, *)
(* overlapping commands and power events meet.  A modem restart keeps the  *)
(* geofences and their options, each once (restartGeofences,               *)
(* GeofenceAdapter.cpp:159-196), but not what is paused; and it must find  *)
(* the system awake.                                                       *)
MapAgreesWithModem ==
  Quiet /\ Settled =>
    \A h \in HwId :
      /\ fences[h] = None <=> engine[h] = None
      /\ fences[h] # None =>
           /\ fences[h].g = engine[h].g
           /\ fences[h].opt = engine[h].opt
           /\ ssrs = 0 => fences[h].paused = engine[h].paused

(* The two maps agree at every step: an id a client can name leads to the  *)
(* hwId of its own geofence (getHwIdFromClient, getGeofenceKeyFromHwId).   *)
IdsLeadToFences ==
  Settled => \A g \in Geofence :
    ids[g] # None => fences[ids[g]] # None /\ fences[ids[g]].g = g

(* A breach is reported as the geofence that was breached or not at all,   *)
(* though the modem reuses its ids after a removal and after a restart     *)
(* (geofenceBreach, GeofenceAdapter.cpp:812).                              *)
BreachesReachTheirOwner ==
  inbox # <<>> /\ Head(inbox).kind = "breach" =>
    BreachedAs(Head(inbox).h) \subseteq {Head(inbox).g}

(* However commands, refusals, power events and restarts meet, what the    *)
(* clients can name, what the adapter keeps and what the modem has are the *)
(* same geofences (GeofenceAdapter.cpp:159-196 and 667-749).               *)
FencesAreKept == MapAgreesWithModem /\ IdsLeadToFences

(* A collective response tells of every geofence what became of it, and   *)
(* not before all of them are done ("LOCATION_ERROR_SUCCESS if             *)
(* successful", LocationAPI.h:161).  It does so for additions, removals    *)
(* and pauses whose last geofence is known; not for the others: see        *)
(* HandleTurn for an unknown one, HandleClientReply for modify and resume. *)
AnswersAreTrue ==
  \A c \in 1..Len(cmds) :
    LET cmd == cmds[c] IN
    Answered(c) /\ cmd.op \in {"add", "remove", "pause"}
      /\ cmd.results[Len(cmd.gs)] # "unknown" => cmd.errs = cmd.results

(* A command is answered once.                                             *)
AnsweredOnce == \A c \in 1..Len(cmds) : cmds[c].answers <= 1

(* Every command is answered ("collectiveResponseCallback returns: ...",   *)
(* LocationAPI.h:176), through refusals, restarts and power events, but    *)
(* for a resume whose last geofence the modem refuses.                     *)
EveryCommandAnswered ==
  Quiet => \A c \in 1..Len(cmds) :
    \/ Answered(c)
    \/ cmds[c].op = "resume" /\ cmds[c].results[Len(cmds[c].gs)] = "failure"

(* A client gets one answer to each command, and a true one                *)
(* (reportResponse, GeofenceAdapter.cpp:198-225).                          *)
CommandsAreAnswered == AnswersAreTrue /\ AnsweredOnce /\ EveryCommandAnswered

(* "The geofenceBreachCallback will deliver the status of each geofence"   *)
(* (LocationAPI.h:141): a geofence the client was told is added stays in   *)
(* the modem while the system is awake.                                    *)
AddedIsMonitored ==
  Quiet /\ ~suspended => \A g \in Geofence :
    Owner[g] \in clients /\ LastTold(g, "add", "success") => InEngine(g) # {}

=============================================================================
