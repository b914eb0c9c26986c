------------------------------- MODULE Agps -------------------------------
(***************************************************************************)
(* The assisted-GPS data call manager: AgpsManager and its two             *)
(* AgpsStateMachine instances (gnss/Agps.h, gnss/Agps.cpp), driven by      *)
(* GnssAdapter's message thread.                                           *)
(*                                                                         *)
(* Three parties meet here.  The modem opens and closes ATL connections,   *)
(* each named by a connection handle; the framework owns the cellular data *)
(* connection and is told to set it up or to tear it down; the state       *)
(* machine shares one data connection between all handles of one network   *)
(* interface.  Modem requests and framework answers are messages of one    *)
(* thread, so each handler is one action; what is concurrent is the        *)
(* framework, which answers later, and the modem, which may restart.       *)
(*                                                                         *)
(* requestATL always creates its subscriber with mWaitForCloseComplete set *)
(* (Agps.cpp:613), so a released subscriber always becomes inactive and    *)
(* waits for the data call to close; the other branch is never taken.      *)
(***************************************************************************)
EXTENDS Naturals, Sequences

CONSTANTS
  Handle,            \* connection handles the modem uses
  UseEmergencyPdn,   \* USE_EMERGENCY_PDN_FOR_EMERGENCY_SUPL of gps.conf
  AgpsCapable,       \* CAPABILITIES of gps.conf has MSA or MSB
  PdnLookup,         \* libloc_api_wds.so is there: ask it for the PDN type
  Troubles,          \* what may go wrong at the framework, see Trouble
  MaxSsr,            \* bound: how many times the modem restarts
  MaxInbox,          \* bound: commands the framework has not answered
  MaxLookups         \* bound: PDN type lookups in progress

(* An open or a close that fails, a connection lost while it is up, an     *)
(* open answered with an APN that the length check refuses, a framework    *)
(* that registers its callback without a priority.                         *)
Trouble == {"open_fails", "close_fails", "lost", "bad_apn", "no_priority"}

ASSUME SwitchesAssumption ==
  /\ {UseEmergencyPdn, AgpsCapable} \subseteq BOOLEAN
  /\ PdnLookup \in BOOLEAN
  /\ Troubles \subseteq Trouble
ASSUME BoundsAssumption == MaxSsr \in Nat /\ MaxInbox \in Nat /\ MaxLookups \in Nat

VARIABLES
  created,       \* the interfaces whose state machine exists
  cbPriority,    \* mCbPriority: of the callback that has the SUPL machine
  state,         \* mState of each state machine
  subscribers,   \* mSubscriberList of each state machine
  agpsType,      \* mAgpsType of each state machine
  atl,           \* what the modem knows of each connection handle
  inbox,         \* commands the framework has not answered yet, oldest first
  held,          \* the framework keeps a data connection for the interface
  lookups,       \* PDN type lookups in progress
  ssrs           \* modem restarts so far

machineVars == <<created, cbPriority, state, subscribers, agpsType>>
vars == <<created, cbPriority, state, subscribers, agpsType, atl, inbox, held, lookups, ssrs>>

-----------------------------------------------------------------------------
(* Types *)

Nif == {"agnss", "internet"}
AtlType == {"SUPL", "SUPL_ES", "WWAN_ANY"}
AgpsState == {"RELEASED", "PENDING", "ACQUIRED", "RELEASING"}
Subscriber == [handle: Handle, inactive: BOOLEAN]
Command == [request: BOOLEAN, type: AtlType]
AtlStatus == {"idle", "opening", "open", "failed", "closing"}

TypeOK ==
  /\ created \in SUBSET Nif
  /\ cbPriority \in Nat
  /\ state \in [Nif -> AgpsState]
  /\ subscribers \in [Nif -> SUBSET Subscriber]
  /\ agpsType \in [Nif -> AtlType]
  /\ atl \in [Handle -> AtlStatus]
  /\ inbox \in [Nif -> Seq(Command)]
  /\ held \in [Nif -> BOOLEAN]
  /\ lookups \in [Nif -> Nat]
  /\ ssrs \in Nat

-----------------------------------------------------------------------------
(* Helpers of the state machine *)

Active(n) == {s \in subscribers[n] : ~s.inactive}
Inactive(n) == {s \in subscribers[n] : s.inactive}
HandlesOf(S) == {s.handle : s \in S}

(* mAtlOpenStatusCb or mAtlCloseStatusCb for every handle in H *)
Notify(H, status) == atl' = [h \in Handle |-> IF h \in H THEN status ELSE atl[h]]

(* The machine has a callback: that of the SUPL types gets its own only    *)
(* from a registration with a priority.                                    *)
Heard(n) == n = "internet" \/ cbPriority > 0

(* requestOrReleaseDataConn, with cmds the commands still unanswered.      *)
(* Without a callback the command is only logged.                          *)
Send(n, cmds, request, type) ==
  inbox' = [inbox EXCEPT
              ![n] = IF Heard(n)
                     THEN Append(cmds, [request |-> request, type |-> type])
                     ELSE cmds]

(* The bound on commands in flight: whoever makes the machine issue one    *)
(* waits until the framework has room.                                     *)
HasRoom(n) == Len(inbox[n]) < MaxInbox

Transition(n, newState) == state' = [state EXCEPT ![n] = newState]

(* getAgpsStateMachine *)
NifOf(t) == IF t = "WWAN_ANY" THEN "internet" ELSE "agnss"

(* Mutant: the emergency type is passed on whatever gps.conf says *)
MutantEffectiveType(t) == t

(* The emergency type falls back to SUPL unless gps.conf allows its PDN *)
EffectiveType(t) == IF t = "SUPL_ES" /\ ~UseEmergencyPdn THEN "SUPL" ELSE t

-----------------------------------------------------------------------------
(* Requests of the modem *)

(* addSubscriber: a handle that is already in the list is not added again *)
AddSubscriber(n, h) ==
  subscribers' =
    IF h \in HandlesOf(subscribers[n])
    THEN subscribers
    ELSE [subscribers EXCEPT ![n] = @ \union {[handle |-> h, inactive |-> FALSE]}]

(* processAgpsEventSubscribe *)
Subscribe(n, h, type) ==
  /\ AddSubscriber(n, h)
  /\ \/ /\ state[n] = "RELEASED"
        /\ Transition(n, "PENDING")
        /\ Send(n, inbox[n], TRUE, type)
        /\ Notify({h}, "opening")
     \/ /\ state[n] \in {"PENDING", "RELEASING"}
        /\ Notify({h}, "opening")
        /\ UNCHANGED <<state, inbox>>
     \/ /\ state[n] = "ACQUIRED"
        /\ Notify({h}, "open")
        /\ UNCHANGED <<state, inbox>>

(* requestATL, for a handle the modem does not have in use.  Without a     *)
(* state machine the open fails at once.                                   *)
RequestATL(h, t) ==
  LET type == EffectiveType(t)
      n == NifOf(type)
  IN  /\ atl[h] \in {"idle", "failed"}
      /\ \/ /\ n \notin created
            /\ Notify({h}, "failed")
            /\ UNCHANGED <<state, subscribers, agpsType, inbox>>
         \/ /\ n \in created
            /\ HasRoom(n)
            /\ agpsType' = [agpsType EXCEPT ![n] = type]
            /\ Subscribe(n, h, type)
      /\ UNCHANGED <<created, cbPriority, held, lookups, ssrs>>

(* Mutant: the list is tested for being empty rather than for having no    *)
(* active subscriber                                                       *)
MutantUnsubscribeIfEmpty(n, h) ==
  LET others == {s \in subscribers[n] : s.handle # h}
  IN  /\ subscribers' = [subscribers EXCEPT
                           ![n] = others \union {[handle |-> h, inactive |-> TRUE]}]
      /\ Notify({h}, "closing")
      /\ \/ /\ state[n] \in {"PENDING", "ACQUIRED"} /\ others = {}
            /\ Transition(n, "RELEASING")
            /\ Send(n, inbox[n], FALSE, agpsType[n])
         \/ /\ state[n] = "RELEASING" \/ others # {}
            /\ UNCHANGED <<state, inbox>>

(* processAgpsEventUnsubscribe: the subscriber becomes inactive; when no   *)
(* active one is left the data connection is released.                     *)
Unsubscribe(n, h) ==
  LET others == {s \in subscribers[n] : s.handle # h}
  IN  /\ subscribers' = [subscribers EXCEPT
                           ![n] = others \union {[handle |-> h, inactive |-> TRUE]}]
      /\ Notify({h}, "closing")
      /\ \/ /\ state[n] \in {"PENDING", "ACQUIRED"}
            /\ \A s \in others : s.inactive
            /\ Transition(n, "RELEASING")
            /\ Send(n, inbox[n], FALSE, agpsType[n])
         \/ /\ \/ state[n] = "RELEASING"
               \/ \E s \in others : ~s.inactive
            /\ UNCHANGED <<state, inbox>>

(* releaseATL: the handle is looked up in the AGNSS machine first.  The    *)
(* modem may also release a handle that a forced close has just ended:     *)
(* it is in no list and the release is ignored.                            *)
ReleaseATL(h) ==
  /\ atl[h] # "closing"
  /\ \A n \in Nif : h \in HandlesOf(subscribers[n]) => HasRoom(n)
  /\ \/ /\ h \in HandlesOf(subscribers["agnss"])
        /\ Unsubscribe("agnss", h)
        /\ UNCHANGED agpsType
     \/ /\ h \notin HandlesOf(subscribers["agnss"])
        /\ h \in HandlesOf(subscribers["internet"])
        /\ Unsubscribe("internet", h)
        /\ UNCHANGED agpsType
     \/ /\ \A n \in Nif : h \notin HandlesOf(subscribers[n])
        /\ UNCHANGED <<state, subscribers, agpsType, atl, inbox>>
  /\ UNCHANGED <<created, cbPriority, held, lookups, ssrs>>

(* handleModemSSR: every list is emptied without notifying anyone, and     *)
(* every data connection is released whatever the state was.  The          *)
(* restarted modem has no connection handles.                              *)
HandleModemSSR ==
  /\ ssrs < MaxSsr
  /\ \A n \in created : HasRoom(n)
  /\ ssrs' = ssrs + 1
  /\ subscribers' = [n \in Nif |-> IF n \in created THEN {} ELSE subscribers[n]]
  /\ state' = [n \in Nif |-> IF n \in created THEN "RELEASED" ELSE state[n]]
  /\ inbox' = [n \in Nif |->
                 IF n \in created /\ Heard(n)
                 THEN Append(inbox[n], [request |-> FALSE, type |-> agpsType[n]])
                 ELSE inbox[n]]
  /\ Notify(Handle, "idle")
  /\ UNCHANGED <<created, cbPriority, agpsType, held, lookups>>

-----------------------------------------------------------------------------
(* Answers of the framework.  The events take the commands that stay       *)
(* unanswered, since a handler may issue a new one.                        *)

(* Mutant: inactive subscribers are told open as well *)
MutantGranted(n) ==
  /\ \/ /\ state[n] = "PENDING"
        /\ Transition(n, "ACQUIRED")
        /\ Notify(HandlesOf(subscribers[n]), "open")
     \/ /\ state[n] # "PENDING"
        /\ UNCHANGED <<state, atl>>
  /\ UNCHANGED subscribers

(* processAgpsEventGranted *)
Granted(n) ==
  /\ \/ /\ state[n] = "PENDING"
        /\ Transition(n, "ACQUIRED")
        /\ Notify(HandlesOf(Active(n)), "open")
     \/ /\ state[n] # "PENDING"
        /\ UNCHANGED <<state, atl>>
  /\ UNCHANGED subscribers

(* Mutant: waiting subscribers move to PENDING but nothing is requested *)
MutantEndReleasing(n, cmds) ==
  /\ state[n] = "RELEASING"
  /\ subscribers' = [subscribers EXCEPT ![n] = Active(n)]
  /\ Notify(HandlesOf(Inactive(n)), "idle")
  /\ Transition(n, IF Active(n) # {} THEN "PENDING" ELSE "RELEASED")
  /\ inbox' = [inbox EXCEPT ![n] = cmds]

(* The end of a release, in processAgpsEventReleased and, for a framework  *)
(* that failed to close, in processAgpsEventDenied.                        *)
EndReleasing(n, cmds) ==
  /\ state[n] = "RELEASING"
  /\ subscribers' = [subscribers EXCEPT ![n] = Active(n)]
  /\ Notify(HandlesOf(Inactive(n)), "idle")
  /\ \/ /\ Active(n) # {}
        /\ Transition(n, "PENDING")
        /\ Send(n, cmds, TRUE, agpsType[n])
     \/ /\ Active(n) = {}
        /\ Transition(n, "RELEASED")
        /\ inbox' = [inbox EXCEPT ![n] = cmds]

(* Mutant: subscribers are notified but not deleted *)
MutantDropAll(n, cmds, status) ==
  /\ Transition(n, "RELEASED")
  /\ Notify(HandlesOf(subscribers[n]), status)
  /\ inbox' = [inbox EXCEPT ![n] = cmds]
  /\ UNCHANGED subscribers

(* Every subscriber, active or not, is told and dropped: a forced release  *)
(* of an acquired connection, or a denied request.                         *)
DropAll(n, cmds, status) ==
  /\ Transition(n, "RELEASED")
  /\ Notify(HandlesOf(subscribers[n]), status)
  /\ subscribers' = [subscribers EXCEPT ![n] = {}]
  /\ inbox' = [inbox EXCEPT ![n] = cmds]

Ignore(n, cmds) ==
  /\ inbox' = [inbox EXCEPT ![n] = cmds]
  /\ UNCHANGED <<state, subscribers, atl>>

(* processAgpsEventReleased *)
Released(n, cmds) ==
  \/ state[n] = "ACQUIRED" /\ DropAll(n, cmds, "idle")
  \/ EndReleasing(n, cmds)
  \/ state[n] \in {"RELEASED", "PENDING"} /\ Ignore(n, cmds)

(* Mutant: a failed close is not the end of the release *)
MutantDenied(n, cmds) ==
  \/ state[n] = "PENDING" /\ DropAll(n, cmds, "failed")
  \/ state[n] # "PENDING" /\ Ignore(n, cmds)

(* processAgpsEventDenied *)
Denied(n, cmds) ==
  \/ state[n] = "PENDING" /\ DropAll(n, cmds, "failed")
  \/ EndReleasing(n, cmds)
  \/ state[n] \in {"RELEASED", "ACQUIRED"} /\ Ignore(n, cmds)

(* The framework takes its oldest command *)
Answers(n, request) ==
  /\ inbox[n] # <<>>
  /\ Head(inbox[n]).request = request

(* dataConnOpenCommand: with the WDS library the PDN type is looked up     *)
(* first and GRANTED follows in a message of its own.  Without it, or for  *)
(* an empty access point name, GRANTED comes at once.                      *)
DataConnOpen(n) ==
  /\ Answers(n, TRUE)
  /\ held' = [held EXCEPT ![n] = TRUE]
  /\ inbox' = [inbox EXCEPT ![n] = Tail(@)]
  /\ \/ /\ PdnLookup
        /\ lookups[n] < MaxLookups
        /\ lookups' = [lookups EXCEPT ![n] = @ + 1]
        /\ UNCHANGED <<state, subscribers, atl>>
     \/ /\ Granted(n)
        /\ UNCHANGED lookups
  /\ UNCHANGED <<created, cbPriority, agpsType, ssrs>>

(* Mutant: a lookup may answer twice *)
MutantReportPdnTypeFromWds(n) ==
  /\ lookups' = [lookups EXCEPT ![n] = @ - 1]
  /\ Granted(n)
  /\ UNCHANGED <<created, cbPriority, agpsType, inbox, held, ssrs>>

(* reportPdnTypeFromWds *)
ReportPdnTypeFromWds(n) ==
  /\ lookups[n] > 0
  /\ lookups' = [lookups EXCEPT ![n] = @ - 1]
  /\ Granted(n)
  /\ UNCHANGED <<created, cbPriority, agpsType, inbox, held, ssrs>>

(* dataConnOpenCommand with an APN that fails the length check: the        *)
(* connection is reported as closed                                        *)
DataConnOpenBadApn(n) ==
  /\ "bad_apn" \in Troubles
  /\ Answers(n, TRUE)
  /\ held' = [held EXCEPT ![n] = TRUE]
  /\ Released(n, Tail(inbox[n]))
  /\ UNCHANGED <<created, cbPriority, agpsType, lookups, ssrs>>

(* dataConnFailedCommand: the framework could not open, or could not close *)
DataConnFailed(n) ==
  /\ \/ "open_fails" \in Troubles /\ Answers(n, TRUE)
     \/ "close_fails" \in Troubles /\ Answers(n, FALSE)
  /\ held' = [held EXCEPT ![n] = @ /\ Head(inbox[n]).request]
  /\ Denied(n, Tail(inbox[n]))
  /\ UNCHANGED <<created, cbPriority, agpsType, lookups, ssrs>>

(* dataConnClosedCommand, the answer to a release *)
DataConnClosed(n) ==
  /\ Answers(n, FALSE)
  /\ held' = [held EXCEPT ![n] = FALSE]
  /\ Released(n, Tail(inbox[n]))
  /\ UNCHANGED <<created, cbPriority, agpsType, lookups, ssrs>>

(* dataConnClosedCommand, unasked: the network took the connection away    *)
DataConnLost(n) ==
  /\ "lost" \in Troubles
  /\ HasRoom(n)
  /\ held[n]
  /\ held' = [held EXCEPT ![n] = FALSE]
  /\ Released(n, inbox[n])
  /\ UNCHANGED <<created, cbPriority, agpsType, lookups, ssrs>>

-----------------------------------------------------------------------------
(* The callbacks this repository registers, with their priorities:         *)
(* NativeAgpsHandler for WWAN, LocationControlAPI for both SUPL types, in  *)
(* any order or not at all.  The HIDL services (android/1.0 to 2.0) leave  *)
(* the priority of theirs at none.                                         *)
Registered ==
  {[types |-> {"WWAN_ANY"}, priority |-> 0]}
    \union {[types |-> {"SUPL", "SUPL_ES"}, priority |-> p] :
               p \in {1} \union {0 : t \in Troubles \intersect {"no_priority"}}}

(* createAgpsStateMachines, called by initAgps if the device can do AGPS.  *)
(* A machine is made once; the callback of the SUPL machine goes to a      *)
(* registration of a higher priority than the last one's.                  *)
CreateAgpsStateMachines(cb) ==
  /\ AgpsCapable
  /\ created' = created \union {NifOf(t) : t \in cb.types}
  /\ cbPriority' = IF cb.priority > cbPriority THEN cb.priority ELSE cbPriority
  /\ created' # created \/ cbPriority' # cbPriority
  /\ UNCHANGED <<state, subscribers, agpsType, atl, inbox, held, lookups, ssrs>>

Init ==
  /\ created = {}
  /\ cbPriority = 0
  /\ state = [n \in Nif |-> "RELEASED"]
  /\ subscribers = [n \in Nif |-> {}]
  /\ agpsType = [n \in Nif |-> IF n = "agnss" THEN "SUPL" ELSE "WWAN_ANY"]
  /\ atl = [h \in Handle |-> "idle"]
  /\ inbox = [n \in Nif |-> <<>>]
  /\ held = [n \in Nif |-> FALSE]
  /\ lookups = [n \in Nif |-> 0]
  /\ ssrs = 0

FrameworkAnswer(n) ==
  \/ DataConnOpen(n)
  \/ DataConnOpenBadApn(n)
  \/ DataConnFailed(n)
  \/ DataConnClosed(n)

Next ==
  \/ \E cb \in Registered : CreateAgpsStateMachines(cb)
  \/ \E h \in Handle, t \in AtlType : RequestATL(h, t)
  \/ \E h \in Handle : ReleaseATL(h)
  \/ HandleModemSSR
  \/ \E n \in Nif : FrameworkAnswer(n)
  \/ \E n \in Nif : ReportPdnTypeFromWds(n)
  \/ \E n \in Nif : DataConnLost(n)

Spec == Init /\ [][Next]_vars

(* The framework answers every command and the WDS library every lookup:   *)
(* NativeAgpsHandler answers within the call, and the messages they post   *)
(* are served in order by the adapter's thread.  The modem in turn closes  *)
(* every connection it has open, as long as it is.                         *)
FrameworkFairness ==
  \A n \in Nif : WF_vars(FrameworkAnswer(n)) /\ WF_vars(ReportPdnTypeFromWds(n))

ModemFairness ==
  \A h \in Handle : WF_vars(atl[h] = "open" /\ ReleaseATL(h))

FairSpec == Spec /\ FrameworkFairness /\ ModemFairness

-----------------------------------------------------------------------------
(* Properties *)

(* A state machine is in RELEASED exactly when nobody subscribes to it     *)
(* (the comment of processAgpsEventReleased, Agps.cpp:208), through every  *)
(* order of requests, answers and modem restarts.                          *)
ReleasedIffNoSubscribers ==
  \A n \in Nif : state[n] = "RELEASED" <=> subscribers[n] = {}

(* A data connection is only being set up, or kept, for somebody: while it *)
(* is pending or acquired a subscriber is active (Agps.cpp:140-150).       *)
ConnectionIsWanted ==
  \A n \in Nif : state[n] \in {"PENDING", "ACQUIRED"} => Active(n) # {}

(* The newest command the framework has not answered *)
NewestIs(n, request) ==
  inbox[n] # <<>> /\ inbox[n][Len(inbox[n])].request = request

(* With access point names that are accepted and callbacks that have a     *)
(* priority, a machine never waits for an answer that will not come: in    *)
(* PENDING the newest command is a request the framework has to answer, or *)
(* a granted answer is on its way through the PDN lookup; in RELEASING the *)
(* newest command is the release.  A restart of the modem, and answers to  *)
(* older commands, must not break it.                                      *)
AnswerIsComing ==
  \A n \in Nif :
    /\ state[n] = "PENDING" => NewestIs(n, TRUE) \/ lookups[n] > 0
    /\ state[n] = "RELEASING" => NewestIs(n, FALSE)

(* The lists and what the modem was told agree.  An active subscriber is   *)
(* one that was told open exactly when the machine is ACQUIRED, and an     *)
(* inactive one waits for its close.                                       *)
StatusMatches ==
  \A n \in Nif : \A s \in subscribers[n] :
    atl[s.handle] = IF s.inactive THEN "closing"
                    ELSE IF state[n] = "ACQUIRED" THEN "open" ELSE "opening"

(* A handle is in at most one list, once. *)
OneSubscriptionPerHandle ==
  \A m, n \in Nif : \A s \in subscribers[m], t \in subscribers[n] :
    s.handle = t.handle => m = n /\ s = t

(* Every handle the modem has in use is in a list. *)
UsedHandlesSubscribe ==
  \A h \in Handle :
    atl[h] \in {"opening", "open", "closing"} =>
      \E n \in Nif : h \in HandlesOf(subscribers[n])

(* The three together: no order of requests, shared answers, forced closes *)
(* and restarts makes the modem's view and the subscriber lists drift      *)
(* apart (notifyAllSubscribers against addSubscriber and mIsInactive).     *)
SubscribersMatchModem ==
  StatusMatches /\ OneSubscriptionPerHandle /\ UsedHandlesSubscribe

(* With nothing in flight no data connection is left behind without        *)
(* subscribers ("If no subscribers in list, release data connection",      *)
(* Agps.cpp:140).                                                          *)
NoConnectionLeftBehind ==
  \A n \in Nif :
    inbox[n] = <<>> /\ lookups[n] = 0 /\ subscribers[n] = {} => ~held[n]

(* The emergency PDN is never asked for when gps.conf does not allow it    *)
(* (Agps.cpp:588-597), nor is an interface asked for another one's type.   *)
CommandsNameOwnType ==
  \A n \in Nif : \A i \in 1..Len(inbox[n]) :
    /\ NifOf(inbox[n][i].type) = n
    /\ inbox[n][i].type = "SUPL_ES" => UseEmergencyPdn

Service == INSTANCE AtlService

(* Agps implements the service the modem relies on *)
ImplementsAtlService == Service!Spec
EveryOpenAnswered == Service!EveryOpenAnswered
EveryCloseAnswered == Service!EveryCloseAnswered

=============================================================================
