-------------------------- MODULE LocationClients --------------------------
(***************************************************************************)
(* The clients of the HAL: LocationAPI objects (location/LocationAPI.cpp), *)
(* what the adapters keep of them (core/LocAdapterBase.cpp) and what the   *)
(* adapters register with the modem for them (core/LocApiBase.cpp).        *)
(*                                                                         *)
(* The client threads work under gDataMutex and only send messages, so a   *)
(* call is one step.  All adapters share one message thread                *)
(* (LocContext::getMsgTask), and LocApiBase has another one, which opens   *)
(* the modem.                                                              *)
(*                                                                         *)
(* The callbacks of a client are the set of the adapters they make it a    *)
(* client of (isGnssClient, isBatchingClient, isGeofenceClient), and an    *)
(* adapter either asks the modem for the events of its callbacks or not.   *)
(* The memory of a LocationAPI object is used again once it is deleted.    *)
(***************************************************************************)
EXTENDS Naturals, Sequences, SequencesExt

CONSTANTS
  LcObject,     \* memory for LocationAPI objects
  LcAdapter,    \* the adapters
  LcKinds,      \* the callbacks clients come with
  LcMayFail,    \* adapters whose library may be missing
  MaxLcCalls,   \* bound: calls of the clients
  MaxLcModem,   \* bound: modem restarts and lock changes
  MaxLcFails,   \* bound: openings of the modem that fail
  MaxLcQueue    \* bound: calls and modem events wait while more messages do

ASSUME LcGnssAssumption ==
  "gnss" \in LcAdapter /\ LcAdapter \subseteq {"gnss", "batching", "geofence"}
ASSUME LcKindsAssumption == LcKinds \subseteq SUBSET LcAdapter /\ LcMayFail \subseteq LcAdapter
ASSUME LcBoundsAssumption == {MaxLcCalls, MaxLcModem, MaxLcFails, MaxLcQueue} \subseteq Nat

VARIABLES
  lcLife,       \* what has become of the memory of each LocationAPI object
  lcData,       \* gData.clientData: the callbacks of the clients
  lcWait,       \* gData.destroyClientData: the adapters a destroy waits for
  lcHeard,      \* clients whose destroyCompleteCb was called
  lcLib,        \* gData.gnssInterface..., gGnssLoadFailed...
  lcQueue,      \* messages of Loc_hal_worker, oldest first
  lcClient,     \* mClientData of each adapter
  lcMask,       \* adapters whose mEvtMask asks for the events of callbacks
  lcKnown,      \* adapters with mIsEngineCapabilitiesKnown
  lcPending,    \* mPendingMsgs of each adapter: capability requests
  lcApi,        \* messages of LocApiMsgTask, oldest first
  lcModem,      \* what the modem reports, whether its lock lets it, whether
                \* its last opening failed, and the adapters that failure kept
                \* from hearing of it
  lcTold,       \* clients whose capabilitiesCb was called
  lcEvents      \* calls, modem events and failures so far

lcVars == <<lcLife, lcData, lcWait, lcHeard, lcLib, lcQueue, lcClient, lcMask, lcKnown,
            lcPending, lcApi, lcModem, lcTold, lcEvents>>
lcClientSide == <<lcLife, lcData, lcWait, lcHeard, lcLib>>
lcAdapterSide == <<lcClient, lcMask, lcKnown, lcPending>>

-----------------------------------------------------------------------------
(* Types *)

LcMessage ==
  [do: {"add"}, adapter: LcAdapter, object: LcObject, kinds: SUBSET LcAdapter]
    \cup [do: {"remove"}, adapter: LcAdapter, object: LcObject, tell: BOOLEAN]
    \cup [do: {"caps"}, adapter: LcAdapter, object: LcObject]
    \cup [do: {"up", "unlock"}, adapter: LcAdapter]

LcApiMessage == [do: {"open"}, up: SUBSET LcAdapter] \cup [do: {"ssr"}]

LcTypeOK ==
  /\ lcLife \in [LcObject -> {"free", "live", "destroyed"}]
  /\ DOMAIN lcWait \subseteq {o \in LcObject : lcLife[o] = "destroyed"}
  /\ DOMAIN lcData \subseteq {o \in LcObject : lcLife[o] = "live"}
  /\ Range(lcData) \cup Range(lcWait) \subseteq SUBSET LcAdapter
  /\ lcLib \in [LcAdapter -> {"no", "loaded", "failed"}]
  /\ lcQueue \in Seq(LcMessage) /\ lcApi \in Seq(LcApiMessage)
  /\ \A a \in LcAdapter :
       /\ DOMAIN lcClient[a] \subseteq LcObject
       /\ Range(lcClient[a]) \subseteq SUBSET LcAdapter
       /\ lcPending[a] \in Seq(LcObject)
  /\ lcMask \subseteq LcAdapter /\ lcKnown \subseteq LcAdapter
  /\ lcModem \in [asked: SUBSET LcAdapter, unlocked: BOOLEAN, failed: BOOLEAN,
                 missed: SUBSET LcAdapter]
  /\ lcTold \subseteq LcObject /\ lcHeard \subseteq LcObject
  /\ lcEvents \in [calls: 0..MaxLcCalls, modem: 0..MaxLcModem, fails: 0..MaxLcFails]

-----------------------------------------------------------------------------
(* Maps, libraries and messages *)

LcForget(f, o) == Restrict(f, DOMAIN f \ {o})
LcRemember(f, o, v) == [p \in DOMAIN f \cup {o} |-> IF p = o THEN v ELSE f[p]]

LcLoaded(lib) == {a \in LcAdapter : lib[a] = "loaded"}

(* What loadLibGnss, loadLibBatching and loadLibGeofencing may come to for *)
(* a set of adapters: each is tried once                                   *)
LcLoad(adapters) ==
  {lib \in [LcAdapter -> {"no", "loaded", "failed"}] :
     \A a \in LcAdapter :
       /\ a \notin adapters \/ lcLib[a] # "no" => lib[a] = lcLib[a]
       /\ a \in adapters => lib[a] # "no"
       /\ lib[a] = "failed" => lcLib[a] = "failed" \/ a \in LcMayFail}

(* The adapters of a set in the order the code has them, and one message   *)
(* for each of them                                                        *)
LcOrder(adapters) ==
  LET only(a) == IF a \in adapters THEN <<a>> ELSE <<>>
  IN only("gnss") \o only("batching") \o only("geofence")
LcEach(Message(_), adapters) ==
  [i \in DOMAIN LcOrder(adapters) |-> Message(LcOrder(adapters)[i])]

(* An adapter's constructor adds it to mLocAdapters, and LocOpenMsg tells  *)
(* it that the engine is up                                                *)
LcAddAdapters(lib) ==
  lcApi' = lcApi \o LcEach(LAMBDA a : [do |-> "open", up |-> {a}],
                           LcLoaded(lib) \ LcLoaded(lcLib))

LcRemoves(o, adapters, tell) ==
  LcEach(LAMBDA a : [do |-> "remove", adapter |-> a, object |-> o, tell |-> tell], adapters)

-----------------------------------------------------------------------------
(* The client threads *)

LcRoom == Len(lcQueue) + Len(lcApi) <= MaxLcQueue

LcCall ==
  /\ lcEvents.calls < MaxLcCalls
  /\ LcRoom
  /\ lcEvents' = [lcEvents EXCEPT !.calls = @ + 1]

(* createInstance: a client without any callback of an adapter, or whose   *)
(* adapters could not be loaded, becomes one of the GnssAdapter to hear of *)
(* the capabilities                                                        *)
LcCreate(o, kinds) ==
  /\ lcLife[o] = "free"
  /\ LcCall
  /\ \E own \in LcLoad(kinds) : \E lib \in LcLoad(kinds \cup {"gnss"}) :
       LET joined == kinds \cap LcLoaded(own)
           adapters == IF joined # {} THEN joined ELSE {"gnss"} \cap LcLoaded(lib)
           adds == LcEach(LAMBDA a : [do |-> "add", adapter |-> a, object |-> o,
                                      kinds |-> kinds], adapters)
           caps == [do |-> "caps", adapter |-> Head(adds).adapter, object |-> o]
       IN /\ \A a \in kinds : lib[a] = own[a]
          /\ lcLib' = IF joined # {} THEN own ELSE lib
          /\ lcQueue' = IF adapters = {} THEN lcQueue
                        ELSE lcQueue \o <<adds[1], caps>> \o Tail(adds)
  /\ LcAddAdapters(lcLib')
  /\ lcLife' = [lcLife EXCEPT ![o] = "live"]
  /\ lcData' = LcRemember(lcData, o, kinds)
  /\ lcTold' = lcTold \ {o} /\ lcHeard' = lcHeard \ {o}
  /\ UNCHANGED <<lcWait, lcAdapterSide, lcModem>>

(* updateCallbacks; a client of GnssAdapter that has no callback of it     *)
(* stays one                                                               *)
LcUpdate(o, kinds) ==
  /\ o \in DOMAIN lcData
  /\ LcCall
  /\ \E lib \in LcLoad(kinds) :
       LET message(a) ==
             IF a \in kinds
             THEN [do |-> "add", adapter |-> a, object |-> o, kinds |-> kinds]
             ELSE [do |-> "remove", adapter |-> a, object |-> o, tell |-> FALSE]
       IN /\ lcLib' = lib
          /\ lcQueue' = lcQueue \o
               LcEach(message, LcLoaded(lib) \cap (kinds \cup lcData[o]))
  /\ LcAddAdapters(lcLib')
  /\ lcData' = LcRemember(lcData, o, kinds)
  /\ UNCHANGED <<lcLife, lcWait, lcHeard, lcAdapterSide, lcModem, lcTold>>

(* Mutant: only the GnssAdapter is waited for                              *)
MutantLcDestroy(o, told) ==
  LET adapters == LcLoaded(lcLib) IN
  /\ o \in DOMAIN lcData
  /\ adapters = {} => told
  /\ LcCall
  /\ lcData' = LcForget(lcData, o)
  /\ lcLife' = [lcLife EXCEPT ![o] = IF adapters = {} THEN "free" ELSE "destroyed"]
  /\ lcWait' = IF told /\ adapters # {} THEN LcRemember(lcWait, o, adapters \cap {"gnss"})
               ELSE lcWait
  /\ lcQueue' = lcQueue \o LcRemoves(o, adapters, TRUE)
  /\ UNCHANGED <<lcHeard, lcLib, lcAdapterSide, lcApi, lcModem, lcTold>>

(* What the end of a destroy does with the client's callback, at both      *)
(* places: it is called if there is none                                   *)
LcEnded(o, told) == lcHeard' = IF told THEN lcHeard ELSE lcHeard \cup {o}

(* destroy, with a callback or without: every adapter that is loaded       *)
(* removes the client.  With none loaded the object goes at once; then a   *)
(* missing callback would be called, which ends the process: that is left  *)
(* out.                                                                    *)
LcDestroy(o, told) ==
  LET adapters == LcLoaded(lcLib) IN
  /\ o \in DOMAIN lcData
  /\ adapters = {} => told
  /\ LcCall
  /\ lcData' = LcForget(lcData, o)
  /\ lcLife' = [lcLife EXCEPT ![o] = IF adapters = {} THEN "free" ELSE "destroyed"]
  /\ lcWait' = IF told /\ adapters # {} THEN LcRemember(lcWait, o, adapters) ELSE lcWait
  /\ \/ adapters = {} /\ LcEnded(o, told)
     \/ adapters # {} /\ lcHeard' = lcHeard
  /\ lcQueue' = lcQueue \o LcRemoves(o, adapters, TRUE)
  /\ UNCHANGED <<lcLib, lcAdapterSide, lcApi, lcModem, lcTold>>

-----------------------------------------------------------------------------
(* The message thread of the adapters *)

LcReceive(do) ==
  /\ lcQueue # <<>>
  /\ Head(lcQueue).do = do

(* Mutant: the modem is only asked again for more                          *)
MutantLcSetClients(a, clients) ==
  LET asks == \E p \in DOMAIN clients : a \in clients[p] IN
  /\ lcClient' = [lcClient EXCEPT ![a] = clients]
  /\ lcMask' = IF asks THEN lcMask \cup {a} ELSE lcMask \ {a}
  /\ lcApi' = IF asks THEN Append(lcApi, [do |-> "open", up |-> {}]) ELSE lcApi

(* saveClient and eraseClient: updateClientsEventMask sets mEvtMask, and   *)
(* updateEvtMask has the modem opened with it                              *)
LcSetClients(a, clients) ==
  /\ lcClient' = [lcClient EXCEPT ![a] = clients]
  /\ lcMask' = IF \E p \in DOMAIN clients : a \in clients[p]
               THEN lcMask \cup {a} ELSE lcMask \ {a}
  /\ lcApi' = Append(lcApi, [do |-> "open", up |-> {}])

LcProcAdd ==
  /\ LcReceive("add")
  /\ LET m == Head(lcQueue)
     IN LcSetClients(m.adapter, LcRemember(lcClient[m.adapter], m.object, m.kinds))
  /\ lcQueue' = Tail(lcQueue)
  /\ UNCHANGED <<lcClientSide, lcKnown, lcPending, lcModem, lcTold, lcEvents>>

(* Mutant: the mask is looked at before the adapter is taken out           *)
MutantLcRemoveComplete(o, a) ==
  LET wait == lcWait[o] \ {a} IN
  IF o \notin DOMAIN lcWait
  THEN UNCHANGED <<lcWait, lcHeard, lcLife>>
  ELSE /\ lcWait' = IF lcWait[o] = {} THEN LcForget(lcWait, o) ELSE LcRemember(lcWait, o, wait)
       /\ lcLife' = IF lcWait[o] = {} THEN [lcLife EXCEPT ![o] = "free"] ELSE lcLife
       /\ lcHeard' = lcHeard

(* Mutant: what the destroy waited for is not forgotten                    *)
MutantLcRemoveKept(o, a) ==
  LET wait == lcWait[o] \ {a} IN
  IF o \notin DOMAIN lcWait
  THEN UNCHANGED <<lcWait, lcHeard, lcLife>>
  ELSE /\ lcWait' = LcRemember(lcWait, o, wait)
       /\ lcLife' = IF wait = {} THEN [lcLife EXCEPT ![o] = "free"] ELSE lcLife
       /\ lcHeard' = lcHeard

(* onRemoveClientCompleteCb: the last adapter deletes the object.  Whoever *)
(* is in the map has given a callback.                                     *)
LcRemoveComplete(o, a) ==
  LET wait == lcWait[o] \ {a} IN
  \/ o \notin DOMAIN lcWait /\ UNCHANGED <<lcWait, lcHeard, lcLife>>
  \/ /\ o \in DOMAIN lcWait /\ wait # {}
     /\ lcWait' = LcRemember(lcWait, o, wait)
     /\ UNCHANGED <<lcHeard, lcLife>>
  \/ /\ o \in DOMAIN lcWait /\ wait = {}
     /\ lcWait' = LcForget(lcWait, o)
     /\ lcLife' = [lcLife EXCEPT ![o] = "free"]
     /\ LcEnded(o, TRUE)

LcProcRemove ==
  /\ LcReceive("remove")
  /\ LET m == Head(lcQueue)
     IN /\ LcSetClients(m.adapter, LcForget(lcClient[m.adapter], m.object))
        /\ IF m.tell THEN LcRemoveComplete(m.object, m.adapter)
           ELSE UNCHANGED <<lcWait, lcHeard, lcLife>>
  /\ lcQueue' = Tail(lcQueue)
  /\ UNCHANGED <<lcData, lcLib, lcKnown, lcPending, lcModem, lcTold, lcEvents>>

(* MsgRequestCapabilities waits in mPendingMsgs until they are known       *)
LcProcCapabilities ==
  /\ LcReceive("caps")
  /\ LET m == Head(lcQueue)
         a == m.adapter
     IN IF a \in lcKnown
        THEN /\ lcTold' = lcTold \cup ({m.object} \cap DOMAIN lcClient[a])
             /\ UNCHANGED lcPending
        ELSE /\ lcPending' = [lcPending EXCEPT ![a] = Append(@, m.object)]
             /\ UNCHANGED lcTold
  /\ lcQueue' = Tail(lcQueue)
  /\ UNCHANGED <<lcClientSide, lcClient, lcMask, lcKnown, lcApi, lcModem, lcEvents>>

(* The pending messages are sent again, behind those that wait             *)
LcReplay(a) ==
  /\ lcQueue' = Tail(lcQueue) \o
       [i \in DOMAIN lcPending[a] |->
          [do |-> "caps", adapter |-> a, object |-> lcPending[a][i]]]
  /\ lcPending' = [lcPending EXCEPT ![a] = <<>>]

(* Mutant: the capabilities are left to the pending requests               *)
MutantLcProcUp ==
  /\ LcReceive("up")
  /\ LET a == Head(lcQueue).adapter
     IN /\ lcKnown' = lcKnown \cup {a}
        /\ UNCHANGED lcTold
        /\ IF lcModem.unlocked THEN LcReplay(a)
           ELSE lcQueue' = Tail(lcQueue) /\ UNCHANGED lcPending
  /\ UNCHANGED <<lcClientSide, lcClient, lcMask, lcApi, lcModem, lcEvents>>

(* MsgHandleEngineUpEvent, MsgSSREvent: the capabilities go to all clients *)
LcProcUp ==
  /\ LcReceive("up")
  /\ LET a == Head(lcQueue).adapter
     IN /\ lcKnown' = lcKnown \cup {a}
        /\ lcTold' = lcTold \cup DOMAIN lcClient[a]
        /\ IF lcModem.unlocked THEN LcReplay(a)
           ELSE lcQueue' = Tail(lcQueue) /\ UNCHANGED lcPending
  /\ UNCHANGED <<lcClientSide, lcClient, lcMask, lcApi, lcModem, lcEvents>>

(* MsgEngineLockStateEvent of an engine that is no longer locked           *)
LcProcUnlock ==
  /\ LcReceive("unlock")
  /\ LcReplay(Head(lcQueue).adapter)
  /\ UNCHANGED <<lcClientSide, lcClient, lcMask, lcKnown, lcApi, lcModem, lcTold, lcEvents>>

-----------------------------------------------------------------------------
(* LocApiMsgTask and the modem *)

(* open(getEvtMask()), and handleEngineUpEvent of some adapters            *)
LcOpenModem(up) ==
  /\ lcModem' = [lcModem EXCEPT !.asked = lcMask \cap LcLoaded(lcLib),
                                !.failed = FALSE, !.missed = @ \ up]
  /\ lcQueue' = lcQueue \o LcEach(LAMBDA a : [do |-> "up", adapter |-> a], up)
  /\ UNCHANGED lcEvents

(* open() fails: the modem keeps what it was asked for before, no adapter  *)
(* hears anything, and nobody tries again                                  *)
LcOpenFails(up) ==
  /\ lcEvents.fails < MaxLcFails
  /\ lcEvents' = [lcEvents EXCEPT !.fails = @ + 1]
  /\ lcModem' = [lcModem EXCEPT !.failed = TRUE, !.missed = @ \cup up]
  /\ UNCHANGED lcQueue

LcProcOpen ==
  /\ lcApi # <<>>
  /\ Head(lcApi).do = "open"
  /\ LcOpenModem(Head(lcApi).up) \/ LcOpenFails(Head(lcApi).up)
  /\ lcApi' = Tail(lcApi)
  /\ UNCHANGED <<lcClientSide, lcAdapterSide, lcTold>>

LcProcSsr ==
  /\ lcApi # <<>>
  /\ Head(lcApi).do = "ssr"
  /\ LcOpenModem(LcLoaded(lcLib)) \/ LcOpenFails(LcLoaded(lcLib))
  /\ lcApi' = Tail(lcApi)
  /\ UNCHANGED <<lcClientSide, lcAdapterSide, lcTold>>

LcModemEvent ==
  /\ lcEvents.modem < MaxLcModem
  /\ LcRoom
  /\ lcEvents' = [lcEvents EXCEPT !.modem = @ + 1]

(* The modem restarts and has forgotten what it was asked for              *)
LcModemDown ==
  /\ LcModemEvent
  /\ lcModem' = [lcModem EXCEPT !.asked = {}]
  /\ lcApi' = Append(lcApi, [do |-> "ssr"])
  /\ UNCHANGED <<lcClientSide, lcAdapterSide, lcQueue, lcTold>>

(* reportEngineLockStatus: the GeofenceAdapter has no handler for it, and  *)
(* the others do nothing here when the engine gets locked                  *)
LcModemLock ==
  /\ LcModemEvent
  /\ lcModem' = [lcModem EXCEPT !.unlocked = ~@]
  /\ lcQueue' = IF lcModem.unlocked THEN lcQueue
                ELSE lcQueue \o LcEach(LAMBDA a : [do |-> "unlock", adapter |-> a],
                                       LcLoaded(lcLib) \ {"geofence"})
  /\ UNCHANGED <<lcClientSide, lcAdapterSide, lcApi, lcTold>>

-----------------------------------------------------------------------------
(* The specification *)

LcInit ==
  /\ lcLife = [o \in LcObject |-> "free"]
  /\ lcData = <<>> /\ lcWait = <<>>
  /\ lcLib = [a \in LcAdapter |-> "no"]
  /\ lcQueue = <<>> /\ lcApi = <<>>
  /\ lcClient = [a \in LcAdapter |-> <<>>]
  /\ lcMask = {} /\ lcKnown = {}
  /\ lcPending = [a \in LcAdapter |-> <<>>]
  /\ lcModem = [asked |-> {}, unlocked |-> FALSE, failed |-> FALSE, missed |-> {}]
  /\ lcTold = {} /\ lcHeard = {}
  /\ lcEvents = [calls |-> 0, modem |-> 0, fails |-> 0]

LcClientNext ==
  \E o \in LcObject :
    \/ \E kinds \in LcKinds : LcCreate(o, kinds) \/ LcUpdate(o, kinds)
    \/ \E told \in BOOLEAN : LcDestroy(o, told)

LcAdapterNext ==
  \/ LcProcAdd
  \/ LcProcRemove
  \/ LcProcCapabilities
  \/ LcProcUp
  \/ LcProcUnlock

LcApiNext == LcProcOpen \/ LcProcSsr

LcModemNext == LcModemDown \/ LcModemLock

LcNext == LcClientNext \/ LcAdapterNext \/ LcApiNext \/ LcModemNext

(* Both message threads run for ever (MTRunnable::run); clients and modem  *)
(* owe nothing                                                             *)
LcFairness == WF_lcVars(LcAdapterNext) /\ WF_lcVars(LcApiNext)

LcSpec == LcInit /\ [][LcNext]_lcVars /\ LcFairness

-----------------------------------------------------------------------------
(* Properties *)

LcMessages(do) == {lcQueue[i] : i \in {j \in DOMAIN lcQueue : lcQueue[j].do = do}}

(* A LocationAPI object that was destroyed with a callback is deleted when *)
(* nobody works with it any more: no adapter keeps it, no message that     *)
(* makes it a client is left, and the adapters waited for are those that   *)
(* still have to remove it (LocationAPI.cpp:333-395, :194-219).            *)
NobodyHasTheDeleted ==
  /\ \A o \in LcObject : lcLife[o] = "free" =>
       /\ \A a \in LcAdapter : o \notin DOMAIN lcClient[a]
       /\ \A m \in LcMessages("add") \cup LcMessages("remove") : m.object # o
  /\ \A o \in DOMAIN lcWait :
       lcWait[o] = {m.adapter : m \in {n \in LcMessages("remove") : n.tell /\ n.object = o}}

(* Once LocApiMsgTask is through, the modem reports what the clients of    *)
(* the adapters ask for, neither less nor more, whatever restarts came in  *)
(* between and whatever openings failed before the last one                *)
(* (LocApiBase.cpp:301-304, LocSsrMsg :104-124).                           *)
EventsAreRegistered ==
  lcApi = <<>> /\ ~lcModem.failed => lcModem.asked =
    {a \in LcAdapter : \E o \in DOMAIN lcClient[a] : a \in lcClient[a][o]}

(* Clients that come and go while the adapters' messages are under way     *)
(* leave neither events without a client nor clients that are deleted      *)
(* (LocationAPI.cpp:236-395, LocAdapterBase.cpp:391-441).                  *)
ClientsAreWhoIsThere == NobodyHasTheDeleted /\ EventsAreRegistered

(* A destroy with a callback ends with the deletion of the object          *)
(* (LocationAPI.cpp:349-363); the client does not hear of it.              *)
DestroyEnds ==
  \A o \in LcObject : o \in DOMAIN lcWait ~> o \notin DOMAIN lcWait

(* Who asked for the capabilities before they were known hears of them, or *)
(* leaves that adapter before they are, also while the engine is locked,   *)
(* unless the opening that would have told the adapter failed              *)
(* (LocAdapterBase.cpp:443-469, LocApiBase.cpp:113, :135).                 *)
CapabilitiesTold ==
  \A o \in LcObject, a \in LcAdapter :
    o \in ToSet(lcPending[a]) /\ a \notin lcKnown
      ~> o \in lcTold \/ o \notin DOMAIN lcClient[a] \/ a \in lcModem.missed

(* What a client asked of the adapters is carried out: it is removed, and  *)
(* hears of the capabilities (LocAdapterBase.cpp:414-469).  That it hears  *)
(* of its removal is not claimed: lcHeard keeps who does, and no client    *)
(* whose removal was waited for is ever in it (LocationAPI.cpp:213).       *)
ClientsAreTold == DestroyEnds /\ CapabilitiesTold

=============================================================================
