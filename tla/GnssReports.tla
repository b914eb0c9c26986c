---------------------------- MODULE GnssReports ----------------------------
(***************************************************************************)
(* How GnssAdapter passes the modem's reports on to its clients            *)
(* (GnssAdapter.cpp:4350-5260).  The modem reports a position to two:      *)
(* the message thread of the adapter, now or, when the position is of a    *)
(* time to come, then; and the engine hub, which reports a fused position  *)
(* some time later.  While the precise positioning feature is on, clients  *)
(* hear the position of each engine, and the fused one is the position;    *)
(* while it is off, the modem's is both.  Each handler looks at the        *)
(* feature, the sessions and the callbacks of that moment.  The report of  *)
(* satellites is flagged with those the last position used.                *)
(*                                                                         *)
(* Which reports the modem sends follows a mask, which each change of the  *)
(* clients or of the feature computes again on the message thread, and     *)
(* which the engine hub changes on a thread of its own                     *)
(* (GnssAdapter.cpp:3049-3176, 8490-8512).                                 *)
(*                                                                         *)
(* The sessions are Tracking's, the text of sentences is NmeaSentences'.   *)
(***************************************************************************)
EXTENDS Naturals, Sequences

CONSTANTS
  GrClient,       \* clients
  GrCallbacks,    \* GrCallbacks[c]: the sets of callbacks a client registers
  GrQuality,      \* GrQuality[c]: the kinds of sessions a client starts
  GrConf,         \* configurations, see GrConfOK
  GrFix,          \* the kinds of fixes the modem reports, see GrFixOK
  MaxGrFixes,     \* bound: positions
  MaxGrEvents     \* bound: positions and what clients and the engine hub do

(* intermediate: INTERMEDIATE_POS of gps.conf; glib: a build with glib;    *)
(* fast: positions come twice a second and sentences once; sentences:      *)
(* mNmeaReqEngTypeMask                                                     *)
GrConfOK ==
  [intermediate: BOOLEAN, glib: BOOLEAN, fast: BOOLEAN, sentences: SUBSET {"fused", "spe"}]

(* used: it says which satellites it used; late: it is of a time to come;  *)
(* whole: its time of week is that of a whole second                       *)
GrStatus == {"success", "intermediate", "failure"}
GrFixOK == [status: GrStatus, used: BOOLEAN, late: BOOLEAN, whole: BOOLEAN]

GrCallback == {"location", "tracking", "engine", "nmea", "sv", "nhz"}

ASSUME GrAssumption ==
  /\ GrCallbacks \in [GrClient -> SUBSET SUBSET GrCallback]
  /\ GrQuality \in [GrClient -> SUBSET (GrStatus \cup {"distance"})]
  /\ GrConf \subseteq GrConfOK /\ GrFix \subseteq GrFixOK
  /\ MaxGrFixes \in Nat /\ MaxGrEvents \in Nat

VARIABLES
  grConf,      \* the configuration
  grClients,   \* mClientData: the callbacks of each client, {} if it is not there
  grSessions,  \* the session of each client: its qualityLevelAccepted, "distance", "none"
  grPrecise,   \* isPreciseEnabled
  grUsed,      \* the position of mGnssSvIdUsedInPosition, 0 if not mGnssSvIdUsedInPosAvail
  grLastNmea,  \* mPrevNmeaRptTimeNsec: the position sentences were made for last, or 0
  grInbox,     \* messages of the message thread
  grLater,     \* positions whose message waits for their time
  grHub,       \* positions the engine hub has not reported yet
  grMask,      \* mEvtMask
  grOpening,   \* a LocOpenMsg is under way
  grModem,     \* the mask the modem was opened with
  grHubCall,   \* updateNHzRequirementCb, between its read and its write of mEvtMask
  grNeedsNHz,  \* mNHzNeeded
  grEvents,    \* what clients and the engine hub did, in all
  grFixes,     \* the positions the modem reported, and who is to hear of them
  grTold,      \* what clients were told: <<client, position, what>>
  grTwice,     \* what they were told again
  grFlagged,   \* reports of satellites: <<position before it, position of the flags>>
  grLost       \* bits of the mask another thread's change took away

grVars == <<grConf, grClients, grSessions, grPrecise, grUsed, grLastNmea, grInbox,
            grLater, grHub, grMask, grOpening, grModem, grHubCall, grNeedsNHz,
            grEvents, grFixes, grTold, grTwice, grFlagged, grLost>>

grMasks == <<grMask, grOpening, grModem, grHubCall, grNeedsNHz, grLost>>
grReports == <<grInbox, grLater, grHub>>
grHeard == <<grTold, grTwice, grFlagged>>
grKept == <<grUsed, grLastNmea>>

-----------------------------------------------------------------------------
(* Types *)

GrBits == {"position", "satellites", "nhz", "measurement"}
GrWhat == {"location", "tracking", "fused", "spe", "nmea fused", "nmea spe"}
GrNumber == 1..MaxGrFixes

GrMessage ==
  [do: {"spe", "engine", "sv"}, fix: GrNumber] \cup [do: {"feature"}, on: BOOLEAN]

(* hears: the clients whose session wanted it when it came and has not     *)
(* changed since, nor has the feature; thrown: there was no session when   *)
(* it was handled                                                          *)
GrFixRecord ==
  [fix: GrFix, hears: SUBSET GrClient, switched: BOOLEAN, thrown: BOOLEAN, sv: BOOLEAN]

GrTypeOK ==
  /\ grConf \in GrConf
  /\ grClients \in [GrClient -> SUBSET GrCallback]
  /\ grSessions \in [GrClient -> GrStatus \cup {"distance", "none"}]
  /\ grPrecise \in BOOLEAN /\ grOpening \in BOOLEAN /\ grNeedsNHz \in BOOLEAN
  /\ grUsed \in 0..MaxGrFixes /\ grLastNmea \in 0..MaxGrFixes
  /\ grInbox \in Seq(GrMessage)
  /\ grLater \subseteq GrNumber /\ grHub \subseteq GrNumber
  /\ grMask \subseteq GrBits /\ grModem \subseteq GrBits /\ grLost \subseteq GrBits
  /\ grHubCall \in {<<>>} \cup ((SUBSET GrBits) \X BOOLEAN \X BOOLEAN)
  /\ grEvents \in 0..MaxGrEvents
  /\ grFixes \in Seq(GrFixRecord) /\ Len(grFixes) <= MaxGrFixes
  /\ grTold \cup grTwice \subseteq GrClient \X GrNumber \X GrWhat
  /\ grFlagged \subseteq GrNumber \X (0..MaxGrFixes)

-----------------------------------------------------------------------------
(* Who is to hear of a position *)

GrRank == [success |-> 0, intermediate |-> 1, failure |-> 2]

GrTimeBased(c) == grSessions[c] \in GrStatus
GrInSession == \E c \in GrClient : grSessions[c] # "none"

(* qualityLevelAccepted, of a time based session *)
GrLevelAccepts(c, status) == GrTimeBased(c) /\ GrRank[grSessions[c]] >= GrRank[status]

(* Mutant: distance based sessions only hear of final fixes *)
MutantGrNeedsReport(c, status) == status = "success" \/ GrLevelAccepts(c, status)

(* needReportForClient *)
GrNeedsReport(c, status) ==
  \/ status = "success"
  \/ status # "failure" /\ grSessions[c] = "distance"
  \/ GrLevelAccepts(c, status)

(* needReportForAnyClient *)
GrAnyNeedsReport(status) == \E c \in GrClient : GrNeedsReport(c, status)

(* needReportForAllClients, of fixes with satellites and any accuracy *)
GrAllNeedReport(status) ==
  \/ grPrecise /\ grConf.glib
  \/ IF grConf.intermediate THEN status # "failure" ELSE status = "success"

GrHas(callback) == {c \in GrClient : callback \in grClients[c]}

(* Which of its callbacks gets a position, in reportPosition *)
GrHears(c) ==
  IF "location" \in grClients[c] THEN {"location"}
  ELSE IF "engine" \in grClients[c] /\ ~grPrecise THEN {"fused", "spe"}
  ELSE {"tracking"} \cap grClients[c]

(* reportPosition *)
GrPosition(n) ==
  LET status == grFixes[n].fix.status
      heard  == {c \in GrClient : /\ GrAnyNeedsReport(status) \/ GrAllNeedReport(status)
                                  /\ GrNeedsReport(c, status) \/ GrAllNeedReport(status)}
  IN UNION {{<<c, n, what>> : what \in GrHears(c)} : c \in heard}

(* The callbacks for the positions of each engine, in reportEnginePositions *)
GrEnginePosition(n, engine) ==
  {<<c, n, engine>> : c \in {d \in GrHas("engine") : GrNeedsReport(d, grFixes[n].fix.status)}}

(* Mutant: the time of the last sentences is that of any engine *)
MutantGrMakesSentences(n) ==
  /\ \E c \in GrClient : GrTimeBased(c)
  /\ grLastNmea = 0 \/ grLastNmea < n

(* needToGenerateNmeaReport, with two positions in a second if it is fast *)
GrMakesSentences(n) ==
  /\ \E c \in GrClient : GrTimeBased(c)
  /\ \/ ~grConf.fast
     \/ grLastNmea = 0 \/ grFixes[n].fix.whole
     \/ n - grLastNmea >= 2

(* reportPositionNmea: the sentences are the clients' whatever the status *)
GrSentences(n, engine) ==
  LET engines == (IF grPrecise THEN {engine} ELSE {"fused", "spe"}) \cap grConf.sentences
  IN IF GrMakesSentences(n)
     THEN {<<c, n, IF e = "fused" THEN "nmea fused" ELSE "nmea spe">> :
             c \in GrHas("nmea"), e \in engines}
     ELSE {}

GrTell(told) ==
  /\ grTold' = grTold \cup told
  /\ grTwice' = grTwice \cup (grTold \cap told)

GrStamp(n) == grLastNmea' = IF GrMakesSentences(n) THEN n ELSE grLastNmea

-----------------------------------------------------------------------------
(* The mask *)

(* The bits the callbacks of clients ask for *)
GrBitsOf(callbacks) ==
  (IF callbacks \cap {"location", "tracking", "engine", "nmea"} # {} THEN {"position"} ELSE {})
  \cup (IF callbacks \cap {"nmea", "sv"} # {} THEN {"satellites"} ELSE {})
  \cup (callbacks \cap {"nhz"})

GrBitsOfAll(clients) == UNION {GrBitsOf(clients[c]) : c \in GrClient}

(* Mutant: what the engine hub asked for is forgotten *)
MutantGrEventMask(clients, precise) ==
  GrBitsOfAll(clients) \cup IF precise THEN {"measurement"} ELSE {}

(* updateClientsEventMask *)
GrEventMask(clients, precise) ==
  GrBitsOfAll(clients)
  \cup IF precise
       THEN {"measurement"} \cup (grMask \cap {"nhz"})
            \cup (IF grNeedsNHz THEN {"nhz"} ELSE {})
       ELSE {}

(* updateEvtMask on the message thread, with LOC_REGISTRATION_MASK_SET *)
GrSetMask(clients, precise) ==
  /\ grMask' = GrEventMask(clients, precise)
  /\ grLost' = {}
  /\ grOpening' = TRUE
  /\ UNCHANGED <<grModem, grHubCall, grNeedsNHz>>

-----------------------------------------------------------------------------
(* Clients, whose commands the message thread handles *)

GrEvent == grEvents + Len(grFixes) < MaxGrEvents /\ grEvents' = grEvents + 1

(* Who changes hears of what comes after *)
GrChanges(c) ==
  grFixes' = [n \in DOMAIN grFixes |-> [grFixes[n] EXCEPT !.hears = @ \ {c}]]

(* Mutant: the mask stays as it was *)
MutantGrAddClient(c, callbacks) ==
  /\ grClients[c] = {} /\ GrEvent
  /\ grClients' = [grClients EXCEPT ![c] = callbacks]
  /\ UNCHANGED <<grMasks, grConf, grSessions, grPrecise, grKept, grReports, grFixes, grHeard>>

(* addClientCommand, saveClient *)
GrAddClient(c, callbacks) ==
  /\ grClients[c] = {} /\ GrEvent
  /\ grClients' = [grClients EXCEPT ![c] = callbacks]
  /\ GrSetMask(grClients', grPrecise)
  /\ UNCHANGED <<grConf, grSessions, grPrecise, grKept, grReports, grFixes, grHeard>>

(* removeClientCommand: stopClientSessions, eraseClient *)
GrRemoveClient(c) ==
  /\ grClients[c] # {} /\ GrEvent
  /\ grClients' = [grClients EXCEPT ![c] = {}]
  /\ grSessions' = [grSessions EXCEPT ![c] = "none"]
  /\ GrSetMask(grClients', grPrecise)
  /\ GrChanges(c)
  /\ UNCHANGED <<grConf, grPrecise, grKept, grReports, grHeard>>

(* saveTrackingSession; the first time based session forgets when          *)
(* sentences were made last                                                *)
GrStartTracking(c, quality) ==
  /\ grClients[c] # {} /\ grSessions[c] = "none" /\ GrEvent
  /\ grSessions' = [grSessions EXCEPT ![c] = quality]
  /\ grLastNmea' = IF quality # "distance" /\ ~\E d \in GrClient : GrTimeBased(d)
                   THEN 0 ELSE grLastNmea
  /\ GrChanges(c)
  /\ UNCHANGED <<grMasks, grConf, grClients, grPrecise, grUsed, grReports, grHeard>>

(* eraseTrackingSession *)
GrStopTracking(c) ==
  /\ grSessions[c] # "none" /\ GrEvent
  /\ grSessions' = [grSessions EXCEPT ![c] = "none"]
  /\ GrChanges(c)
  /\ UNCHANGED <<grMasks, grConf, grClients, grPrecise, grKept, grReports, grHeard>>

-----------------------------------------------------------------------------
(* The modem *)

GrSend(m) == grInbox' = Append(grInbox, m)

GrSpe(n) == [do |-> "spe", fix |-> n]

(* reportPositionEvent: the engine hub gets it at once, the message thread *)
(* when its time has come                                                  *)
GrReportPosition(fix) ==
  LET n == Len(grFixes) + 1 IN
  /\ Len(grFixes) < MaxGrFixes /\ "position" \in grModem
  /\ grEvents + Len(grFixes) < MaxGrEvents
  /\ grFixes' = Append(grFixes,
       [fix |-> fix, switched |-> FALSE, thrown |-> FALSE, sv |-> FALSE,
        hears |-> {c \in GrClient :
                     IF grSessions[c] = "distance" THEN fix.status # "failure"
                     ELSE GrLevelAccepts(c, fix.status)}])
  /\ grHub' = grHub \cup {n}
  /\ IF fix.late
     THEN grLater' = grLater \cup {n} /\ UNCHANGED grInbox
     ELSE GrSend(GrSpe(n)) /\ UNCHANGED grLater
  /\ UNCHANGED <<grMasks, grConf, grClients, grSessions, grPrecise, grKept, grEvents, grHeard>>

(* The delayed message is sent *)
GrTimeComes(n) ==
  /\ n \in grLater
  /\ grLater' = grLater \ {n} /\ GrSend(GrSpe(n))
  /\ UNCHANGED <<grMasks, grConf, grClients, grSessions, grPrecise, grKept, grHub, grEvents,
                 grFixes, grHeard>>

(* reportSvEvent, once after a position *)
GrReportSv ==
  LET n == Len(grFixes) IN
  /\ n > 0 /\ "satellites" \in grModem /\ ~grFixes[n].sv
  /\ grFixes' = [grFixes EXCEPT ![n].sv = TRUE]
  /\ GrSend([do |-> "sv", fix |-> n])
  /\ UNCHANGED <<grMasks, grConf, grClients, grSessions, grPrecise, grKept, grLater, grHub,
                 grEvents, grHeard>>

(* LocOpenMsg *)
GrOpen ==
  /\ grOpening
  /\ grOpening' = FALSE /\ grModem' = grMask
  /\ UNCHANGED <<grMask, grHubCall, grNeedsNHz, grLost, grConf, grClients, grSessions,
                 grPrecise, grKept, grReports, grEvents, grFixes, grHeard>>

-----------------------------------------------------------------------------
(* The engine hub *)

(* Mutant: what comes while the feature is off is passed on, too *)
MutantGrHubReports(n) ==
  /\ n \in grHub /\ \A k \in grHub : n <= k
  /\ grHub' = grHub \ {n}
  /\ GrSend([do |-> "spe", fix |-> n])
  /\ UNCHANGED <<grMasks, grConf, grClients, grSessions, grPrecise, grKept, grLater, grEvents,
                 grFixes, grHeard>>

(* reportEnginePositionsEvent, with the fused position; the engine hub     *)
(* reports them in their order                                             *)
GrHubReports(n) ==
  /\ n \in grHub /\ \A k \in grHub : n <= k
  /\ grHub' = grHub \ {n}
  /\ IF grPrecise THEN GrSend([do |-> "engine", fix |-> n]) ELSE UNCHANGED grInbox
  /\ UNCHANGED <<grMasks, grConf, grClients, grSessions, grPrecise, grKept, grLater, grEvents,
                 grFixes, grHeard>>

(* handleQesdkQwesStatusFromEHub *)
GrFeatureChanges ==
  /\ GrEvent
  /\ GrSend([do |-> "feature", on |-> ~grPrecise])
  /\ UNCHANGED <<grMasks, grConf, grClients, grSessions, grPrecise, grKept, grLater, grHub,
                 grFixes, grHeard>>

(* updateNHzRequirementCb, which asks for measurements and sessions        *)
(* together: mEvtMask is read, and whether it is to be changed: a wish for *)
(* what is there already takes it away, and what is not there and not      *)
(* wished for leaves it alone                                              *)
GrNHzRead(wanted) ==
  /\ grHubCall = <<>> /\ GrEvent
  /\ grHubCall' = <<IF wanted /\ "nhz" \notin grMask THEN grMask \cup {"nhz"}
                    ELSE grMask \ {"nhz"}, wanted, wanted \/ "nhz" \in grMask>>
  /\ UNCHANGED <<grMask, grOpening, grModem, grNeedsNHz, grLost, grConf, grClients, grSessions,
                 grPrecise, grKept, grReports, grFixes, grHeard>>

(* and written if it is to be changed, and mNHzNeeded set                  *)
GrNHzWrite ==
  /\ grHubCall # <<>>
  /\ grNeedsNHz' = grHubCall[2] /\ grHubCall' = <<>>
  /\ \/ /\ grHubCall[3]
        /\ grMask' = grHubCall[1] /\ grOpening' = TRUE
        /\ grLost' = grLost \cup ((grMask \cup IF grHubCall[2] THEN {"nhz"} ELSE {}) \ grHubCall[1])
     \/ ~grHubCall[3] /\ UNCHANGED <<grMask, grOpening, grLost>>
  /\ UNCHANGED <<grModem, grConf, grClients, grSessions, grPrecise, grKept, grReports,
                 grEvents, grFixes, grHeard>>

-----------------------------------------------------------------------------
(* The message thread *)

GrReceive(do) == grInbox # <<>> /\ Head(grInbox).do = do /\ grInbox' = Tail(grInbox)

(* Mutant: satellites that are not said are those of the last position *)
MutantGrUsedBy(n) == IF grFixes[n].fix.used THEN n ELSE grUsed

GrUsedBy(n) == IF grFixes[n].fix.used THEN n ELSE 0

(* Mutant: the modem's position is reported as the position whether or not *)
(* it was as that of an engine                                             *)
MutantGrSpePositions(n) ==
  (IF grPrecise THEN GrEnginePosition(n, "spe") ELSE {}) \cup GrPosition(n)

(* reportSpeAsEnginePosition, or reportPosition *)
GrSpePositions(n) == IF grPrecise THEN GrEnginePosition(n, "spe") ELSE GrPosition(n)

(* MsgReportSPEPosition *)
GrHandleSpe ==
  LET n == Head(grInbox).fix IN
  /\ GrReceive("spe")
  /\ IF GrInSession
     THEN /\ grUsed' = GrUsedBy(n)
          /\ GrTell(GrSpePositions(n) \cup GrSentences(n, "spe"))
          /\ GrStamp(n)
          /\ UNCHANGED grFixes
     ELSE /\ grFixes' = [grFixes EXCEPT ![n].thrown = TRUE]
          /\ UNCHANGED <<grTold, grTwice, grKept>>
  /\ UNCHANGED <<grMasks, grConf, grClients, grSessions, grPrecise, grLater, grHub, grEvents,
                 grFlagged>>

(* MsgReportEnginePositions: reportEnginePositions, whether or not there   *)
(* is a session                                                            *)
GrHandleEngine ==
  LET n == Head(grInbox).fix IN
  /\ GrReceive("engine")
  /\ IF grPrecise
     THEN /\ GrTell(GrPosition(n) \cup GrEnginePosition(n, "fused") \cup GrSentences(n, "fused"))
          /\ GrStamp(n)
     ELSE UNCHANGED <<grTold, grTwice, grLastNmea>>
  /\ UNCHANGED <<grMasks, grConf, grClients, grSessions, grPrecise, grUsed, grLater, grHub,
                 grEvents, grFixes, grFlagged>>

(* reportSv: the satellites are flagged with those the position used whose *)
(* report was handled last                                                 *)
GrHandleSv ==
  /\ GrReceive("sv")
  /\ grFlagged' = IF GrHas("sv") = {} THEN grFlagged
                  ELSE grFlagged \cup {<<Head(grInbox).fix, grUsed>>}
  /\ UNCHANGED <<grMasks, grConf, grClients, grSessions, grPrecise, grKept, grLater, grHub,
                 grEvents, grFixes, grTold, grTwice>>

(* A position a message or the engine hub holds *)
GrIsUnderWay(n) ==
  \/ n \in grLater \cup grHub
  \/ \E i \in DOMAIN grInbox : grInbox[i].do \in {"spe", "engine"} /\ grInbox[i].fix = n

(* Mutant: the mask stays as it was *)
MutantGrNotifyPrecise(on) == UNCHANGED grMasks

(* notifyPreciseLocation: updateClientsEventMask *)
GrNotifyPrecise(on) == GrSetMask(grClients, on)

(* MsgReportQwesStatusFromEHub *)
GrHandleFeature ==
  /\ GrReceive("feature")
  /\ grPrecise' = Head(grInbox).on
  /\ GrNotifyPrecise(Head(grInbox).on)
  /\ grFixes' = [n \in DOMAIN grFixes |->
                   [grFixes[n] EXCEPT !.switched = @ \/ GrIsUnderWay(n), !.hears = {}]]
  /\ UNCHANGED <<grConf, grClients, grSessions, grKept, grLater, grHub, grEvents, grHeard>>

-----------------------------------------------------------------------------
(* Clients that are there, some with a session *)
GrInit ==
  /\ grConf \in GrConf
  /\ grClients \in [GrClient -> {{}} \cup UNION {GrCallbacks[c] : c \in GrClient}]
  /\ grSessions \in [GrClient -> {"none"} \cup UNION {GrQuality[c] : c \in GrClient}]
  /\ \A c \in GrClient : /\ grClients[c] \in {{}} \cup GrCallbacks[c]
                         /\ grSessions[c] \in {"none"} \cup GrQuality[c]
                         /\ grClients[c] = {} => grSessions[c] = "none"
  /\ grPrecise \in BOOLEAN
  /\ grUsed = 0 /\ grLastNmea = 0
  /\ grInbox = <<>> /\ grLater = {} /\ grHub = {}
  /\ grMask = GrBitsOfAll(grClients) \cup (IF grPrecise THEN {"measurement"} ELSE {})
  /\ grModem = grMask /\ grOpening = FALSE /\ grHubCall = <<>> /\ grNeedsNHz = FALSE
  /\ grEvents = 0 /\ grFixes = <<>>
  /\ grTold = {} /\ grTwice = {} /\ grFlagged = {} /\ grLost = {}

GrNext ==
  \/ \E c \in GrClient :
       \/ \E callbacks \in GrCallbacks[c] : GrAddClient(c, callbacks)
       \/ \E quality \in GrQuality[c] : GrStartTracking(c, quality)
       \/ GrRemoveClient(c)
       \/ GrStopTracking(c)
  \/ \E fix \in GrFix : GrReportPosition(fix)
  \/ \E n \in GrNumber : GrTimeComes(n)
  \/ \E n \in GrNumber : GrHubReports(n)
  \/ GrReportSv
  \/ GrOpen
  \/ GrFeatureChanges
  \/ \E wanted \in BOOLEAN : GrNHzRead(wanted)
  \/ GrNHzWrite
  \/ GrHandleSpe
  \/ GrHandleEngine
  \/ GrHandleSv
  \/ GrHandleFeature

GrSpec == GrInit /\ [][GrNext]_grVars

-----------------------------------------------------------------------------
(* Properties *)

(* What a client is to hear of a position: one of the two callbacks for    *)
(* the position once; each engine's once; and the sentences of each engine *)
(* they are asked for from, once, unless they were made within the second. *)
GrExpected(c, n) ==
  LET callbacks == grClients[c]
      sentences == IF GrTimeBased(c) /\ (~grConf.fast \/ grFixes[n].fix.whole)
                   THEN grConf.sentences ELSE {}
  IN (IF "location" \in callbacks THEN {"location"}
      ELSE IF "engine" \in callbacks /\ ~grPrecise THEN {}
      ELSE callbacks \cap {"tracking"})
     \cup (IF "engine" \in callbacks /\ (grPrecise \/ "location" \notin callbacks)
           THEN {"fused", "spe"} ELSE {})
     \cup (IF "nmea" \in callbacks
           THEN {IF e = "fused" THEN "nmea fused" ELSE "nmea spe" : e \in sentences} ELSE {})

(* A position that comes while a client's session wants fixes of its       *)
(* quality is told to each of the client's callbacks, by the modem's       *)
(* report or by the engine hub's, and never twice by both: unless the      *)
(* client, its session or the feature changes while the position is under  *)
(* way (GnssAdapter.cpp:4403-4431, 4781-4798, 4872-4939).                  *)
GrFixesAreTold ==
  \A n \in DOMAIN grFixes : ~grFixes[n].switched =>
    /\ \A t \in grTwice : t[2] # n
    /\ GrIsUnderWay(n) \/ \A c \in grFixes[n].hears : \A what \in GrExpected(c, n) :
                            <<c, n, what>> \in grTold

(* The satellites of a report are flagged with those the position before   *)
(* it used, and with none if that one does not say: unless the message of  *)
(* a position was delayed, or the position thrown away                     *)
(* (GnssAdapter.cpp:4403-4409, 4960-5108).                                 *)
GrFlagsAreFresh ==
  \A t \in grFlagged :
    \/ \E n \in 1..t[1] : grFixes[n].fix.late \/ grFixes[n].thrown
    \/ t[2] = IF grFixes[t[1]].fix.used THEN t[1] ELSE 0

(* When nothing is under way the modem reports what the clients' callbacks *)
(* need, what the precise engines need while the feature is on, and what   *)
(* the engine hub asked for: but for what updateNHzRequirementCb took      *)
(* away, by a wish that was fulfilled already or by writing back what it   *)
(* read before a change (GnssAdapter.cpp:3049-3176, 8497-8505).            *)
GrModemReportsWhatIsWanted ==
  ~grOpening /\ grHubCall = <<>> =>
    /\ GrBitsOfAll(grClients) \subseteq grModem \cup grLost
    /\ grPrecise => "measurement" \in grModem \cup grLost
    /\ grPrecise /\ grNeedsNHz => "nhz" \in grModem \cup grLost

ReportsReachTheirClients == GrFixesAreTold /\ GrFlagsAreFresh /\ GrModemReportsWhatIsWanted

=============================================================================
