--------------------------- MODULE ClientSessions ---------------------------
(***************************************************************************)
(* How a client of the HAL keeps track of its commands: the tracking and   *)
(* the session interface of LocationAPIClientBase                          *)
(* (location/LocationAPIClientBase.cpp, .h), which the front ends inherit  *)
(* from.                                                                   *)
(*                                                                         *)
(* Answers come with the id of a session and not of a command, so the      *)
(* client keeps a queue of requests and takes each answer for that of the  *)
(* first one.  There is a queue for the one tracking session, emptied when *)
(* a new one starts, and one for all sessions of the session interface,    *)
(* which a map (BiDict) leads from the client's ids to and back.           *)
(*                                                                         *)
(* The adapters are external: each answers its commands in their order,    *)
(* and a session of theirs runs from the success of its start to that of   *)
(* its stop.  Every command carries a number that the code does not have;  *)
(* a request bears that of the command it stands for, and a session that   *)
(* of its start.                                                           *)
(***************************************************************************)
EXTENDS Naturals, SequencesExt

CONSTANTS
  CsId,         \* ids that the client gives its sessions
  CsTroubles,   \* what may happen: "overlap", "trip", "switch_fails"
  MaxCsCommands \* bound: commands to the adapters

CsTrouble == {"overlap", "trip", "switch_fails"}
CsMode == {"fix", "full", "trip"}   \* SESSION_MODE_ON_FIX, _FULL, _TRIP_COMPLETED
CsAdapter == {"gnss", "batching"}

ASSUME CsTroublesAssumption == CsTroubles \subseteq CsTrouble
ASSUME CsBoundAssumption == MaxCsCommands \in Nat

VARIABLES
  csTrack,      \* mTracking and REQUEST_TRACKING with its session
  csQueue,      \* REQUEST_SESSION, oldest first
  csDict,       \* mSessionBiDict
  csDue,        \* commands that each adapter has not answered, oldest first
  csRunning,    \* sessions that run
  csCount       \* commands so far

csVars == <<csTrack, csQueue, csDict, csDue, csRunning, csCount>>

CsRequest == [do: {"start", "stop", "update", "get"}, serial: 1..MaxCsCommands]
CsCommand == [do: {"start", "stop", "update", "get"}, session: 1..MaxCsCommands,
              serial: 1..MaxCsCommands, switch: BOOLEAN]

CsTypeOK ==
  /\ csTrack.on \in BOOLEAN /\ csTrack.session \in 0..MaxCsCommands
  /\ csTrack.queue \in Seq(CsRequest)
  /\ csQueue \in Seq(CsRequest)
  /\ DOMAIN csDict \subseteq CsId
  /\ Range(csDict) \subseteq [session: 1..MaxCsCommands, mode: CsMode]
  /\ csDue \in [CsAdapter -> Seq(CsCommand)]
  /\ csRunning \subseteq 1..MaxCsCommands
  /\ csCount \in 0..MaxCsCommands

-----------------------------------------------------------------------------
(* Commands and requests *)

CsCommandOf(do, session, serial) ==
  [do |-> do, session |-> session, serial |-> serial, switch |-> FALSE]

(* n commands are given, and their numbers are the next ones               *)
CsCommands(n) ==
  /\ csCount + n <= MaxCsCommands
  /\ csCount' = csCount + n

CsServes(mode) == IF mode = "fix" THEN "gnss" ELSE "batching"

CsRequestFor(do, serial) == [do |-> do, serial |-> serial]

-----------------------------------------------------------------------------
(* The tracking interface *)

(* A command for the tracking session                                      *)
CsTrackCommand(do) ==
  /\ csTrack.session > 0
  /\ CsCommands(1)
  /\ csTrack' = [csTrack EXCEPT !.queue = Append(@, CsRequestFor(do, csCount + 1)),
                                !.on = IF do = "stop" THEN FALSE ELSE @]
  /\ csDue' = [csDue EXCEPT !.gnss =
                 Append(@, CsCommandOf(do, csTrack.session, csCount + 1))]
  /\ UNCHANGED <<csQueue, csDict, csRunning>>

(* Mutant: the requests of the session before stay                         *)
MutantCsStartTracking ==
  IF csTrack.on THEN CsTrackCommand("update")
  ELSE /\ CsCommands(1)
       /\ csTrack' = [on |-> TRUE, session |-> csCount + 1,
                      queue |-> Append(csTrack.queue, CsRequestFor("start", csCount + 1))]
       /\ csDue' = [csDue EXCEPT !.gnss =
                      Append(@, CsCommandOf("start", csCount + 1, csCount + 1))]
       /\ UNCHANGED <<csQueue, csDict, csRunning>>

(* locAPIStartTracking: a start while tracking is an update                *)
CsStartTracking ==
  IF csTrack.on THEN CsTrackCommand("update")
  ELSE /\ CsCommands(1)
       /\ csTrack' = [on |-> TRUE, session |-> csCount + 1,
                      queue |-> <<CsRequestFor("start", csCount + 1)>>]
       /\ csDue' = [csDue EXCEPT !.gnss =
                      Append(@, CsCommandOf("start", csCount + 1, csCount + 1))]
       /\ UNCHANGED <<csQueue, csDict, csRunning>>

CsStopTracking == CsTrackCommand("stop")
CsUpdateTracking == CsTrackCommand("update")

-----------------------------------------------------------------------------
(* The session interface *)

(* Without overlaps a client waits for the answer of what it asked, except *)
(* that it stops behind a flush, as BatchingAPIClient::stopSession does    *)
CsMayAsk(do, mode) ==
  \/ "overlap" \in CsTroubles
  \/ csQueue = <<>>
  \/ /\ do = "stop" /\ mode # "fix"
     /\ \A i \in DOMAIN csQueue : csQueue[i].do = "get"

(* locAPIStartSession *)
CsStartSession(id, mode) ==
  /\ id \notin DOMAIN csDict
  /\ CsMayAsk("start", mode)
  /\ CsCommands(1)
  /\ csQueue' = Append(csQueue, CsRequestFor("start", csCount + 1))
  /\ csDict' = [i \in DOMAIN csDict \cup {id} |->
                  IF i = id THEN [session |-> csCount + 1, mode |-> mode] ELSE csDict[i]]
  /\ csDue' = [csDue EXCEPT ![CsServes(mode)] =
                 Append(@, CsCommandOf("start", csCount + 1, csCount + 1))]
  /\ UNCHANGED <<csTrack, csRunning>>

(* locAPIStopSession, locAPIGetBatchedLocations, and                       *)
(* locAPIUpdateSessionOptions that stays with its adapter                  *)
CsSessionCommand(do, id, mode) ==
  /\ CsMayAsk(do, mode)
  /\ CsCommands(1)
  /\ csQueue' = Append(csQueue, CsRequestFor(do, csCount + 1))
  /\ csDict' = [csDict EXCEPT ![id].mode = mode]
  /\ csDue' = [csDue EXCEPT ![CsServes(mode)] =
                 Append(@, CsCommandOf(do, csDict[id].session, csCount + 1))]
  /\ UNCHANGED <<csTrack, csRunning>>

CsStopSession(id) ==
  id \in DOMAIN csDict /\ CsSessionCommand("stop", id, csDict[id].mode)

CsGetBatched(id) ==
  /\ id \in DOMAIN csDict
  /\ csDict[id].mode # "fix"
  /\ CsSessionCommand("get", id, csDict[id].mode)

(* locAPIUpdateSessionOptions that moves to the other adapter: the session *)
(* stops there, a new one starts here, and one request stands for both     *)
CsSwitchSession(id, mode) ==
  LET old == csDict[id] IN
  /\ CsMayAsk("update", mode)
  /\ CsCommands(2)
  /\ csQueue' = Append(csQueue, CsRequestFor("update", csCount + 2))
  /\ csDue' = [csDue EXCEPT
       ![CsServes(old.mode)] = Append(@, CsCommandOf("stop", old.session, csCount + 1)),
       ![CsServes(mode)] = Append(@, [CsCommandOf("start", csCount + 2, csCount + 2)
                                        EXCEPT !.switch = TRUE])]
  /\ csDict' = [csDict EXCEPT ![id] = [session |-> csCount + 2, mode |-> mode]]
  /\ UNCHANGED <<csTrack, csRunning>>

CsUpdateSession(id, mode) ==
  /\ id \in DOMAIN csDict
  /\ IF CsServes(mode) = CsServes(csDict[id].mode)
     THEN CsSessionCommand("update", id, mode)
     ELSE CsSwitchSession(id, mode)

-----------------------------------------------------------------------------
(* Answers *)

CsKnown(session) == \E id \in DOMAIN csDict : csDict[id].session = session

(* removeSession *)
CsRemoveSession(session) ==
  csDict' = Restrict(csDict, {id \in DOMAIN csDict : csDict[id].session # session})

(* Mutant: a start that fails leaves its session in the map                *)
MutantCsOnResponse(request, session, ok) ==
  IF request.do = "stop" /\ ok THEN CsRemoveSession(session) ELSE UNCHANGED csDict

(* onResponse of the request: a start that failed and a stop that did not  *)
(* take the session out of the map                                         *)
CsOnResponse(request, session, ok) ==
  IF (request.do = "start" /\ ~ok) \/ (request.do = "stop" /\ ok)
  THEN CsRemoveSession(session)
  ELSE UNCHANGED csDict

(* getRequestBySession and onResponse.  An empty queue gives no request.   *)
CsAnswer(session, ok) ==
  LET ofTracking == csTrack.session = session /\ csTrack.queue # <<>>
      ofSession == ~ofTracking /\ CsKnown(session) /\ csQueue # <<>>
  IN /\ csTrack' = IF ofTracking THEN [csTrack EXCEPT !.queue = Tail(@)] ELSE csTrack
     /\ csQueue' = IF ofSession THEN Tail(csQueue) ELSE csQueue
     /\ IF ofTracking THEN CsOnResponse(Head(csTrack.queue), session, ok)
        ELSE IF ofSession THEN CsOnResponse(Head(csQueue), session, ok)
        ELSE UNCHANGED csDict

(* An adapter does the first of its commands and answers.  Only a start    *)
(* may fail; a command for a session that does not run does.               *)
CsAdapterAnswers(a) ==
  /\ csDue[a] # <<>>
  /\ LET c == Head(csDue[a])
         outcomes ==
           IF c.do # "start" THEN {c.session \in csRunning}
           ELSE IF c.switch /\ "switch_fails" \notin CsTroubles THEN {TRUE}
           ELSE BOOLEAN
     IN \E ok \in outcomes :
          /\ CsAnswer(c.session, ok)
          /\ csRunning' = IF ~ok THEN csRunning
                          ELSE IF c.do = "start" THEN csRunning \cup {c.session}
                          ELSE IF c.do = "stop" THEN csRunning \ {c.session}
                          ELSE csRunning
  /\ csDue' = [csDue EXCEPT ![a] = Tail(@)]
  /\ UNCHANGED csCount

(* beforeBatchingStatusCb: a trip is completed, and its session has ended  *)
CsTripCompleted(id) ==
  /\ id \in DOMAIN csDict
  /\ csDict[id].mode = "trip"
  /\ csDict[id].session \in csRunning
  /\ "trip" \in CsTroubles \/ csQueue = <<>>
  /\ csRunning' = csRunning \ {csDict[id].session}
  /\ CsRemoveSession(csDict[id].session)
  /\ UNCHANGED <<csTrack, csQueue, csDue, csCount>>

-----------------------------------------------------------------------------
(* The specification *)

CsInit ==
  /\ csTrack = [on |-> FALSE, session |-> 0, queue |-> <<>>]
  /\ csQueue = <<>>
  /\ csDict = <<>>
  /\ csDue = [a \in CsAdapter |-> <<>>]
  /\ csRunning = {}
  /\ csCount = 0

CsNext ==
  \/ CsStartTracking \/ CsStopTracking \/ CsUpdateTracking
  \/ \E id \in CsId :
       \/ \E mode \in CsMode : CsStartSession(id, mode) \/ CsUpdateSession(id, mode)
       \/ CsStopSession(id) \/ CsGetBatched(id) \/ CsTripCompleted(id)
  \/ \E a \in CsAdapter : CsAdapterAnswers(a)

CsSpec == CsInit /\ [][CsNext]_csVars

-----------------------------------------------------------------------------
(* Properties *)

CsSerials(s, Test(_)) ==
  LET chosen == SelectSeq(s, Test) IN [i \in DOMAIN chosen |-> chosen[i].serial]

(* Every answer that is to come is taken for that of the command it        *)
(* answers: the requests in each queue stand for the unanswered commands   *)
(* of its sessions, in the order of their answers                          *)
(* (LocationAPIClientBase.cpp:998-1019).                                   *)
AnswersMeetRequests ==
  /\ CsSerials(csTrack.queue, LAMBDA r : TRUE) =
       CsSerials(csDue.gnss, LAMBDA c : c.session = csTrack.session)
  /\ CsSerials(csQueue, LAMBDA r : TRUE) =
       CsSerials(csDue.gnss \o csDue.batching, LAMBDA c : CsKnown(c.session))

(* Nothing runs that the client could not stop, and an id that nothing is  *)
(* under way for stands for a session that runs: it can be started again   *)
(* when it does not (LocationAPIClientBase.cpp:462, :530).                 *)
KnownSessionsRun ==
  /\ \A s \in csRunning :
       \/ s = csTrack.session
       \/ CsKnown(s)
       \/ \E a \in CsAdapter, i \in 1..MaxCsCommands :
            i \in DOMAIN csDue[a] /\ csDue[a][i].do = "stop" /\ csDue[a][i].session = s
  /\ csQueue = <<>> => \A id \in DOMAIN csDict : csDict[id].session \in csRunning

(* What the client base keeps of its sessions is what became of them, and  *)
(* what is still to come of their commands, however the answers of the two *)
(* adapters mix (LocationAPIClientBase.cpp:956-1019).                      *)
SessionsAreKnown == AnswersMeetRequests /\ KnownSessionsRun

=============================================================================
