---------------------------- MODULE NtripStream ----------------------------
(***************************************************************************)
(* The corrections that the DGNSS daemon streams for the position engine,  *)
(* and what the XTRA daemon and it are told (GnssAdapter.cpp, DGnss Ntrip  *)
(* Source; gnss/XtraSystemStatusObserver.cpp).  A stream runs while it is  *)
(* enabled and a client tracks; one that needs the position waits for a    *)
(* GGA sentence, if the user consents to sending it.                       *)
(*                                                                         *)
(* The daemons are processes that end and start at any time.  One that     *)
(* starts asks for the status, and its request waits for the message       *)
(* thread.  What is sent to a daemon that is not there is lost.  The       *)
(* sentences themselves and what only passes through to the XTRA daemon    *)
(* (its configuration, areas, operators) are left out.                     *)
(***************************************************************************)
EXTENDS Naturals, Sequences, FiniteSets

CONSTANTS
  NtStream,     \* the streams clients enable: their parameters
  NtNeeds,      \* requiresNmeaLocation: streams that need the position
  NtNone,       \* no stream
  NtSession,    \* time based sessions
  NtNetwork,    \* what updateConnections is called with
  MaxNtEvents,  \* bound: what clients, framework, modem and daemons do
  MaxNtQueue    \* bound: unanswered calls, unhandled messages

ASSUME NtAssumption ==
  /\ NtNeeds \subseteq NtStream /\ NtNone \notin NtStream
  /\ {MaxNtEvents, MaxNtQueue} \subseteq Nat

VARIABLES
  ntState,    \* mDgnssState: enabled, no NMEA is pending, started
  ntParams,   \* mStartDgnssNtripParams
  ntConsent,  \* mSendNmeaConsent
  ntSaved,    \* mNtripParamsString: what a daemon that restarts is sent
  ntTracks,   \* each session: new, on (in mTimeBasedTrackingSessions), off
  ntStarts,   \* starts the modem has not answered: of whom
  ntAwake,    \* mSystemPowerState
  ntAfw,      \* mAfwControlId is set
  ntUnlocked, \* mEngineLockState of LocApiBase
  ntLocks,    \* engine lock events that wait for the message thread
  ntLock,     \* mGpsLock, whether XTRA may run
  ntNet,      \* mConnections
  ntReq,      \* mReqStatusReceived
  ntRegister, \* mRegisterForXtraStatus
  ntAsks,     \* requestStatus messages that wait: the daemon, statusUpdated
  ntDaemon,   \* the daemons: what each was told, what it runs
  ntLeft,     \* a stream runs that nobody stops
  ntMissed,   \* nothing looks whether the stream can start
  ntEvents    \* events so far

ntStreamVars == <<ntState, ntParams, ntSaved, ntLeft, ntMissed>>
ntTrackVars == <<ntTracks, ntStarts, ntAwake>>
ntLockVars == <<ntAfw, ntUnlocked, ntLocks, ntLock>>
ntStatusVars == <<ntNet, ntReq, ntRegister, ntAsks>>
ntVars == <<ntStreamVars, ntConsent, ntTrackVars, ntLockVars, ntStatusVars,
            ntDaemon, ntEvents>>

-----------------------------------------------------------------------------
(* Types *)

NtDaemons == {"xtra", "dgnss"}
NtUnknown == "unknown"

(* A daemon: whether it is up and has asked since, and what it knows.      *)
(* Only XTRA learns the lock and registers, only DGNSS runs a stream.      *)
NtProcess == [up: BOOLEAN, asked: BOOLEAN, lock: {NtUnknown, "on", "off"},
              net: NtNetwork \cup {NtUnknown}, registered: BOOLEAN, stream: NtStream \cup {NtNone}]
NtStarted == [up |-> TRUE, asked |-> FALSE, lock |-> NtUnknown, net |-> NtUnknown,
              registered |-> FALSE, stream |-> NtNone]
NtDown == [NtStarted EXCEPT !.up = FALSE]

NtTypeOK ==
  /\ ntState \subseteq {"enabled", "nmea", "started"}
  /\ ntParams \in NtStream \cup {NtNone} /\ ntSaved \in NtStream \cup {NtNone}
  /\ ntTracks \in [NtSession -> {"new", "on", "off"}]
  /\ ntStarts \in Seq(NtSession \cup {NtNone})
  /\ ntLocks \in Seq(BOOLEAN)
  /\ ntLock \in {NtUnknown, "on", "off"}
  /\ ntNet \in NtNetwork \cup {NtUnknown}
  /\ ntAsks \in Seq(NtDaemons \X BOOLEAN)
  /\ ntDaemon \in [NtDaemons -> NtProcess]
  /\ ntConsent \in BOOLEAN /\ ntAwake \in BOOLEAN /\ ntAfw \in BOOLEAN /\ ntUnlocked \in BOOLEAN
  /\ ntReq \in BOOLEAN /\ ntRegister \in BOOLEAN /\ ntLeft \in BOOLEAN /\ ntMissed \in BOOLEAN
  /\ ntEvents \in 0..MaxNtEvents

NtEvent == ntEvents < MaxNtEvents /\ ntEvents' = ntEvents + 1

NtInSession == \E s \in NtSession : ntTracks[s] = "on"

(* isDgnssNmeaRequired *)
NtRequired == ntConsent /\ ntParams \in NtNeeds

NtWith(process, field, value) ==
  IF process.up THEN [process EXCEPT ![field] = value] ELSE process

-----------------------------------------------------------------------------
(* The stream *)

(* startDgnssSource and stopDgnssSource: send and keep what was sent *)
NtRun(stream) ==
  /\ ntSaved' = stream
  /\ ntDaemon' = [ntDaemon EXCEPT !.dgnss = NtWith(@, "stream", stream)]

(* checkUpdateDgnssNtrip.  A stream that runs is sent the new position,    *)
(* which changes nothing here.                                             *)
NtCheck(state, params, left, missed) ==
  IF NtInSession /\ ntAwake /\ state = {"enabled", "nmea"}
  THEN /\ ntState' = state \cup {"started"}
       /\ NtRun(params)
       /\ ntLeft' = FALSE /\ ntMissed' = FALSE
  ELSE /\ ntState' = state /\ ntLeft' = left /\ ntMissed' = missed
       /\ UNCHANGED <<ntSaved, ntDaemon>>

(* stopDgnssNtrip *)
NtStop(state) ==
  /\ ntState' = state \ {"started"}
  /\ IF "started" \in ntState
     THEN NtRun(NtNone) /\ ntLeft' = FALSE
     ELSE UNCHANGED <<ntSaved, ntDaemon, ntLeft>>

(* handleEnablePPENtrip.  A stream that runs is not stopped: the one that  *)
(* is started takes its place, if it is started.                           *)
NtEnable(stream) ==
  LET waits == ntConsent /\ stream \in NtNeeds
      left == ntSaved # NtNone
      old == ntState \ {"started"}
  IN /\ NtEvent
     /\ ~(ntParams = stream /\ "enabled" \in ntState)
     /\ ntParams' = stream
     /\ IF waits
        THEN /\ ntState' = (old \cup {"enabled"}) \ {"nmea"}
             /\ ntLeft' = left /\ ntMissed' = FALSE
             /\ UNCHANGED <<ntSaved, ntDaemon>>
        ELSE NtCheck(old \cup {"enabled", "nmea"}, stream, left, FALSE)
     /\ UNCHANGED <<ntConsent, ntTrackVars, ntLockVars, ntStatusVars>>

(* handleDisablePPENtrip *)
NtDisable ==
  /\ NtEvent
  /\ NtStop((ntState \ {"enabled"}) \cup {"nmea"})
  /\ ntMissed' = FALSE
  /\ UNCHANGED <<ntParams, ntConsent, ntTrackVars, ntLockVars, ntStatusVars>>

(* readPPENtripConfig: a stream of gps.conf, with the consent to it.       *)
(* Nothing looks whether it can start.                                     *)
NtReadConfig(stream) ==
  /\ NtEvent
  /\ "enabled" \notin ntState
  /\ ntConsent' = TRUE
  /\ ntParams' = stream
  /\ ntState' = (IF stream \in NtNeeds THEN {} ELSE {"nmea"}) \cup {"enabled"}
  /\ ntMissed' = NtInSession
  /\ UNCHANGED <<ntSaved, ntLeft, ntTrackVars, ntLockVars, ntStatusVars, ntDaemon>>

(* updateNTRIPGGAConsentCommand, on the thread that calls it.  Nothing     *)
(* looks whether a stream that waits for the position need not.            *)
NtConsent ==
  /\ NtEvent
  /\ ntConsent' = ~ntConsent
  /\ ntMissed' = \/ ntMissed
                 \/ (NtRequired /\ "enabled" \in ntState /\ "nmea" \notin ntState)
  /\ UNCHANGED <<ntState, ntParams, ntSaved, ntLeft, ntTrackVars, ntLockVars,
                 ntStatusVars, ntDaemon>>

(* reportPositionNmea and reportGGAToNtrip: a position, also late ones.  A *)
(* second one changes nothing.                                             *)
NtReport ==
  /\ NtRequired
  /\ ~({"nmea", "started"} \subseteq ntState)
  /\ NtCheck(ntState \cup {"nmea"}, ntParams, ntLeft, ntMissed)
  /\ UNCHANGED <<ntParams, ntConsent, ntTrackVars, ntLockVars, ntStatusVars, ntEvents>>

-----------------------------------------------------------------------------
(* The sessions *)

(* startTimeBasedTracking, of a session or, in a restart, of nobody.  It   *)
(* is refused while the system sleeps, and the session stays.              *)
NtCall(of) ==
  IF ntAwake
  THEN Len(ntStarts) < MaxNtQueue /\ ntStarts' = Append(ntStarts, of)
  ELSE UNCHANGED ntStarts

(* startTrackingCommand: one that others already track for needs no call *)
NtStartTracking(s) ==
  /\ NtEvent
  /\ ntTracks[s] = "new"
  /\ ntTracks' = [ntTracks EXCEPT ![s] = "on"]
  /\ NtCall(s) \/ (NtInSession /\ UNCHANGED ntStarts)
  /\ UNCHANGED <<ntStreamVars, ntConsent, ntAwake, ntLockVars, ntStatusVars, ntDaemon>>

(* The answer to a start: its session is erased when it failed, unless the *)
(* engine is locked.                                                       *)
NtStartAnswer(ok) ==
  LET s == Head(ntStarts)
      erased == ntUnlocked /\ ~ok
      tracks == IF erased /\ s \in NtSession THEN [ntTracks EXCEPT ![s] = "off"] ELSE ntTracks
      inSession == \E t \in NtSession : tracks[t] = "on"
  IN /\ ntStarts # <<>>
     /\ ntStarts' = Tail(ntStarts)
     /\ ntTracks' = tracks
     /\ IF erased
        THEN /\ NtEvent
             /\ ntLeft' = (ntLeft \/ (~inSession /\ "started" \in ntState))
             /\ ntMissed' = (ntMissed \/ (inSession /\ "started" \notin ntState))
             /\ UNCHANGED <<ntState, ntSaved, ntDaemon>>
        ELSE /\ NtCheck(ntState, ntParams, ntLeft, ntMissed)
             /\ UNCHANGED ntEvents
     /\ UNCHANGED <<ntParams, ntConsent, ntAwake, ntLockVars, ntStatusVars>>

(* Mutant: the next start waits for a position, needed or not *)
MutantNtStopTracking ==
  /\ NtStop(ntState \ {"nmea"})
  /\ UNCHANGED <<ntParams, ntMissed>>

(* The part of stopTracking that is about the stream *)
NtStopTracking ==
  /\ NtStop(IF NtRequired THEN ntState \ {"nmea"} ELSE ntState)
  /\ UNCHANGED <<ntParams, ntMissed>>

(* stopTimeBasedTrackingMultiplex: the last session stops the stream,      *)
(* others may start what remains                                           *)
NtStopSession(s) ==
  /\ NtEvent
  /\ ntTracks[s] = "on"
  /\ ntTracks' = [ntTracks EXCEPT ![s] = "off"]
  /\ IF \E t \in NtSession \ {s} : ntTracks[t] = "on"
     THEN /\ NtCall(s) \/ UNCHANGED ntStarts
          /\ UNCHANGED <<ntStreamVars, ntDaemon>>
     ELSE NtStopTracking /\ UNCHANGED ntStarts
  /\ UNCHANGED <<ntConsent, ntAwake, ntLockVars, ntStatusVars>>

(* suspendSessions *)
NtSuspend ==
  /\ NtEvent
  /\ ntAwake
  /\ ntAwake' = FALSE
  /\ IF NtInSession THEN NtStopTracking ELSE UNCHANGED <<ntStreamVars, ntDaemon>>
  /\ UNCHANGED <<ntConsent, ntTracks, ntStarts, ntLockVars, ntStatusVars>>

(* restartSessions starts the sessions for nobody in particular *)
NtRestart(awake) ==
  /\ ntAwake' = awake
  /\ IF NtInSession /\ awake
     THEN Len(ntStarts) < MaxNtQueue /\ ntStarts' = Append(ntStarts, NtNone)
     ELSE UNCHANGED ntStarts
  /\ UNCHANGED <<ntStreamVars, ntConsent, ntTracks, ntStatusVars>>

NtResume ==
  /\ NtEvent
  /\ ~ntAwake
  /\ NtRestart(TRUE)
  /\ UNCHANGED <<ntLockVars, ntDaemon>>

-----------------------------------------------------------------------------
(* What the XTRA daemon is told *)

(* updateLockStatus: before the first request nothing is sent.  "on" is a  *)
(* lock without the bit of the framework.                                  *)
NtTellLock(on) ==
  LET lock == IF on THEN "on" ELSE "off"
  IN /\ ntLock' = lock
     /\ ntDaemon' = IF ntReq THEN [ntDaemon EXCEPT !.xtra = NtWith(@, "lock", lock)] ELSE ntDaemon

(* The framework enables and disables (enableCommand, disableCommand) with *)
(* control of the non framework accesses, as is the default; the lock of   *)
(* the engine counts as well                                               *)
NtEnableGnss ==
  /\ NtEvent
  /\ ~ntAfw
  /\ ntAfw' = TRUE
  /\ NtTellLock(ntUnlocked)
  /\ UNCHANGED <<ntStreamVars, ntConsent, ntTrackVars, ntUnlocked, ntLocks, ntStatusVars>>
NtDisableGnss ==
  /\ NtEvent
  /\ ntAfw
  /\ ntAfw' = FALSE
  /\ NtTellLock(FALSE)
  /\ UNCHANGED <<ntStreamVars, ntConsent, ntTrackVars, ntUnlocked, ntLocks, ntStatusVars>>

(* reportEngineLockStatus: the state changes at once, the message waits *)
NtLockEvent ==
  /\ NtEvent
  /\ Len(ntLocks) < MaxNtQueue
  /\ ntUnlocked' = ~ntUnlocked
  /\ ntLocks' = Append(ntLocks, ~ntUnlocked)
  /\ UNCHANGED <<ntStreamVars, ntConsent, ntTrackVars, ntAfw, ntLock, ntStatusVars, ntDaemon>>

(* handleEngineLockStatus *)
NtHandleLock ==
  LET unlocked == Head(ntLocks)
  IN /\ ntLocks # <<>>
     /\ ntLocks' = Tail(ntLocks)
     /\ IF unlocked
        THEN NtRestart(ntAwake)
        ELSE UNCHANGED <<ntStreamVars, ntConsent, ntTrackVars, ntStatusVars>>
     /\ NtTellLock(unlocked /\ ntAfw)
     /\ UNCHANGED <<ntAfw, ntUnlocked, ntEvents>>

(* updateConnections: both daemons *)
NtUpdateConnections(net) ==
  /\ NtEvent
  /\ net # ntNet
  /\ ntNet' = net
  /\ ntDaemon' = IF ntReq THEN [d \in NtDaemons |-> NtWith(ntDaemon[d], "net", net)] ELSE ntDaemon
  /\ UNCHANGED <<ntStreamVars, ntConsent, ntTrackVars, ntLockVars, ntReq, ntRegister, ntAsks>>

(* registerXtraStatusUpdate: refused before the first request *)
NtRegisterForStatus ==
  /\ NtEvent
  /\ ntReq
  /\ ntRegister' = ~ntRegister
  /\ ntDaemon' = [ntDaemon EXCEPT !.xtra = NtWith(@, "registered", ~ntRegister)]
  /\ UNCHANGED <<ntStreamVars, ntConsent, ntTrackVars, ntLockVars, ntNet, ntReq, ntAsks>>

-----------------------------------------------------------------------------
(* The daemons *)

(* A daemon ends, or one starts *)
NtDaemonEnds(d) ==
  /\ NtEvent
  /\ ntDaemon[d].up
  /\ ntDaemon' = [ntDaemon EXCEPT ![d] = NtDown]
  /\ UNCHANGED <<ntStreamVars, ntConsent, ntTrackVars, ntLockVars, ntStatusVars>>
NtDaemonStarts(d) ==
  /\ ~ntDaemon[d].up
  /\ ntDaemon' = [ntDaemon EXCEPT ![d] = NtStarted]
  /\ UNCHANGED <<ntStreamVars, ntConsent, ntTrackVars, ntLockVars, ntStatusVars, ntEvents>>

(* requestStatus, when it starts and when the HAL says halinit: a daemon   *)
(* that was answered says that it is updated                               *)
NtAsk(d) ==
  LET asked == ntDaemon[d].asked
  IN /\ ntDaemon[d].up
     /\ Len(ntAsks) < MaxNtQueue
     /\ IF asked THEN NtEvent ELSE UNCHANGED ntEvents
     /\ ~asked \/ \A i \in DOMAIN ntAsks : ntAsks[i][1] # d
     /\ ntAsks' = Append(ntAsks, <<d, asked>>)
     /\ ntDaemon' = [ntDaemon EXCEPT ![d].asked = TRUE]
     /\ UNCHANGED <<ntStreamVars, ntConsent, ntTrackVars, ntLockVars, ntNet, ntReq, ntRegister>>

(* Mutant: the stream is not started again *)
MutantNtAnswered(d, updated) ==
  LET told(p) == IF updated THEN p ELSE NtWith(p, "net", ntNet)
      xtra == told(ntDaemon.xtra)
  IN [xtra |-> NtWith(IF updated THEN xtra ELSE NtWith(xtra, "lock", ntLock),
                      "registered", ntRegister),
      dgnss |-> told(ntDaemon.dgnss)]

(* HandleStatusRequestMsg: respondStatus to both, unless the daemon is up  *)
(* to date; the saved stream to DGNSS; the registration                    *)
NtAnswered(d, updated) ==
  LET told(p) == IF updated THEN p ELSE NtWith(p, "net", ntNet)
      xtra == told(ntDaemon.xtra)
      dgnss == told(ntDaemon.dgnss)
  IN [xtra |-> NtWith(IF updated THEN xtra ELSE NtWith(xtra, "lock", ntLock),
                      "registered", ntRegister),
      dgnss |-> IF d = "dgnss" /\ ntSaved # NtNone
                THEN NtWith(dgnss, "stream", ntSaved) ELSE dgnss]

NtHandleRequest ==
  /\ ntAsks # <<>>
  /\ ntAsks' = Tail(ntAsks)
  /\ ntReq' = TRUE
  /\ ntDaemon' = NtAnswered(Head(ntAsks)[1], Head(ntAsks)[2])
  /\ UNCHANGED <<ntStreamVars, ntConsent, ntTrackVars, ntLockVars, ntNet, ntRegister, ntEvents>>

-----------------------------------------------------------------------------
(* Behaviours *)

NtInit ==
  /\ ntState = {} /\ ntParams = NtNone /\ ntSaved = NtNone
  /\ ntLeft = FALSE /\ ntMissed = FALSE /\ ntConsent = FALSE
  /\ ntTracks = [s \in NtSession |-> "new"] /\ ntStarts = <<>> /\ ntAwake = TRUE
  /\ ntAfw = FALSE /\ ntUnlocked = FALSE /\ ntLocks = <<>> /\ ntLock = NtUnknown
  /\ ntNet = NtUnknown /\ ntReq = FALSE /\ ntRegister = FALSE /\ ntAsks = <<>>
  /\ ntDaemon = [d \in NtDaemons |-> NtDown]
  /\ ntEvents = 0

NtNext ==
  \/ \E stream \in NtStream : NtEnable(stream) \/ NtReadConfig(stream)
  \/ NtDisable \/ NtConsent \/ NtReport
  \/ \E s \in NtSession : NtStartTracking(s) \/ NtStopSession(s)
  \/ \E ok \in BOOLEAN : NtStartAnswer(ok)
  \/ NtSuspend \/ NtResume
  \/ NtEnableGnss \/ NtDisableGnss \/ NtLockEvent \/ NtHandleLock
  \/ \E net \in NtNetwork : NtUpdateConnections(net)
  \/ NtRegisterForStatus
  \/ \E d \in NtDaemons : NtDaemonEnds(d) \/ NtDaemonStarts(d) \/ NtAsk(d)
  \/ NtHandleRequest

NtSpec == NtInit /\ [][NtNext]_ntVars

-----------------------------------------------------------------------------
(* Properties *)

(* A daemon that is there, and whose last request was handled *)
NtServed(d) ==
  /\ ntDaemon[d].asked
  /\ \A i \in DOMAIN ntAsks : ntAsks[i][1] # d

(* However often the daemons end and start, and whatever changes while     *)
(* their requests wait: XTRA knows the lock, which follows the framework   *)
(* and the engine, and is registered as was last asked for; both know the  *)
(* networks (XtraSystemStatusObserver.cpp:105-119, GnssAdapter.cpp:3222,   *)
(* 4231, 4289).  The power state is not in the answer (:325-341).          *)
XtraKnowsTheStatus ==
  /\ NtServed("xtra") => /\ ntDaemon.xtra.lock = ntLock
                         /\ ntDaemon.xtra.registered = ntRegister
  /\ \A d \in NtDaemons : NtServed(d) => ntDaemon[d].net = ntNet
  /\ (ntLocks = <<>> /\ ntLock # NtUnknown) => (ntLock = "on") = (ntAfw /\ ntUnlocked)

(* The daemon runs the stream that was started last and not stopped: the   *)
(* enabled one, and only while somebody tracks (GnssAdapter.cpp:4070-4073, *)
(* 8913-8915, 8930-8933).  Not so when another stream is enabled and then  *)
(* not started (:8864 forgets the old one without a stop), nor when the    *)
(* last session ends with a refused start (:3722).                         *)
StreamIsTheStarted ==
  /\ NtServed("dgnss") => ntDaemon.dgnss.stream = ntSaved
  /\ ~ntLeft => ntSaved = IF "started" \in ntState THEN ntParams ELSE NtNone
  /\ (~ntLeft /\ "started" \in ntState) => ("enabled" \in ntState /\ NtInSession)

(* A stream that is enabled while somebody tracks and the system is awake  *)
(* is started, or waits for a position that it may send.  Not so when      *)
(* nobody looks: the consent is withdrawn while it waits (GnssAdapter.h:   *)
(* 834), the restart of the sessions is refused (GnssAdapter.cpp:3720), or *)
(* it is read from gps.conf (:9037).                                       *)
WantedStreamComes ==
  ("enabled" \in ntState /\ NtInSession /\ ntAwake /\ ntStarts = <<>> /\ ~ntMissed)
    => ("started" \in ntState \/ (NtRequired /\ "nmea" \notin ntState))

(* What the daemons do is what the HAL wants, from its first request on *)
DaemonsFollow == XtraKnowsTheStatus /\ StreamIsTheStarted
=============================================================================
