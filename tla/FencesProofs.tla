---------------------------- MODULE FencesProofs ----------------------------
(***************************************************************************)
(* Proofs about the parts that MCGeofence runs side by side: the streams   *)
(* of corrections and the daemons, the reports of positions and            *)
(* satellites, and geofences.                                              *)
(***************************************************************************)
EXTENDS MCGeofence, FiniteSetTheorems, TLAPS

-----------------------------------------------------------------------------
(* Streams and daemons: types *)

NtLockStates == {NtUnknown, "on", "off"}
NtStreams == NtStream \cup {NtNone}
NtNetworks == NtNetwork \cup {NtUnknown}

(* What a message to a daemon changes: one field, if the daemon is up *)
LEMMA NtWithFacts ==
  ASSUME NEW p \in NtProcess
  PROVE  /\ \A v \in NtLockStates :
              /\ NtWith(p, "lock", v) \in NtProcess
              /\ NtWith(p, "lock", v).up = p.up /\ NtWith(p, "lock", v).asked = p.asked
              /\ NtWith(p, "lock", v).net = p.net
              /\ NtWith(p, "lock", v).registered = p.registered
              /\ NtWith(p, "lock", v).stream = p.stream
              /\ p.up => NtWith(p, "lock", v).lock = v
         /\ \A v \in NtNetworks :
              /\ NtWith(p, "net", v) \in NtProcess
              /\ NtWith(p, "net", v).up = p.up /\ NtWith(p, "net", v).asked = p.asked
              /\ p.up => NtWith(p, "net", v).net = v
              /\ NtWith(p, "net", v).lock = p.lock
              /\ NtWith(p, "net", v).registered = p.registered
              /\ NtWith(p, "net", v).stream = p.stream
         /\ \A v \in BOOLEAN :
              /\ NtWith(p, "registered", v) \in NtProcess
              /\ NtWith(p, "registered", v).up = p.up
              /\ NtWith(p, "registered", v).asked = p.asked
              /\ NtWith(p, "registered", v).net = p.net
              /\ NtWith(p, "registered", v).lock = p.lock
              /\ p.up => NtWith(p, "registered", v).registered = v
              /\ NtWith(p, "registered", v).stream = p.stream
         /\ \A v \in NtStreams :
              /\ NtWith(p, "stream", v) \in NtProcess
              /\ NtWith(p, "stream", v).up = p.up
              /\ NtWith(p, "stream", v).asked = p.asked
              /\ NtWith(p, "stream", v).net = p.net
              /\ NtWith(p, "stream", v).lock = p.lock
              /\ NtWith(p, "stream", v).registered = p.registered
              /\ p.up => NtWith(p, "stream", v).stream = v
              /\ ~p.up => NtWith(p, "stream", v).stream = p.stream
  BY DEF NtWith, NtProcess, NtLockStates, NtNetworks, NtStreams

LEMMA NtRegisteredFact ==
  ASSUME NEW p \in NtProcess, NEW v \in BOOLEAN
  PROVE  p.up => NtWith(p, "registered", v).registered = v
  BY NtWithFacts

LEMMA NtProcessFacts ==
  /\ NtStarted \in NtProcess /\ NtDown \in NtProcess
  /\ ~NtStarted.asked /\ ~NtDown.asked /\ NtStarted.stream = NtNone /\ NtDown.stream = NtNone
  /\ \A p \in NtProcess : [p EXCEPT !.asked = TRUE] \in NtProcess
  BY DEF NtProcess, NtStarted, NtDown

(* What the steps of the stream do to the daemon and to what is saved      *)
NtSavedStep ==
  UNCHANGED <<ntSaved, ntDaemon>> \/ \E stream \in NtStreams : NtRun(stream)

NtStreamTypes ==
  /\ ntState \subseteq {"enabled", "nmea", "started"}
  /\ ntParams \in NtStreams
  /\ ntConsent \in BOOLEAN /\ ntLeft \in BOOLEAN /\ ntMissed \in BOOLEAN

NtStreamAction ==
  \/ \E stream \in NtStream : NtEnable(stream) \/ NtReadConfig(stream)
  \/ NtDisable \/ NtConsent \/ NtReport
  \/ \E s \in NtSession : NtStartTracking(s) \/ NtStopSession(s)
  \/ \E ok \in BOOLEAN : NtStartAnswer(ok)
  \/ NtSuspend

LEMMA NtStreamSaves ==
  ASSUME NtTypeOK, NtStreamAction
  PROVE  /\ NtSavedStep
         /\ UNCHANGED <<ntLockVars, ntStatusVars>>
<1>1. ntParams \in NtStreams /\ NtNone \in NtStreams
  BY DEF NtTypeOK, NtStreams
<1>2. ASSUME NEW stream \in NtStream, NtEnable(stream)
      PROVE  NtSavedStep /\ UNCHANGED <<ntLockVars, ntStatusVars>>
  BY <1>2 DEF NtEnable, NtCheck, NtSavedStep, NtStreams
<1>3. ASSUME NEW stream \in NtStream, NtReadConfig(stream)
      PROVE  NtSavedStep /\ UNCHANGED <<ntLockVars, ntStatusVars>>
  BY <1>3 DEF NtReadConfig, NtSavedStep
<1>4. CASE NtDisable
  BY <1>1, <1>4 DEF NtDisable, NtStop, NtSavedStep
<1>5. CASE NtConsent
  BY <1>5 DEF NtConsent, NtSavedStep
<1>6. CASE NtReport
  BY <1>1, <1>6 DEF NtReport, NtCheck, NtSavedStep
<1>7. ASSUME NEW s \in NtSession, NtStartTracking(s)
      PROVE  NtSavedStep /\ UNCHANGED <<ntLockVars, ntStatusVars>>
  BY <1>7 DEF NtStartTracking, NtSavedStep, ntStreamVars
<1>8. ASSUME NEW s \in NtSession, NtStopSession(s)
      PROVE  NtSavedStep /\ UNCHANGED <<ntLockVars, ntStatusVars>>
  BY <1>1, <1>8 DEF NtStopSession, NtStopTracking, NtStop, NtSavedStep, ntStreamVars
<1>9. ASSUME NEW ok \in BOOLEAN, NtStartAnswer(ok)
      PROVE  NtSavedStep /\ UNCHANGED <<ntLockVars, ntStatusVars>>
  BY <1>1, <1>9 DEF NtStartAnswer, NtCheck, NtSavedStep
<1>10. CASE NtSuspend
  BY <1>1, <1>10 DEF NtSuspend, NtStopTracking, NtStop, NtSavedStep, ntStreamVars
<1> QED BY <1>2, <1>3, <1>4, <1>5, <1>6, <1>7, <1>8, <1>9, <1>10 DEF NtStreamAction

LEMMA SequencesOf ==
  ASSUME NEW S
  PROVE  /\ <<>> \in Seq(S)
         /\ \A q \in Seq(S), x \in S : Append(q, x) \in Seq(S)
         /\ \A q \in Seq(S) : q # <<>> => Head(q) \in S /\ Tail(q) \in Seq(S)
  OBVIOUS

LEMMA NtTypeInit == NtInit => NtTypeOK
<1> SUFFICES ASSUME NtInit PROVE NtTypeOK
  OBVIOUS
<1>4. ntEvents \in 0..MaxNtEvents
  BY NtAssumption DEF NtInit
<1> QED BY <1>4, SequencesOf, NtProcessFacts DEF NtInit, NtTypeOK

LEMMA NtRunType ==
  ASSUME NtTypeOK, NtSavedStep
  PROVE  ntSaved' \in NtStreams /\ ntDaemon' \in [NtDaemons -> NtProcess]
<1>1. CASE UNCHANGED <<ntSaved, ntDaemon>>
  BY <1>1 DEF NtTypeOK, NtStreams
<1>2. ASSUME NEW stream \in NtStreams, NtRun(stream)
      PROVE  ntSaved' \in NtStreams /\ ntDaemon' \in [NtDaemons -> NtProcess]
  BY <1>2, NtWithFacts DEF NtDaemons, NtTypeOK, NtRun
<1> QED BY <1>1, <1>2 DEF NtSavedStep

(* The sessions and the answers the modem owes *)
NtTrackTypes ==
  /\ ntTracks \in [NtSession -> {"new", "on", "off"}]
  /\ ntStarts \in Seq(NtSession \cup {NtNone})
  /\ ntAwake \in BOOLEAN

LEMMA NtCallType ==
  ASSUME NtTypeOK, NEW of \in NtSession \cup {NtNone}, NtCall(of)
  PROVE  ntStarts' \in Seq(NtSession \cup {NtNone})
<1>1. ntStarts \in Seq(NtSession \cup {NtNone})
  BY DEF NtTypeOK
<1> QED BY <1>1, SequencesOf DEF NtCall

LEMMA NtEventType == NtTypeOK /\ (NtEvent \/ UNCHANGED ntEvents) => ntEvents' \in 0..MaxNtEvents
  BY NtAssumption DEF NtTypeOK, NtEvent

LEMMA NtStreamType ==
  ASSUME NtTypeOK, NtStreamAction
  PROVE  NtStreamTypes' /\ NtTrackTypes' /\ ntEvents' \in 0..MaxNtEvents
<1>0. /\ NtStreamTypes /\ NtTrackTypes
      /\ ntSaved \in NtStreams
  BY DEF NtTypeOK, NtStreamTypes, NtTrackTypes, NtStreams
<1>1. ASSUME NEW stream \in NtStream, NtEnable(stream)
      PROVE  NtStreamTypes' /\ NtTrackTypes' /\ (NtEvent \/ UNCHANGED ntEvents)
  BY <1>0, <1>1 DEF NtEnable, NtCheck, NtStreamTypes, NtTrackTypes, NtStreams, ntTrackVars
<1>2. ASSUME NEW stream \in NtStream, NtReadConfig(stream)
      PROVE  NtStreamTypes' /\ NtTrackTypes' /\ (NtEvent \/ UNCHANGED ntEvents)
  BY <1>0, <1>2 DEF NtReadConfig, NtStreamTypes, NtTrackTypes, NtStreams, ntTrackVars, NtInSession
<1>3. CASE NtDisable
  BY <1>0, <1>3, NtEventType DEF NtDisable, NtStop, NtStreamTypes, NtTrackTypes, ntTrackVars
<1>4. CASE NtConsent
  BY <1>0, <1>4, NtEventType DEF NtConsent, NtStreamTypes, NtTrackTypes, ntTrackVars
<1>5. CASE NtReport
  BY <1>0, <1>5, NtEventType DEF NtReport, NtCheck, NtStreamTypes, NtTrackTypes, ntTrackVars
<1>6. ASSUME NEW s \in NtSession, NtStartTracking(s)
      PROVE  NtStreamTypes' /\ NtTrackTypes' /\ (NtEvent \/ UNCHANGED ntEvents)
  BY <1>0, <1>6, NtCallType DEF NtStartTracking, NtTrackTypes, NtStreamTypes, ntStreamVars
<1>7. ASSUME NEW s \in NtSession, NtStopSession(s)
      PROVE  NtStreamTypes' /\ NtTrackTypes' /\ (NtEvent \/ UNCHANGED ntEvents)
  <2>1. ntStarts' \in Seq(NtSession \cup {NtNone})
    BY <1>0, <1>7, NtCallType DEF NtStopSession, NtTrackTypes
  <2> QED BY <1>0, <1>7, <2>1
          DEF NtStopSession, NtStopTracking, NtStop, NtStreamTypes, NtTrackTypes, ntStreamVars
<1>8. ASSUME NEW ok \in BOOLEAN, NtStartAnswer(ok)
      PROVE  NtStreamTypes' /\ NtTrackTypes' /\ (NtEvent \/ UNCHANGED ntEvents)
  BY <1>0, <1>8, SequencesOf DEF NtStartAnswer, NtTrackTypes, NtCheck, NtStreamTypes
<1>9. CASE NtSuspend
  <2>1. NtStreamTypes' /\ NtTrackTypes' /\ (NtEvent \/ UNCHANGED ntEvents)
    BY <1>0, <1>9
       DEF NtSuspend, NtStopTracking, NtStop, NtStreamTypes, NtTrackTypes, ntStreamVars
  <2> QED BY <2>1, NtEventType
<1> QED BY <1>1, <1>2, <1>3, <1>4, <1>5, <1>6, <1>7, <1>8, <1>9, NtEventType DEF NtStreamAction

(* What daemons, framework and modem do to what the daemons know *)
NtStatusTypes ==
  /\ ntAfw \in BOOLEAN /\ ntUnlocked \in BOOLEAN
  /\ ntLocks \in Seq(BOOLEAN)
  /\ ntLock \in NtLockStates
  /\ ntNet \in NtNetworks
  /\ ntReq \in BOOLEAN /\ ntRegister \in BOOLEAN
  /\ ntAsks \in Seq(NtDaemons \X BOOLEAN)
  /\ ntDaemon \in [NtDaemons -> NtProcess]

NtStatusAction ==
  \/ NtResume \/ NtEnableGnss \/ NtDisableGnss \/ NtLockEvent \/ NtHandleLock
  \/ \E net \in NtNetwork : NtUpdateConnections(net)
  \/ NtRegisterForStatus
  \/ \E d \in NtDaemons : NtDaemonEnds(d) \/ NtDaemonStarts(d) \/ NtAsk(d)
  \/ NtHandleRequest

LEMMA NtDaemonMembers == "xtra" \in NtDaemons /\ "dgnss" \in NtDaemons
  BY DEF NtDaemons

LEMMA NtTellLockType ==
  ASSUME NtStatusTypes, NEW on \in BOOLEAN, NtTellLock(on)
  PROVE  ntLock' \in NtLockStates /\ ntDaemon' \in [NtDaemons -> NtProcess]
<1> DEFINE lock == IF on THEN "on" ELSE "off"
<1>1. lock \in NtLockStates
  BY DEF NtLockStates
<1>4. ntLock' = lock
      /\ ntDaemon' = IF ntReq THEN [ntDaemon EXCEPT !.xtra = NtWith(@, "lock", lock)] ELSE ntDaemon
  BY DEF NtTellLock
<1> HIDE DEF lock
<1> QED BY <1>1, <1>4, NtWithFacts, NtDaemonMembers DEF NtStatusTypes

LEMMA NtAnsweredType ==
  ASSUME NtStatusTypes, ntSaved \in NtStreams, NEW d \in NtDaemons, NEW updated \in BOOLEAN
  PROVE  NtAnswered(d, updated) \in [NtDaemons -> NtProcess]
<1> DEFINE told(p) == IF updated THEN p ELSE NtWith(p, "net", ntNet)
           xtra == told(ntDaemon.xtra)
           dgnss == told(ntDaemon.dgnss)
           locked == IF updated THEN xtra ELSE NtWith(xtra, "lock", ntLock)
           streams == IF d = "dgnss" /\ ntSaved # NtNone
                      THEN NtWith(dgnss, "stream", ntSaved) ELSE dgnss
<1>2. xtra \in NtProcess /\ dgnss \in NtProcess
  BY NtWithFacts, NtDaemonMembers DEF NtStatusTypes
<1>3. locked \in NtProcess
  <2> HIDE DEF xtra
  <2> QED BY <1>2, NtWithFacts DEF NtStatusTypes
<1>4. NtWith(locked, "registered", ntRegister) \in NtProcess
  <2> HIDE DEF locked
  <2> QED BY <1>3, NtWithFacts DEF NtStatusTypes
<1>5. streams \in NtProcess
  <2> HIDE DEF dgnss
  <2> QED BY <1>2, NtWithFacts
<1>6. NtAnswered(d, updated) = [xtra |-> NtWith(locked, "registered", ntRegister),
                                dgnss |-> streams]
  BY DEF NtAnswered
<1> HIDE DEF locked, streams
<1> QED BY <1>4, <1>5, <1>6 DEF NtDaemons

LEMMA NtRestartType ==
  ASSUME NtTypeOK, NEW awake \in BOOLEAN, NtRestart(awake)
  PROVE  NtStreamTypes' /\ NtTrackTypes' /\ ntSaved' \in NtStreams
<1>1. NtStreamTypes /\ NtTrackTypes /\ ntSaved \in NtStreams
  BY DEF NtTypeOK, NtStreamTypes, NtTrackTypes, NtStreams
<1> QED BY <1>1, SequencesOf DEF NtRestart, NtStreamTypes, NtTrackTypes, ntStreamVars

LEMMA NtStatusType ==
  ASSUME NtTypeOK, NtStatusAction
  PROVE  /\ NtStatusTypes' /\ ntEvents' \in 0..MaxNtEvents
         /\ NtStreamTypes' /\ NtTrackTypes' /\ ntSaved' \in NtStreams
<1> DEFINE P == /\ NtStatusTypes' /\ (NtEvent \/ UNCHANGED ntEvents)
                /\ NtStreamTypes' /\ NtTrackTypes' /\ ntSaved' \in NtStreams
<1>0. NtStatusTypes /\ NtStreamTypes /\ NtTrackTypes /\ ntSaved \in NtStreams
  BY DEF NtTypeOK, NtStatusTypes, NtStreamTypes, NtTrackTypes, NtStreams, NtLockStates, NtNetworks
<1>u. UNCHANGED <<ntStreamVars, ntConsent, ntTrackVars>> =>
        NtStreamTypes' /\ NtTrackTypes' /\ ntSaved' \in NtStreams
  BY <1>0 DEF NtStreamTypes, NtTrackTypes, ntStreamVars, ntTrackVars
<1>1. ASSUME NtResume PROVE P
  BY <1>0, <1>1, NtRestartType DEF NtResume, NtRestart, NtStatusTypes, ntLockVars, ntStatusVars
<1>2. ASSUME NtEnableGnss PROVE P
  BY <1>u, <1>0, <1>2, NtTellLockType DEF NtEnableGnss, NtStatusTypes, ntStatusVars
<1>3. ASSUME NtDisableGnss PROVE P
  BY <1>u, <1>0, <1>3, NtTellLockType DEF NtDisableGnss, NtStatusTypes, ntStatusVars
<1>4. ASSUME NtLockEvent PROVE P
  BY <1>u, <1>0, <1>4, SequencesOf, Zenon DEF NtStatusTypes, NtLockEvent, ntStatusVars
<1>5. ASSUME NtHandleLock PROVE P
  <2> DEFINE unlocked == Head(ntLocks)
  <2>1. unlocked \in BOOLEAN /\ ntLocks' \in Seq(BOOLEAN)
    BY <1>0, <1>5, SequencesOf DEF NtHandleLock, NtStatusTypes
  <2>3. ntLock' \in NtLockStates /\ ntDaemon' \in [NtDaemons -> NtProcess]
    BY <1>0, <1>5, NtTellLockType DEF NtHandleLock
  <2>4. UNCHANGED <<ntAfw, ntUnlocked, ntEvents>>
    BY <1>5 DEF NtHandleLock
  <2>5. CASE unlocked
    <3>1. NtRestart(ntAwake) /\ ntAwake \in BOOLEAN
      BY <1>0, <1>5, <2>5 DEF NtHandleLock, NtTrackTypes
    <3> QED BY <1>0, <2>1, <2>3, <2>4, <3>1, NtRestartType DEF NtRestart, NtStatusTypes,
      ntStatusVars
  <2>6. CASE ~unlocked
    <3>1. UNCHANGED <<ntStreamVars, ntConsent, ntTrackVars, ntStatusVars>>
      BY <1>5, <2>6 DEF NtHandleLock
    <3> QED BY <1>0, <1>u, <2>1, <2>3, <2>4, <3>1 DEF NtStatusTypes, ntStatusVars
  <2> QED BY <2>5, <2>6
<1>6. ASSUME NEW net \in NtNetwork, NtUpdateConnections(net) PROVE P
  BY <1>u, <1>0, <1>6, NtWithFacts DEF NtUpdateConnections, NtNetworks, NtStatusTypes,
    ntLockVars
<1>7. ASSUME NtRegisterForStatus PROVE P
  BY <1>u, <1>0, <1>7, NtDaemonMembers, NtWithFacts, Zenon DEF NtRegisterForStatus,
    NtStatusTypes, ntLockVars
<1>8. ASSUME NEW d \in NtDaemons, NtDaemonEnds(d) \/ NtDaemonStarts(d) PROVE P
  BY <1>u, <1>0, <1>8, NtProcessFacts DEF NtDaemonEnds, NtDaemonStarts, NtStatusTypes,
    ntLockVars, ntStatusVars
<1>9. ASSUME NEW d \in NtDaemons, NtAsk(d) PROVE P
  BY <1>u, <1>0, <1>9, NtProcessFacts, SequencesOf DEF NtStatusTypes, NtAsk, NtProcess,
    ntLockVars
<1>10. ASSUME NtHandleRequest PROVE P
  BY <1>u, <1>0, <1>10, SequencesOf, NtAnsweredType DEF NtHandleRequest, NtStatusTypes,
    ntLockVars
<1>11. P
  BY <1>1, <1>2, <1>3, <1>4, <1>5, <1>6, <1>7, <1>8, <1>9, <1>10 DEF NtStatusAction
<1> QED BY <1>11, NtEventType

LEMMA NtActions == NtNext <=> NtStreamAction \/ NtStatusAction
  BY DEF NtNext, NtStreamAction, NtStatusAction

LEMMA NtTypeStep == NtTypeOK /\ [NtNext]_ntVars => NtTypeOK'
<1> SUFFICES ASSUME NtTypeOK, [NtNext]_ntVars PROVE NtTypeOK'
  OBVIOUS
<1>0. NtStatusTypes' /\ NtStreamTypes' /\ NtTrackTypes' /\ ntSaved' \in NtStreams
      /\ ntEvents' \in 0..MaxNtEvents => NtTypeOK'
  BY DEF NtTypeOK, NtStatusTypes, NtStreamTypes, NtTrackTypes, NtStreams, NtLockStates, NtNetworks
<1>1. CASE NtStreamAction
  <2>1. NtSavedStep /\ UNCHANGED <<ntLockVars, ntStatusVars>>
    BY <1>1, NtStreamSaves
  <2>2. ntSaved' \in NtStreams /\ ntDaemon' \in [NtDaemons -> NtProcess]
    BY <2>1, NtRunType
  <2>3. NtStatusTypes'
    BY <2>1, <2>2 DEF NtTypeOK, NtStatusTypes, NtLockStates, NtNetworks, ntLockVars, ntStatusVars
  <2> QED BY <1>0, <1>1, <2>2, <2>3, NtStreamType
<1>2. CASE NtStatusAction
  BY <1>0, <1>2, NtStatusType
<1>3. CASE UNCHANGED ntVars
  BY <1>3 DEF NtTypeOK, ntVars, ntStreamVars, ntTrackVars, ntLockVars, ntStatusVars
<1> QED BY <1>1, <1>2, <1>3, NtActions

-----------------------------------------------------------------------------
(* What the daemons know *)

(* What a daemon was told is as it is now *)
NtIsTold(d) ==
  /\ ntDaemon[d].net = ntNet
  /\ d = "xtra" => ntDaemon[d].lock = ntLock /\ ntDaemon[d].registered = ntRegister
  /\ d = "dgnss" => ntDaemon[d].stream = ntSaved

NtAskWaits(d) == \E i \in DOMAIN ntAsks : ntAsks[i] = <<d, FALSE>>

(* A daemon that has asked knows, or its first request since it started    *)
(* still waits: what comes before that is sent to it, too, but only once   *)
(* somebody was answered; a stream is sent at any time                     *)
NtAskedAreTold ==
  /\ \A d \in NtDaemons : ntDaemon[d].asked =>
       /\ ntDaemon[d].up
       /\ (ntReq /\ NtIsTold(d)) \/ NtAskWaits(d)
  /\ ntDaemon["dgnss"].stream \in {NtNone, ntSaved}
  /\ ntDaemon["dgnss"].up \/ ntDaemon["dgnss"].stream = NtNone

NtLast(q) == q[Len(q)]

(* The last lock event that waits says what the engine is; when none       *)
(* waits, the lock is the framework's and the engine's                     *)
NtLockFollows ==
  /\ ntLocks # <<>> => NtLast(ntLocks) = ntUnlocked
  /\ (ntLocks = <<>> /\ ntLock # NtUnknown) => (ntLock = "on") = (ntAfw /\ ntUnlocked)

NtDaemonInv == NtAskedAreTold /\ NtLockFollows

LEMMA NtFifo ==
  ASSUME NEW S
  PROVE  /\ \A q \in Seq(S), x \in S :
              /\ NtLast(Append(q, x)) = x /\ Append(q, x) # <<>>
              /\ \A y : (\E i \in DOMAIN q : q[i] = y) =>
                           \E i \in DOMAIN Append(q, x) : Append(q, x)[i] = y
              /\ \E i \in DOMAIN Append(q, x) : Append(q, x)[i] = x
         /\ \A q \in Seq(S) : q # <<>> =>
              /\ Tail(q) = <<>> => NtLast(q) = Head(q)
              /\ Tail(q) # <<>> => NtLast(Tail(q)) = NtLast(q)
              /\ \A y : (\E i \in DOMAIN q : q[i] = y) =>
                           y = Head(q) \/ \E i \in DOMAIN Tail(q) : Tail(q)[i] = y
<1>1. ASSUME NEW q \in Seq(S), NEW x \in S
      PROVE  /\ NtLast(Append(q, x)) = x /\ Append(q, x) # <<>>
             /\ \A y : (\E i \in DOMAIN q : q[i] = y) =>
                           \E i \in DOMAIN Append(q, x) : Append(q, x)[i] = y
             /\ \E i \in DOMAIN Append(q, x) : Append(q, x)[i] = x
  BY DEF NtLast
<1>2. ASSUME NEW q \in Seq(S), q # <<>>
      PROVE  /\ Tail(q) = <<>> => NtLast(q) = Head(q)
             /\ Tail(q) # <<>> => NtLast(Tail(q)) = NtLast(q)
             /\ \A y : (\E i \in DOMAIN q : q[i] = y) =>
                           y = Head(q) \/ \E i \in DOMAIN Tail(q) : Tail(q)[i] = y
  <2>1. Len(q) \in Nat /\ Len(q) > 0 /\ Len(Tail(q)) = Len(q) - 1
        /\ \A i \in 1..(Len(q) - 1) : Tail(q)[i] = q[i + 1]
    BY <1>2
  <2>2. ASSUME NEW y, NEW i \in DOMAIN q, q[i] = y, y # Head(q)
        PROVE  \E j \in DOMAIN Tail(q) : Tail(q)[j] = y
    <3>2. i - 1 \in DOMAIN Tail(q) /\ Tail(q)[i - 1] = y
      BY <2>1, <2>2
    <3> QED BY <3>2
  <2> QED BY <1>2, <2>1, <2>2 DEF NtLast
<1> QED BY <1>1, <1>2

LEMMA NtFifoOfFlags ==
  ASSUME NEW q \in Seq(BOOLEAN), NEW x \in BOOLEAN
  PROVE  NtLast(Append(q, x)) = x /\ Append(q, x) # <<>>
  BY NtFifo

LEMMA NtDaemonInit == NtInit => NtDaemonInv
<1> SUFFICES ASSUME NtInit PROVE NtDaemonInv
  OBVIOUS
<1> QED BY NtProcessFacts, NtDaemonMembers DEF NtInit, NtDaemonInv, NtAskedAreTold,
  NtLockFollows

(* The daemons after updateLockStatus *)
LEMMA NtTellLockFacts ==
  ASSUME NtStatusTypes, NEW on \in BOOLEAN, NtTellLock(on)
  PROVE  /\ ntLock' # NtUnknown => (ntLock' = "on") = on
         /\ ntDaemon'.dgnss = ntDaemon.dgnss
         /\ ntDaemon'.xtra.up = ntDaemon.xtra.up /\ ntDaemon'.xtra.asked = ntDaemon.xtra.asked
         /\ ntDaemon'.xtra.net = ntDaemon.xtra.net
         /\ ntDaemon'.xtra.registered = ntDaemon.xtra.registered
         /\ ntReq /\ ntDaemon.xtra.up => ntDaemon'.xtra.lock = ntLock'
<1> DEFINE lock == IF on THEN "on" ELSE "off"
<1>1. lock \in NtLockStates /\ (lock = "on") = on
  BY DEF NtLockStates
<1>2. ntDaemon.xtra \in NtProcess
  BY NtDaemonMembers DEF NtStatusTypes
<1>3. ntLock' = lock
      /\ ntDaemon' = IF ntReq THEN [ntDaemon EXCEPT !.xtra = NtWith(ntDaemon.xtra, "lock", lock)]
                     ELSE ntDaemon
  BY DEF NtTellLock
<1> HIDE DEF lock
<1>4. ntDaemon'.dgnss = ntDaemon.dgnss
      /\ ntDaemon'.xtra = IF ntReq THEN NtWith(ntDaemon.xtra, "lock", lock) ELSE ntDaemon.xtra
  BY <1>3, NtDaemonMembers DEF NtStatusTypes
<1> QED BY <1>1, <1>2, <1>3, <1>4, NtWithFacts

(* The daemons after an answer *)
LEMMA NtAnsweredFacts ==
  ASSUME NtStatusTypes, ntSaved \in NtStreams, NEW d \in NtDaemons, NEW updated \in BOOLEAN
  PROVE  LET after == NtAnswered(d, updated)
         IN /\ after.xtra.up = ntDaemon.xtra.up /\ after.xtra.asked = ntDaemon.xtra.asked
            /\ ntDaemon.xtra.up => after.xtra.registered = ntRegister
            /\ IF updated
               THEN after.xtra.net = ntDaemon.xtra.net /\ after.xtra.lock = ntDaemon.xtra.lock
               ELSE ntDaemon.xtra.up => after.xtra.net = ntNet /\ after.xtra.lock = ntLock
            /\ after.dgnss.up = ntDaemon.dgnss.up /\ after.dgnss.asked = ntDaemon.dgnss.asked
            /\ IF updated THEN after.dgnss.net = ntDaemon.dgnss.net
               ELSE ntDaemon.dgnss.up => after.dgnss.net = ntNet
            /\ after.dgnss.stream = IF d = "dgnss" /\ ntSaved # NtNone /\ ntDaemon.dgnss.up
                                    THEN ntSaved ELSE ntDaemon.dgnss.stream
<1>1. ntDaemon.xtra \in NtProcess /\ ntDaemon.dgnss \in NtProcess
      /\ ntLock \in NtLockStates /\ ntNet \in NtNetworks /\ ntRegister \in BOOLEAN
  BY NtDaemonMembers DEF NtStatusTypes
<1> DEFINE told(p) == IF updated THEN p ELSE NtWith(p, "net", ntNet)
           xtra == told(ntDaemon.xtra)
           dgnss == told(ntDaemon.dgnss)
           locked == IF updated THEN xtra ELSE NtWith(xtra, "lock", ntLock)
           streams == IF d = "dgnss" /\ ntSaved # NtNone
                      THEN NtWith(dgnss, "stream", ntSaved) ELSE dgnss
<1>2. /\ xtra \in NtProcess
      /\ xtra.up = ntDaemon.xtra.up /\ xtra.asked = ntDaemon.xtra.asked
      /\ xtra.lock = ntDaemon.xtra.lock
      /\ IF updated THEN xtra.net = ntDaemon.xtra.net ELSE ntDaemon.xtra.up => xtra.net = ntNet
  <2>1. CASE updated
    BY <1>1, <2>1
  <2>2. CASE ~updated
    <3>1. xtra = NtWith(ntDaemon.xtra, "net", ntNet)
      BY <2>2
    <3> HIDE DEF xtra
    <3> QED BY <1>1, <2>2, <3>1, NtWithFacts
  <2> QED BY <2>1, <2>2
<1>3. /\ dgnss \in NtProcess
      /\ dgnss.up = ntDaemon.dgnss.up /\ dgnss.asked = ntDaemon.dgnss.asked
      /\ dgnss.stream = ntDaemon.dgnss.stream
      /\ IF updated THEN dgnss.net = ntDaemon.dgnss.net ELSE ntDaemon.dgnss.up => dgnss.net = ntNet
  <2>1. CASE updated
    BY <1>1, <2>1
  <2>2. CASE ~updated
    <3>1. dgnss = NtWith(ntDaemon.dgnss, "net", ntNet)
      BY <2>2
    <3> HIDE DEF dgnss
    <3> QED BY <1>1, <2>2, <3>1, NtWithFacts
  <2> QED BY <2>1, <2>2
<1>4. /\ locked \in NtProcess
      /\ locked.up = xtra.up /\ locked.asked = xtra.asked /\ locked.net = xtra.net
      /\ IF updated THEN locked.lock = xtra.lock ELSE xtra.up => locked.lock = ntLock
  <2> HIDE DEF xtra
  <2> QED BY <1>1, <1>2, NtWithFacts
<1>5. /\ NtWith(locked, "registered", ntRegister).up = locked.up
      /\ NtWith(locked, "registered", ntRegister).asked = locked.asked
      /\ NtWith(locked, "registered", ntRegister).net = locked.net
      /\ NtWith(locked, "registered", ntRegister).lock = locked.lock
      /\ locked.up => NtWith(locked, "registered", ntRegister).registered = ntRegister
  <2> HIDE DEF locked
  <2>1. locked \in NtProcess /\ ntRegister \in BOOLEAN
    BY <1>1, <1>4
  <2>2. locked.up => NtWith(locked, "registered", ntRegister).registered = ntRegister
    BY <2>1, NtRegisteredFact, Zenon
  <2> QED BY <2>1, <2>2, NtWithFacts
<1>6. /\ streams.up = dgnss.up /\ streams.asked = dgnss.asked /\ streams.net = dgnss.net
      /\ streams.stream = IF d = "dgnss" /\ ntSaved # NtNone /\ dgnss.up
                          THEN ntSaved ELSE dgnss.stream
  <2> HIDE DEF dgnss
  <2> DEFINE s == NtWith(dgnss, "stream", ntSaved)
  <2>1. /\ s.up = dgnss.up /\ s.asked = dgnss.asked /\ s.net = dgnss.net
        /\ s.stream = IF dgnss.up THEN ntSaved ELSE dgnss.stream
    BY <1>3, NtWithFacts
  <2>2. streams = IF d = "dgnss" /\ ntSaved # NtNone THEN s ELSE dgnss
    OBVIOUS
  <2> HIDE DEF s, streams
  <2> QED BY <2>1, <2>2
<1>7. /\ NtAnswered(d, updated).xtra = NtWith(locked, "registered", ntRegister)
      /\ NtAnswered(d, updated).dgnss = streams
  BY DEF NtAnswered
<1> HIDE DEF xtra, dgnss, locked, streams
<1> QED BY <1>2, <1>3, <1>4, <1>5, <1>6, <1>7

(* A step that leaves the lock, the networks and the requests alone *)
LEMMA NtDaemonStreamStep ==
  ASSUME NtTypeOK, NtDaemonInv, NtSavedStep, UNCHANGED <<ntLockVars, ntStatusVars>>
  PROVE  NtDaemonInv'
<1>1. NtLockFollows'
  BY DEF NtDaemonInv, NtLockFollows, ntLockVars
<1>2. CASE UNCHANGED <<ntSaved, ntDaemon>>
  BY <1>1, <1>2
     DEF NtDaemonInv, NtAskedAreTold, NtIsTold, NtAskWaits, ntLockVars, ntStatusVars
<1>3. ASSUME NEW stream \in NtStreams, NtRun(stream)
      PROVE  NtAskedAreTold'
  <2>1. ntDaemon.dgnss \in NtProcess
    BY NtDaemonMembers DEF NtTypeOK
  <2> DEFINE p == NtWith(ntDaemon.dgnss, "stream", stream)
  <2>2. /\ p.up = ntDaemon.dgnss.up /\ p.asked = ntDaemon.dgnss.asked
        /\ p.net = ntDaemon.dgnss.net
        /\ p.up => p.stream = stream
        /\ ~p.up => p.stream = ntDaemon.dgnss.stream
    BY <2>1, NtWithFacts
  <2>3. ntSaved' = stream /\ ntDaemon'.dgnss = p /\ ntDaemon'.xtra = ntDaemon.xtra
    BY <1>3, NtDaemonMembers DEF NtRun, NtTypeOK
  <2> QED
    <3>1. UNCHANGED <<ntNet, ntReq, ntRegister, ntAsks, ntLock>>
      BY DEF ntLockVars, ntStatusVars
    <3> HIDE DEF p
    <3> QED
      BY <2>2, <2>3, <3>1 DEF NtDaemonInv, NtAskedAreTold, NtIsTold, NtAskWaits, NtDaemons
<1> QED BY <1>1, <1>2, <1>3 DEF NtSavedStep, NtDaemonInv

LEMMA NtDaemonStatusStep ==
  ASSUME NtTypeOK, NtDaemonInv, NtStatusAction
  PROVE  NtDaemonInv'
<1>0. NtStatusTypes /\ NtTrackTypes /\ ntSaved \in NtStreams
      /\ ntDaemon.xtra \in NtProcess /\ ntDaemon.dgnss \in NtProcess
  BY NtDaemonMembers
     DEF NtTypeOK, NtStatusTypes, NtTrackTypes, NtStreams, NtLockStates, NtNetworks
<1> USE DEF NtDaemonInv, NtAskedAreTold, NtIsTold, NtAskWaits, NtDaemons
<1>1. CASE NtResume
  BY <1>1 DEF NtResume, NtRestart, NtLockFollows, ntLockVars, ntStatusVars, ntStreamVars
<1>2. ASSUME NEW on \in BOOLEAN, NtTellLock(on),
             UNCHANGED <<ntSaved, ntNet, ntReq, ntRegister, ntAsks>>
      PROVE  NtAskedAreTold'
  BY <1>0, <1>2, NtTellLockFacts
<1>3. CASE NtEnableGnss
  BY <1>0, <1>2, <1>3, NtTellLockFacts DEF NtStatusTypes, NtEnableGnss, ntStreamVars,
    ntStatusVars, NtLockFollows
<1>4. CASE NtDisableGnss
  BY <1>0, <1>2, <1>4, NtTellLockFacts DEF NtDisableGnss, ntStreamVars, ntStatusVars,
    NtLockFollows
<1>5. CASE NtLockEvent
  BY <1>0, <1>5, NtFifoOfFlags, Zenon DEF NtLockEvent, NtStatusTypes, ntStreamVars,
    ntStatusVars, NtLockFollows
<1>6. CASE NtHandleLock
  <2> DEFINE unlocked == Head(ntLocks)
  <2>1. unlocked \in BOOLEAN /\ ntLocks \in Seq(BOOLEAN) /\ ntLocks # <<>>
    BY <1>0, <1>6, SequencesOf DEF NtHandleLock, NtStatusTypes
  <2>2. /\ NtTellLock(unlocked /\ ntAfw) /\ ntLocks' = Tail(ntLocks)
        /\ UNCHANGED <<ntAfw, ntUnlocked>>
        /\ UNCHANGED <<ntSaved, ntNet, ntReq, ntRegister, ntAsks>>
    BY <1>6 DEF NtHandleLock, NtRestart, ntStreamVars, ntStatusVars
  <2>3. (unlocked /\ ntAfw) \in BOOLEAN
    OBVIOUS
  <2>6. /\ Tail(ntLocks) = <<>> => NtLast(ntLocks) = unlocked
        /\ Tail(ntLocks) # <<>> => NtLast(Tail(ntLocks)) = NtLast(ntLocks)
    BY <2>1, NtFifo
  <2>7. NtLast(ntLocks) = ntUnlocked
    BY <2>1 DEF NtLockFollows
  <2> HIDE DEF unlocked
  <2>8. NtLockFollows'
    BY <1>0, <2>2, <2>3, <2>6, <2>7, NtTellLockFacts DEF NtLockFollows
  <2> QED BY <1>2, <2>2, <2>3, <2>8
<1>7. ASSUME NEW net \in NtNetwork, NtUpdateConnections(net)
      PROVE  NtDaemonInv'
  <2>2. /\ ntNet' = net
        /\ UNCHANGED <<ntSaved, ntReq, ntRegister, ntAsks, ntAfw, ntUnlocked, ntLocks, ntLock>>
        /\ ~ntReq => UNCHANGED ntDaemon
        /\ ntReq => ntDaemon'.xtra = NtWith(ntDaemon.xtra, "net", net)
                    /\ ntDaemon'.dgnss = NtWith(ntDaemon.dgnss, "net", net)
    BY <1>0, <1>7 DEF NtUpdateConnections, ntStreamVars, ntLockVars
  <2>3. NtAskedAreTold'
    <3>1. ASSUME NEW p \in NtProcess
          PROVE  LET q == NtWith(p, "net", net) IN
                 /\ q.up = p.up /\ q.asked = p.asked /\ q.lock = p.lock
                 /\ q.registered = p.registered /\ q.stream = p.stream
                 /\ p.up => q.net = net
      BY NtWithFacts DEF NtNetworks
    <3> DEFINE x == NtWith(ntDaemon.xtra, "net", net)
               g == NtWith(ntDaemon.dgnss, "net", net)
    <3>2. CASE ntReq
      <4>2. \A d : NtAskWaits(d)' = NtAskWaits(d)
        BY <2>2
      <4> HIDE DEF x, g, NtAskWaits
      <4> QED BY <1>0, <2>2, <3>1, <3>2, <4>2
    <3>3. CASE ~ntReq
      BY <2>2, <3>3
    <3> QED BY <3>2, <3>3
  <2> QED BY <2>2, <2>3 DEF NtLockFollows
<1>8. CASE NtRegisterForStatus
  <2> DEFINE p == NtWith(ntDaemon.xtra, "registered", ~ntRegister)
  <2>1. /\ ntReq
        /\ UNCHANGED <<ntSaved, ntNet, ntReq, ntAsks, ntAfw, ntUnlocked, ntLocks, ntLock>>
        /\ ntDaemon'.dgnss = ntDaemon.dgnss /\ ntDaemon'.xtra = p
    BY <1>0, <1>8, NtDaemonMembers
       DEF NtRegisterForStatus, NtStatusTypes, ntStreamVars, ntLockVars
  <2>2. (~ntRegister) \in BOOLEAN /\ ntRegister' = ~ntRegister
    BY <1>8, Zenon DEF NtRegisterForStatus
  <2>3. /\ p.up = ntDaemon.xtra.up /\ p.asked = ntDaemon.xtra.asked
        /\ p.net = ntDaemon.xtra.net /\ p.lock = ntDaemon.xtra.lock
    BY <1>0, <2>2, NtWithFacts
  <2>4. ntDaemon.xtra.up => p.registered = ntRegister'
    BY <1>0, <2>2, NtRegisteredFact, Zenon
  <2> HIDE DEF p
  <2> QED BY <2>1, <2>3, <2>4 DEF NtLockFollows
<1>9. ASSUME NEW d \in NtDaemons, NtDaemonEnds(d) \/ NtDaemonStarts(d)
      PROVE  NtDaemonInv'
  <2>1. /\ UNCHANGED <<ntSaved, ntNet, ntReq, ntRegister, ntAsks, ntAfw, ntUnlocked, ntLocks, ntLock>>
        /\ ~ntDaemon'[d].asked /\ ntDaemon'[d].stream = NtNone
        /\ \A e \in NtDaemons \ {d} : ntDaemon'[e] = ntDaemon[e]
    BY <1>0, <1>9, NtProcessFacts
       DEF NtDaemonEnds, NtDaemonStarts, NtStatusTypes, ntStreamVars, ntLockVars, ntStatusVars
  <2> QED BY <2>1 DEF NtLockFollows
<1>10. ASSUME NEW d \in NtDaemons, NtAsk(d)
       PROVE  NtDaemonInv'
  <2>1. ntDaemon[d] \in NtProcess
    BY <1>0
  <2>2. /\ UNCHANGED <<ntSaved, ntNet, ntReq, ntRegister, ntAfw, ntUnlocked, ntLocks, ntLock>>
        /\ ntAsks' = Append(ntAsks, <<d, ntDaemon[d].asked>>)
        /\ ntDaemon' = [ntDaemon EXCEPT ![d] = [ntDaemon[d] EXCEPT !.asked = TRUE]]
        /\ ntDaemon[d].up
    BY <1>10 DEF NtAsk, ntStreamVars, ntLockVars
  <2>5. /\ \A e \in NtDaemons : NtAskWaits(e) => NtAskWaits(e)'
        /\ ~ntDaemon[d].asked => NtAskWaits(d)'
    <3> HIDE DEF NtDaemons
    <3>2. /\ \A y : (\E i \in DOMAIN ntAsks : ntAsks[i] = y) =>
                      \E i \in DOMAIN ntAsks' : ntAsks'[i] = y
          /\ \E i \in DOMAIN ntAsks' : ntAsks'[i] = <<d, ntDaemon[d].asked>>
      <4> DEFINE S == NtDaemons \X BOOLEAN
                 x == <<d, ntDaemon[d].asked>>
      <4>1. ntAsks \in Seq(S) /\ x \in S /\ ntAsks' = Append(ntAsks, x)
        BY <1>0, <2>1, <2>2 DEF NtProcess, NtStatusTypes
      <4> HIDE DEF S, x
      <4>2. /\ \A i \in DOMAIN ntAsks : i \in DOMAIN ntAsks' /\ ntAsks'[i] = ntAsks[i]
            /\ Len(ntAsks) + 1 \in DOMAIN ntAsks' /\ ntAsks'[Len(ntAsks) + 1] = x
        BY <4>1
      <4> QED BY <4>2 DEF x
    <3> QED BY <2>1, <3>2 DEF NtProcess
  <2>6. NtAskedAreTold'
    <3> HIDE DEF NtAskWaits
    <3> QED BY <1>0, <2>1, <2>2, <2>5 DEF NtStatusTypes, NtProcess
  <2> QED BY <2>2, <2>6 DEF NtLockFollows
<1>11. CASE NtHandleRequest
  <2> DEFINE d == Head(ntAsks)[1]
             updated == Head(ntAsks)[2]
             after == NtAnswered(d, updated)
  <2>1. /\ ntAsks \in Seq(NtDaemons \X BOOLEAN) /\ ntAsks # <<>>
        /\ Head(ntAsks) \in NtDaemons \X BOOLEAN
    <3> HIDE DEF NtDaemons
    <3> QED BY <1>0, <1>11, SequencesOf DEF NtHandleRequest, NtStatusTypes
  <2>2. d \in NtDaemons /\ updated \in BOOLEAN /\ Head(ntAsks) = <<d, updated>>
    BY <2>1
  <2>3. /\ UNCHANGED <<ntSaved, ntNet, ntRegister, ntAfw, ntUnlocked, ntLocks, ntLock>>
        /\ ntReq' = TRUE /\ ntAsks' = Tail(ntAsks) /\ ntDaemon' = after
    BY <1>11 DEF NtHandleRequest, ntStreamVars, ntLockVars
  <2>4. \A e \in NtDaemons : NtAskWaits(e) =>
          NtAskWaits(e)' \/ (d = e /\ ~updated)
    <3>1. ASSUME NEW e \in NtDaemons, NtAskWaits(e), ~NtAskWaits(e)'
          PROVE  <<e, FALSE>> = <<d, updated>>
      <4> HIDE DEF NtDaemons, d, updated
      <4>1. PICK y : y = <<e, FALSE>>
        OBVIOUS
      <4>6. PICK S : S = NtDaemons \X BOOLEAN
        OBVIOUS
      <4>2. PICK q \in Seq(S) : q = ntAsks /\ q # <<>>
        BY <2>1, <4>6
      <4>3. PICK i \in DOMAIN q : q[i] = y
        BY <3>1, <4>1, <4>2
      <4>4. y = Head(q) \/ \E j \in DOMAIN Tail(q) : Tail(q)[j] = y
        <5>1. /\ Len(q) \in Nat /\ i \in 1..Len(q) /\ Head(q) = q[1]
              /\ DOMAIN Tail(q) = 1..(Len(q) - 1) /\ \A j \in DOMAIN Tail(q) : Tail(q)[j] = q[j + 1]
          BY <4>2
        <5>2. i # 1 => i - 1 \in DOMAIN Tail(q) /\ (i - 1) + 1 = i
          BY <5>1
        <5> QED BY <4>3, <5>1, <5>2
      <4>5. ~\E j \in DOMAIN Tail(q) : Tail(q)[j] = y
        BY <2>3, <3>1, <4>1, <4>2
      <4> QED BY <2>2, <4>1, <4>2, <4>4, <4>5
    <3> HIDE DEF d, updated
    <3> QED BY <2>2, <3>1
  <2>5. /\ after.xtra.up = ntDaemon.xtra.up /\ after.xtra.asked = ntDaemon.xtra.asked
        /\ ntDaemon.xtra.up => after.xtra.registered = ntRegister
        /\ updated => after.xtra.net = ntDaemon.xtra.net /\ after.xtra.lock = ntDaemon.xtra.lock
        /\ ~updated => (ntDaemon.xtra.up => after.xtra.net = ntNet /\ after.xtra.lock = ntLock)
        /\ after.dgnss.up = ntDaemon.dgnss.up /\ after.dgnss.asked = ntDaemon.dgnss.asked
        /\ updated => after.dgnss.net = ntDaemon.dgnss.net
        /\ ~updated => (ntDaemon.dgnss.up => after.dgnss.net = ntNet)
        /\ after.dgnss.stream = IF d = "dgnss" /\ ntSaved # NtNone /\ ntDaemon.dgnss.up
                                THEN ntSaved ELSE ntDaemon.dgnss.stream
    <3> HIDE DEF d, updated, NtDaemons
    <3> QED BY <1>0, <2>2, NtAnsweredFacts
  <2> HIDE DEF d, updated, after
  <2>6. NtAskedAreTold'
    <3> HIDE DEF NtAskWaits
    <3> QED BY <2>2, <2>3, <2>4, <2>5
  <2> QED BY <2>3, <2>6 DEF NtLockFollows
<1> HIDE DEF NtDaemonInv, NtAskedAreTold, NtIsTold, NtAskWaits, NtDaemons
<1> QED BY <1>1, <1>3, <1>4, <1>5, <1>6, <1>7, <1>8, <1>9, <1>10, <1>11 DEF NtStatusAction

-----------------------------------------------------------------------------
(* Which stream runs *)

(* What is saved is the stream that is started, which is the enabled one   *)
(* and has a session: unless it was left                                   *)
NtSavedIsStarted ==
  /\ ~ntLeft => ntSaved = IF "started" \in ntState THEN ntParams ELSE NtNone
  /\ (~ntLeft /\ "started" \in ntState) => ("enabled" \in ntState /\ NtInSession)

(* A stream waits for a position only if it needs one that may be sent     *)
NtWaitsIfRequired ==
  "enabled" \in ntState /\ "nmea" \notin ntState => NtRequired \/ ntMissed

NtStreamInv == NtSavedIsStarted /\ NtWaitsIfRequired /\ WantedStreamComes

LEMMA NtStreamInit == NtInit => NtStreamInv
  BY DEF NtInit, NtStreamInv, NtSavedIsStarted, NtWaitsIfRequired, WantedStreamComes, NtInSession

(* checkUpdateDgnssNtrip, in a step that leaves sessions and power alone   *)
LEMMA NtCheckFacts ==
  ASSUME NEW state \in SUBSET {"enabled", "nmea", "started"}, NEW params, NEW left, NEW missed,
         NtCheck(state, params, left, missed)
  PROVE  \/ /\ NtInSession /\ ntAwake /\ "started" \notin state
            /\ "enabled" \in state /\ "nmea" \in state
            /\ ntState' = state \cup {"started"} /\ ntSaved' = params
            /\ ntLeft' = FALSE /\ ntMissed' = FALSE
         \/ /\ ntState' = state /\ ntSaved' = ntSaved /\ ntLeft' = left /\ ntMissed' = missed
            /\ ~(NtInSession /\ ntAwake /\ {"enabled", "nmea"} \subseteq state
                 /\ "started" \notin state)
  BY DEF NtCheck, NtRun

LEMMA NtStreamStep ==
  ASSUME NtTypeOK, NtStreamInv, NtStreamAction
  PROVE  NtStreamInv'
<1>0. /\ ntState \subseteq {"enabled", "nmea", "started"}
      /\ ntStarts \in Seq(NtSession \cup {NtNone})
      /\ ntTracks \in [NtSession -> {"new", "on", "off"}]
      /\ ntLeft \in BOOLEAN /\ ntMissed \in BOOLEAN /\ ntConsent \in BOOLEAN
      /\ ntSaved \in NtStreams
  BY DEF NtTypeOK, NtStreams
<1> DEFINE P == NtSavedIsStarted' /\ NtWaitsIfRequired' /\ WantedStreamComes'
<1> USE DEF NtStreamInv, NtSavedIsStarted, NtWaitsIfRequired, WantedStreamComes, NtRequired
<1>1. ASSUME NEW stream \in NtStream, NtEnable(stream) PROVE P
  <2> DEFINE waits == ntConsent /\ stream \in NtNeeds
             left == ntSaved # NtNone
             old == ntState \ {"started"}
  <2>1. /\ ntParams' = stream /\ UNCHANGED <<ntConsent, ntTracks, ntStarts, ntAwake>>
        /\ NtInSession' = NtInSession
    BY <1>1 DEF NtEnable, ntTrackVars, NtInSession
  <2>2. CASE waits
    <3>1. ntState' = (old \cup {"enabled"}) \ {"nmea"} /\ ntLeft' = left /\ UNCHANGED ntSaved
      BY <1>1, <2>2 DEF NtEnable
    <3> QED BY <2>1, <2>2, <3>1
  <2>3. CASE ~waits
    <3>1. NtCheck(old \cup {"enabled", "nmea"}, stream, left, FALSE)
      BY <1>1, <2>3 DEF NtEnable
    <3> DEFINE st == old \cup {"enabled", "nmea"}
    <3>a. \/ /\ NtInSession /\ ntAwake /\ "started" \notin st
            /\ "enabled" \in st /\ "nmea" \in st
            /\ ntState' = st \cup {"started"} /\ ntSaved' = stream
            /\ ntLeft' = FALSE /\ ntMissed' = FALSE
         \/ /\ ntState' = st /\ ntSaved' = ntSaved /\ ntLeft' = left /\ ntMissed' = FALSE
            /\ ~(NtInSession /\ ntAwake /\ {"enabled", "nmea"} \subseteq st
                 /\ "started" \notin st)
      BY <1>0, <3>1, NtCheckFacts
    <3> QED BY <2>1, <2>3, <3>a
  <2> QED BY <2>2, <2>3
<1>2. ASSUME NEW stream \in NtStream, NtReadConfig(stream) PROVE P
  BY <1>0, <1>2 DEF NtReadConfig, ntTrackVars, NtInSession
<1>3. ASSUME NtDisable PROVE P
  BY <1>0, <1>3 DEF NtDisable, ntTrackVars, NtInSession, NtStop, NtRun
<1>4. ASSUME NtConsent PROVE P
  BY <1>0, <1>4 DEF NtConsent, ntTrackVars, NtInSession
<1>5. ASSUME NtReport PROVE P
  <2>2. NtCheck(ntState \cup {"nmea"}, ntParams, ntLeft, ntMissed)
        /\ UNCHANGED <<ntParams, ntConsent, ntTracks, ntStarts, ntAwake>>
    BY <1>5 DEF NtReport, ntTrackVars
  <2> DEFINE st == ntState \cup {"nmea"}
  <2>a. \/ /\ NtInSession /\ ntAwake /\ "started" \notin st
          /\ "enabled" \in st /\ "nmea" \in st
          /\ ntState' = st \cup {"started"} /\ ntSaved' = ntParams
          /\ ntLeft' = FALSE /\ ntMissed' = FALSE
       \/ /\ ntState' = st /\ ntSaved' = ntSaved /\ ntLeft' = ntLeft /\ ntMissed' = ntMissed
          /\ ~(NtInSession /\ ntAwake /\ {"enabled", "nmea"} \subseteq st
               /\ "started" \notin st)
    BY <1>0, <2>2, NtCheckFacts
  <2> QED BY <1>0, <1>5, <2>a, <2>2 DEF NtReport, ntTrackVars, NtInSession
<1>6. ASSUME NEW s \in NtSession, NtStartTracking(s) PROVE P
  BY <1>0, <1>6 DEF NtStartTracking, NtInSession, NtCall, ntStreamVars
<1>7. ASSUME NEW s \in NtSession, NtStopSession(s) PROVE P
  <2>2. NtInSession' <=> \E t \in NtSession \ {s} : ntTracks[t] = "on"
    BY <1>0, <1>7 DEF NtStopSession, NtInSession
  <2>4. CASE NtInSession'
    BY <1>0, <1>7, <2>2, <2>4 DEF NtStopSession, ntStreamVars, NtCall, NtInSession
  <2>5. CASE ~NtInSession'
    BY <1>0, <1>7, <2>2, <2>5 DEF NtStopSession, NtStopTracking, NtStop, NtRun
  <2> QED BY <2>4, <2>5
<1>8. ASSUME NEW ok \in BOOLEAN, NtStartAnswer(ok) PROVE P
  <2> DEFINE s == Head(ntStarts)
             erased == ntUnlocked /\ ~ok
             tracks == IF erased /\ s \in NtSession THEN [ntTracks EXCEPT ![s] = "off"] ELSE ntTracks
             inSession == \E t \in NtSession : tracks[t] = "on"
  <2>1. ntTracks' = tracks /\ UNCHANGED <<ntParams, ntConsent, ntAwake>>
    BY <1>8 DEF NtStartAnswer
  <2>2. (NtInSession' <=> inSession) /\ (inSession => NtInSession)
    BY <1>0, <2>1 DEF NtInSession
  <2>3. CASE erased
    <3>1. /\ ntLeft' = (ntLeft \/ (~inSession /\ "started" \in ntState))
          /\ ntMissed' = (ntMissed \/ (inSession /\ "started" \notin ntState))
          /\ UNCHANGED <<ntState, ntSaved>>
      BY <1>8, <2>3 DEF NtStartAnswer
    <3> HIDE DEF inSession
    <3> QED BY <2>1, <2>2, <3>1
  <2>4. CASE ~erased
    <3> DEFINE st == ntState
    <3>a. \/ /\ NtInSession /\ ntAwake /\ "started" \notin st
            /\ "enabled" \in st /\ "nmea" \in st
            /\ ntState' = st \cup {"started"} /\ ntSaved' = ntParams
            /\ ntLeft' = FALSE /\ ntMissed' = FALSE
         \/ /\ ntState' = st /\ ntSaved' = ntSaved /\ ntLeft' = ntLeft /\ ntMissed' = ntMissed
            /\ ~(NtInSession /\ ntAwake /\ {"enabled", "nmea"} \subseteq st
                 /\ "started" \notin st)
      BY <1>0, <1>8, <2>4, NtCheckFacts DEF NtStartAnswer
    <3> QED BY <1>0, <2>1, <2>4, <3>a DEF NtInSession
  <2> QED BY <2>3, <2>4
<1>9. ASSUME NtSuspend PROVE P
  <2>1. NtInSession' = NtInSession /\ ~ntAwake' /\ UNCHANGED ntConsent
    BY <1>9 DEF NtSuspend, NtInSession
  <2>2. CASE NtInSession
    BY <1>0, <1>9, <2>1, <2>2 DEF NtSuspend, NtStopTracking, NtStop, NtRun
  <2>3. CASE ~NtInSession
    BY <1>0, <1>9, <2>1, <2>3 DEF NtSuspend, ntStreamVars
  <2> QED BY <2>2, <2>3
<1> QED BY <1>1, <1>2, <1>3, <1>4, <1>5, <1>6, <1>7, <1>8, <1>9 DEF NtStreamAction

(* The other steps leave the stream alone; a restart of the sessions owes  *)
(* an answer                                                               *)
LEMMA NtStreamOtherStep ==
  ASSUME NtTypeOK, NtStreamInv, NtStatusAction
  PROVE  NtStreamInv'
<1> USE DEF NtStreamInv, NtSavedIsStarted, NtWaitsIfRequired, WantedStreamComes, NtRequired,
            NtInSession
<1>1. ASSUME UNCHANGED <<ntStreamVars, ntConsent, ntTrackVars>> PROVE NtStreamInv'
  BY <1>1 DEF ntStreamVars, ntTrackVars
<1>2. ASSUME NEW awake, NtRestart(awake), awake = TRUE \/ awake = ntAwake PROVE NtStreamInv'
  BY <1>2 DEF NtTypeOK, NtRestart, ntStreamVars
<1>3. CASE NtResume
  BY <1>2, <1>3 DEF NtResume
<1>4. CASE NtHandleLock
  <2>1. CASE Head(ntLocks)
    BY <1>2, <1>4, <2>1 DEF NtHandleLock
  <2>2. CASE ~Head(ntLocks)
    BY <1>1, <1>4, <2>2 DEF NtHandleLock
  <2> QED BY <2>1, <2>2
<1>5. CASE NtStatusAction /\ ~NtResume /\ ~NtHandleLock
  <2>1. UNCHANGED <<ntStreamVars, ntConsent, ntTrackVars>>
    BY <1>5 DEF NtStatusAction, NtEnableGnss, NtDisableGnss, NtLockEvent, NtUpdateConnections,
                NtRegisterForStatus, NtDaemonEnds, NtDaemonStarts, NtAsk, NtHandleRequest
  <2> QED BY <1>1, <2>1
<1> QED BY <1>3, <1>4, <1>5

NtInv == NtTypeOK /\ NtDaemonInv /\ NtStreamInv

LEMMA NtInvInit == NtInit => NtInv
  BY NtTypeInit, NtDaemonInit, NtStreamInit DEF NtInv

LEMMA NtInvStep == NtInv /\ [NtNext]_ntVars => NtInv'
<1> SUFFICES ASSUME NtInv, [NtNext]_ntVars PROVE NtInv'
  OBVIOUS
<1>0. NtTypeOK /\ NtDaemonInv /\ NtStreamInv
  BY DEF NtInv
<1>1. NtTypeOK'
  BY <1>0, NtTypeStep
<1>2. CASE NtStreamAction
  BY <1>0, <1>1, <1>2, NtStreamSaves, NtDaemonStreamStep, NtStreamStep DEF NtInv
<1>3. CASE NtStatusAction
  BY <1>0, <1>1, <1>3, NtDaemonStatusStep, NtStreamOtherStep DEF NtInv
<1>4. CASE UNCHANGED ntVars
  <2>1. NtDaemonInv'
    BY <1>0, <1>4 DEF NtDaemonInv, NtAskedAreTold, NtIsTold, NtAskWaits, NtLockFollows, ntVars,
                      ntStreamVars, ntLockVars, ntStatusVars
  <2>2. NtStreamInv'
    BY <1>0, <1>4 DEF NtStreamInv, NtSavedIsStarted, NtWaitsIfRequired, WantedStreamComes,
                      NtRequired, NtInSession, ntVars, ntStreamVars, ntTrackVars
  <2> QED BY <1>1, <2>1, <2>2 DEF NtInv
<1> QED BY <1>2, <1>3, <1>4, NtActions

LEMMA NtInvFollows == NtInv => DaemonsFollow /\ WantedStreamComes
<1> SUFFICES ASSUME NtInv PROVE DaemonsFollow /\ WantedStreamComes
  OBVIOUS
<1>1. \A d \in NtDaemons : NtServed(d) => NtIsTold(d)
  <2> SUFFICES ASSUME NEW d \in NtDaemons, NtServed(d) PROVE NtIsTold(d)
    OBVIOUS
  <2>1. ASSUME NEW i \in DOMAIN ntAsks, ntAsks[i] = <<d, FALSE>> PROVE FALSE
    BY <2>1 DEF NtServed
  <2> QED BY <2>1 DEF NtInv, NtDaemonInv, NtAskedAreTold, NtServed, NtAskWaits
<1>2. XtraKnowsTheStatus
  BY <1>1, NtDaemonMembers DEF XtraKnowsTheStatus, NtIsTold, NtInv, NtDaemonInv, NtLockFollows
<1>3. StreamIsTheStarted
  BY <1>1, NtDaemonMembers
     DEF StreamIsTheStarted, NtIsTold, NtInv, NtStreamInv, NtSavedIsStarted
<1> QED BY <1>2, <1>3 DEF DaemonsFollow, NtInv, NtStreamInv

-----------------------------------------------------------------------------
(* Reports: types *)

LEMMA SequenceOfFunction ==
  ASSUME NEW S, NEW n \in Nat, NEW f \in [1..n -> S]
  PROVE  f \in Seq(S) /\ Len(f) = n /\ DOMAIN f = 1..n
  OBVIOUS

GrStates == GrStatus \cup {"distance", "none"}

LEMMA GrRecords ==
  /\ \A r \in GrFixRecord : /\ r.fix \in GrFix /\ r.hears \subseteq GrClient
                            /\ r.switched \in BOOLEAN /\ r.thrown \in BOOLEAN /\ r.sv \in BOOLEAN
  /\ \A r \in GrFixRecord, c \in GrClient :
       /\ [r EXCEPT !.hears = r.hears \ {c}] \in GrFixRecord
       /\ [r EXCEPT !.sv = TRUE] \in GrFixRecord
       /\ [r EXCEPT !.thrown = TRUE] \in GrFixRecord
  /\ \A r \in GrFixRecord, b \in BOOLEAN :
       [r EXCEPT !.switched = b, !.hears = {}] \in GrFixRecord
  /\ \A r \in GrFixRecord : /\ [r EXCEPT !.sv = TRUE] \in GrFixRecord
                            /\ [r EXCEPT !.thrown = TRUE] \in GrFixRecord
  BY DEF GrFixRecord

LEMMA GrMessages ==
  /\ \A n \in GrNumber : /\ [do |-> "spe", fix |-> n] \in GrMessage
                         /\ [do |-> "engine", fix |-> n] \in GrMessage
                         /\ [do |-> "sv", fix |-> n] \in GrMessage
  /\ \A on \in BOOLEAN : [do |-> "feature", on |-> on] \in GrMessage
  /\ \A m \in GrMessage : /\ m.do \in {"spe", "engine", "sv"} => m.fix \in GrNumber
                          /\ m.do = "feature" => m.on \in BOOLEAN
                          /\ m.do \in {"spe", "engine", "sv", "feature"}
  BY DEF GrMessage

(* What changes of the positions: one more, or marks on those there are *)
GrFixesGo ==
  /\ grFixes' \in Seq(GrFixRecord)
  /\ Len(grFixes') \in {Len(grFixes), Len(grFixes) + 1} /\ Len(grFixes') <= MaxGrFixes
  /\ \A n \in DOMAIN grFixes :
       /\ grFixes'[n].fix = grFixes[n].fix
       /\ grFixes'[n].hears \subseteq grFixes[n].hears
       /\ grFixes[n].thrown => grFixes'[n].thrown
       /\ grFixes[n].switched => grFixes'[n].switched

LEMMA GrFixFacts ==
  ASSUME GrTypeOK
  PROVE  /\ Len(grFixes) \in 0..MaxGrFixes /\ DOMAIN grFixes = 1..Len(grFixes)
         /\ DOMAIN grFixes \subseteq GrNumber
         /\ \A n \in DOMAIN grFixes : grFixes[n] \in GrFixRecord
         /\ MaxGrFixes \in Nat
  BY GrAssumption DEF GrTypeOK, GrNumber

LEMMA GrFixesStay == GrTypeOK /\ UNCHANGED grFixes => GrFixesGo
  BY DEF GrTypeOK, GrFixesGo

LEMMA GrChangesGo ==
  ASSUME GrTypeOK, NEW c \in GrClient, GrChanges(c)
  PROVE  /\ GrFixesGo /\ Len(grFixes') = Len(grFixes)
         /\ \A n \in DOMAIN grFixes :
              /\ grFixes'[n].hears = grFixes[n].hears \ {c}
              /\ grFixes'[n].switched = grFixes[n].switched
              /\ grFixes'[n].thrown = grFixes[n].thrown
<1>0. /\ Len(grFixes) \in 0..MaxGrFixes /\ DOMAIN grFixes = 1..Len(grFixes)
      /\ \A n \in DOMAIN grFixes : grFixes[n] \in GrFixRecord
  BY GrFixFacts
<1>2. grFixes' \in [1..Len(grFixes) -> GrFixRecord]
  BY <1>0, GrRecords DEF GrChanges
<1> QED BY <1>0, <1>2, SequenceOfFunction, GrAssumption DEF GrFixesGo, GrFixRecord, GrChanges

(* One position is marked: its satellites were reported, or it was thrown  *)
(* away                                                                    *)
LEMMA GrMarkGoes ==
  ASSUME GrTypeOK, NEW n \in DOMAIN grFixes,
         \/ grFixes' = [grFixes EXCEPT ![n].sv = TRUE]
         \/ grFixes' = [grFixes EXCEPT ![n].thrown = TRUE]
  PROVE  /\ GrFixesGo /\ Len(grFixes') = Len(grFixes)
         /\ \A k \in DOMAIN grFixes : /\ grFixes'[k].hears = grFixes[k].hears
                                      /\ grFixes'[k].switched = grFixes[k].switched
<1>0. /\ Len(grFixes) \in 0..MaxGrFixes /\ DOMAIN grFixes = 1..Len(grFixes)
      /\ \A k \in DOMAIN grFixes : grFixes[k] \in GrFixRecord
  BY GrFixFacts
<1>1. PICK r \in {[grFixes[n] EXCEPT !.sv = TRUE], [grFixes[n] EXCEPT !.thrown = TRUE]} :
        grFixes' = [grFixes EXCEPT ![n] = r]
  BY DEF GrTypeOK
<1>2. /\ r \in GrFixRecord /\ r.hears = grFixes[n].hears /\ r.switched = grFixes[n].switched
      /\ r.fix = grFixes[n].fix /\ (grFixes[n].thrown => r.thrown)
  <2>1. grFixes[n] \in GrFixRecord
    BY <1>0
  <2>2. ASSUME NEW q \in GrFixRecord
        PROVE  /\ [q EXCEPT !.sv = TRUE].hears = q.hears
               /\ [q EXCEPT !.sv = TRUE].switched = q.switched
               /\ [q EXCEPT !.sv = TRUE].fix = q.fix
               /\ [q EXCEPT !.sv = TRUE].thrown = q.thrown
               /\ [q EXCEPT !.thrown = TRUE].hears = q.hears
               /\ [q EXCEPT !.thrown = TRUE].switched = q.switched
               /\ [q EXCEPT !.thrown = TRUE].fix = q.fix
               /\ [q EXCEPT !.thrown = TRUE].thrown
    BY DEF GrFixRecord
  <2>3. CASE r = [grFixes[n] EXCEPT !.sv = TRUE]
    BY <2>1, <2>2, <2>3, GrRecords
  <2>4. CASE r = [grFixes[n] EXCEPT !.thrown = TRUE]
    BY <2>1, <2>2, <2>4, GrRecords
  <2> QED BY <1>1, <2>3, <2>4
<1> QED BY <1>0, <1>1, <1>2 DEF GrFixesGo, GrTypeOK

GrSwitches ==
  grFixes' = [n \in DOMAIN grFixes |->
                [grFixes[n] EXCEPT !.switched = @ \/ GrIsUnderWay(n), !.hears = {}]]

LEMMA GrFeatureGoes ==
  ASSUME GrTypeOK, GrSwitches
  PROVE  /\ GrFixesGo /\ Len(grFixes') = Len(grFixes)
         /\ \A n \in DOMAIN grFixes :
              /\ grFixes'[n].hears = {}
              /\ grFixes[n].switched \/ GrIsUnderWay(n) => grFixes'[n].switched
<1>0. /\ Len(grFixes) \in 0..MaxGrFixes /\ DOMAIN grFixes = 1..Len(grFixes)
      /\ \A n \in DOMAIN grFixes : grFixes[n] \in GrFixRecord
  BY GrFixFacts
<1> DEFINE b(n) == grFixes[n].switched \/ GrIsUnderWay(n)
<1>1. ASSUME NEW n \in DOMAIN grFixes
      PROVE  /\ grFixes'[n] \in GrFixRecord
             /\ grFixes'[n].hears = {} /\ grFixes'[n].fix = grFixes[n].fix
             /\ grFixes'[n].switched = b(n)
             /\ grFixes'[n].thrown = grFixes[n].thrown
  <2>1. grFixes'[n] = [grFixes[n] EXCEPT !.switched = b(n), !.hears = {}]
    BY DEF GrSwitches
  <2>2. b(n) \in BOOLEAN
    OBVIOUS
  <2> HIDE DEF b
  <2>4. ASSUME NEW q \in GrFixRecord, NEW x \in BOOLEAN
        PROVE  /\ [q EXCEPT !.switched = x, !.hears = {}] \in GrFixRecord
               /\ [q EXCEPT !.switched = x, !.hears = {}].hears = {}
               /\ [q EXCEPT !.switched = x, !.hears = {}].fix = q.fix
               /\ [q EXCEPT !.switched = x, !.hears = {}].switched = x
               /\ [q EXCEPT !.switched = x, !.hears = {}].thrown = q.thrown
    BY DEF GrFixRecord
  <2> DEFINE q == grFixes[n]
             r == [q EXCEPT !.switched = b(n), !.hears = {}]
  <2>5. /\ r \in GrFixRecord
        /\ r.hears = {} /\ r.fix = q.fix /\ r.switched = b(n) /\ r.thrown = q.thrown
    <3>1. q \in GrFixRecord
      BY <1>0
    <3> HIDE DEF q
    <3> QED BY <2>2, <2>4, <3>1, Zenon
  <2>6. grFixes'[n] = r
    BY <2>1
  <2> HIDE DEF r
  <2> QED BY <2>5, <2>6
<1>2. grFixes' \in [1..Len(grFixes) -> GrFixRecord]
  <2> DEFINE f == [n \in DOMAIN grFixes |->
                     [grFixes[n] EXCEPT !.switched = b(n), !.hears = {}]]
  <2> HIDE DEF f
  <2> QED BY <1>0, <1>1 DEF GrSwitches
<1>3. grFixes' \in Seq(GrFixRecord) /\ Len(grFixes') = Len(grFixes)
  BY <1>0, <1>2, SequenceOfFunction, GrAssumption
<1>4. \A n \in DOMAIN grFixes : grFixes[n].switched \/ GrIsUnderWay(n) => grFixes'[n].switched
  BY <1>1
<1> HIDE DEF b
<1> QED BY <1>0, <1>1, <1>3, <1>4 DEF GrFixesGo

GrNewRecord(fix) ==
  [fix |-> fix, switched |-> FALSE, thrown |-> FALSE, sv |-> FALSE,
   hears |-> {c \in GrClient : IF grSessions[c] = "distance" THEN fix.status # "failure"
                               ELSE GrLevelAccepts(c, fix.status)}]

LEMMA GrReportGoes ==
  ASSUME GrTypeOK, NEW fix \in GrFix, GrReportPosition(fix)
  PROVE  /\ GrFixesGo /\ Len(grFixes') = Len(grFixes) + 1
         /\ \A n \in DOMAIN grFixes : grFixes'[n] = grFixes[n]
         /\ grFixes'[Len(grFixes')] = GrNewRecord(fix)
         /\ Len(grFixes') \in GrNumber
<1>0. /\ Len(grFixes) \in 0..MaxGrFixes /\ DOMAIN grFixes = 1..Len(grFixes)
      /\ MaxGrFixes \in Nat /\ Len(grFixes) < MaxGrFixes
  BY GrFixFacts DEF GrReportPosition
<1>1. GrNewRecord(fix) \in GrFixRecord
  BY DEF GrNewRecord, GrFixRecord
<1> QED BY <1>0, <1>1 DEF GrTypeOK, GrFixesGo, GrNumber, GrReportPosition, GrNewRecord

(* Whatever is named was reported *)
GrNamesKnown ==
  /\ \A i \in DOMAIN grInbox : grInbox[i].do # "feature" => grInbox[i].fix \in DOMAIN grFixes
  /\ grLater \subseteq DOMAIN grFixes /\ grHub \subseteq DOMAIN grFixes
  /\ \A s \in grTold : s[2] \in DOMAIN grFixes
  /\ \A s \in grFlagged : s[1] \in DOMAIN grFixes

(* What each of the two reports tells, and of which position *)
GrSpeWhat == {"spe", "nmea spe"}

(* The engines whose sentences are made, and the sentences *)
GrEngines(eng) == (IF grPrecise THEN {eng} ELSE {"fused", "spe"}) \cap grConf.sentences
GrSentencesOf(e) == IF e = "fused" THEN "nmea fused" ELSE "nmea spe"

LEMMA GrSentencesFact ==
  ASSUME NEW n, NEW eng, NEW s
  PROVE  s \in GrSentences(n, eng) <=>
           /\ GrMakesSentences(n)
           /\ \E c \in GrHas("nmea") : \E e \in GrEngines(eng) : s = <<c, n, GrSentencesOf(e)>>
<1>1. CASE GrMakesSentences(n)
  <2> HIDE DEF GrEngines, GrSentencesOf
  <2> QED BY <1>1 DEF GrSentences, GrEngines, GrSentencesOf
<1>2. CASE ~GrMakesSentences(n)
  BY <1>2 DEF GrSentences
<1> QED BY <1>1, <1>2

LEMMA GrSpeTells ==
  ASSUME GrTypeOK, NEW n \in DOMAIN grFixes,
         NEW s \in GrSpePositions(n) \cup GrSentences(n, "spe")
  PROVE  /\ s \in GrClient \X GrNumber \X GrWhat /\ s[2] = n
         /\ grPrecise => s[3] \in GrSpeWhat
<1>0. n \in GrNumber
  BY GrFixFacts
<1>1. CASE s \in GrPosition(n) /\ ~grPrecise
  <2>0. PICK c \in GrClient : \E what \in GrHears(c) : s = <<c, n, what>>
    BY <1>1 DEF GrPosition
  <2>1. PICK what \in GrHears(c) : s = <<c, n, what>>
    BY <2>0
  <2> QED BY <1>0, <1>1, <2>1 DEF GrHears, GrWhat
<1>2. CASE s \in GrEnginePosition(n, "spe")
  <2>1. PICK c \in GrClient : s = <<c, n, "spe">>
    BY <1>2 DEF GrEnginePosition, GrHas
  <2> QED BY <1>0, <2>1 DEF GrWhat, GrSpeWhat
<1>3. CASE s \in GrSentences(n, "spe")
  <2>1. PICK c \in GrClient : \E e \in GrEngines("spe") : s = <<c, n, GrSentencesOf(e)>>
    BY <1>3, GrSentencesFact DEF GrHas
  <2>2. PICK e \in GrEngines("spe") : s = <<c, n, GrSentencesOf(e)>>
    BY <2>1
  <2> QED BY <1>0, <2>2 DEF GrEngines, GrSentencesOf, GrWhat, GrSpeWhat
<1> QED BY <1>1, <1>2, <1>3 DEF GrSpePositions

GrHubPositions(n) == GrPosition(n) \cup GrEnginePosition(n, "fused")

LEMMA GrHubTells ==
  ASSUME GrTypeOK, grPrecise, NEW n \in DOMAIN grFixes,
         NEW s \in GrHubPositions(n) \cup GrSentences(n, "fused")
  PROVE  /\ s \in GrClient \X GrNumber \X GrWhat /\ s[2] = n
         /\ s[3] \notin GrSpeWhat
<1>0. n \in GrNumber
  BY GrFixFacts
<1>1. CASE s \in GrPosition(n)
  <2>0. PICK c \in GrClient : \E what \in GrHears(c) : s = <<c, n, what>>
    BY <1>1 DEF GrPosition
  <2>1. PICK what \in GrHears(c) : s = <<c, n, what>>
    BY <2>0
  <2> QED BY <1>0, <1>1, <2>1 DEF GrHears, GrWhat, GrSpeWhat
<1>2. CASE s \in GrEnginePosition(n, "fused")
  <2>1. PICK c \in GrClient : s = <<c, n, "fused">>
    BY <1>2 DEF GrEnginePosition, GrHas
  <2> QED BY <1>0, <2>1 DEF GrWhat, GrSpeWhat
<1>3. CASE s \in GrSentences(n, "fused")
  <2>1. PICK c \in GrClient : \E e \in GrEngines("fused") : s = <<c, n, GrSentencesOf(e)>>
    BY <1>3, GrSentencesFact DEF GrHas
  <2>2. PICK e \in GrEngines("fused") : s = <<c, n, GrSentencesOf(e)>>
    BY <2>1
  <2> QED BY <1>0, <2>2 DEF GrEngines, GrSentencesOf, GrWhat, GrSpeWhat
<1> QED BY <1>1, <1>2, <1>3 DEF GrHubPositions

GrTyped == GrTypeOK /\ GrNamesKnown

(* The types in parts: what each kind of step changes *)
GrMaskTypes ==
  /\ grOpening \in BOOLEAN /\ grNeedsNHz \in BOOLEAN
  /\ grMask \subseteq GrBits /\ grModem \subseteq GrBits /\ grLost \subseteq GrBits
  /\ grHubCall \in {<<>>} \cup ((SUBSET GrBits) \X BOOLEAN \X BOOLEAN)

GrClientTypes ==
  /\ grConf \in GrConf
  /\ grClients \in [GrClient -> SUBSET GrCallback]
  /\ grSessions \in [GrClient -> GrStates]
  /\ grPrecise \in BOOLEAN
  /\ grUsed \in 0..MaxGrFixes /\ grLastNmea \in 0..MaxGrFixes
  /\ grEvents \in 0..MaxGrEvents

GrReportTypes ==
  /\ grInbox \in Seq(GrMessage)
  /\ grLater \subseteq GrNumber /\ grHub \subseteq GrNumber

GrHeardTypes ==
  /\ grTold \subseteq GrClient \X GrNumber \X GrWhat
  /\ grTwice \subseteq GrClient \X GrNumber \X GrWhat
  /\ grFlagged \subseteq GrNumber \X (0..MaxGrFixes)

LEMMA GrTypesOfParts ==
  GrTypeOK <=> /\ GrMaskTypes /\ GrClientTypes /\ GrReportTypes /\ GrHeardTypes
               /\ grFixes \in Seq(GrFixRecord) /\ Len(grFixes) <= MaxGrFixes
<1>1. grTold \cup grTwice \subseteq GrClient \X GrNumber \X GrWhat <=>
        /\ grTold \subseteq GrClient \X GrNumber \X GrWhat
        /\ grTwice \subseteq GrClient \X GrNumber \X GrWhat
  BY Zenon
<1> QED BY <1>1, Zenon DEF GrTypeOK, GrMaskTypes, GrClientTypes, GrReportTypes, GrHeardTypes, GrStates

LEMMA GrTypesOfPartsNext ==
  GrTypeOK' <=> /\ GrMaskTypes' /\ GrClientTypes' /\ GrReportTypes' /\ GrHeardTypes'
                /\ grFixes' \in Seq(GrFixRecord) /\ Len(grFixes') <= MaxGrFixes
<1>1. (grTold \cup grTwice)' \subseteq GrClient \X GrNumber \X GrWhat <=>
        /\ grTold' \subseteq GrClient \X GrNumber \X GrWhat
        /\ grTwice' \subseteq GrClient \X GrNumber \X GrWhat
  BY Zenon
<1> QED BY <1>1, Zenon DEF GrTypeOK, GrMaskTypes, GrClientTypes, GrReportTypes, GrHeardTypes, GrStates

LEMMA GrSetMaskTypes ==
  ASSUME GrTypeOK, NEW asked \in [GrClient -> SUBSET GrCallback], NEW precise,
         GrSetMask(asked, precise)
  PROVE  GrMaskTypes'
<1>1. GrEventMask(asked, precise) \subseteq GrBits
  BY DEF GrEventMask, GrBitsOfAll, GrBitsOf, GrBits
<1> QED BY <1>1 DEF GrSetMask, GrMaskTypes, GrTypeOK, GrBits

LEMMA GrEventTypes ==
  ASSUME GrTypeOK, GrEvent PROVE grEvents' \in 0..MaxGrEvents
  BY GrAssumption DEF GrTypeOK, GrEvent

(* A message is sent, or taken *)
LEMMA GrSendTypes ==
  ASSUME GrTyped, NEW m \in GrMessage, GrSend(m), GrFixesGo,
         m.do # "feature" => m.fix \in DOMAIN grFixes'
  PROVE  /\ grInbox' \in Seq(GrMessage)
         /\ \A i \in DOMAIN grInbox' :
              grInbox'[i].do # "feature" => grInbox'[i].fix \in DOMAIN grFixes'
  BY DEF GrTyped, GrTypeOK, GrSend, GrFixesGo, GrNamesKnown

LEMMA GrReceiveTypes ==
  ASSUME GrTyped, NEW do, GrReceive(do), GrFixesGo
  PROVE  /\ grInbox' \in Seq(GrMessage)
         /\ \A i \in DOMAIN grInbox' :
              grInbox'[i].do # "feature" => grInbox'[i].fix \in DOMAIN grFixes'
         /\ Head(grInbox) \in GrMessage /\ Head(grInbox).do = do
         /\ do # "feature" => Head(grInbox).fix \in DOMAIN grFixes
  BY DEF GrTyped, GrTypeOK, GrReceive, GrFixesGo, GrNamesKnown

LEMMA GrTellTypes ==
  ASSUME GrTyped, NEW n \in DOMAIN grFixes, NEW told, GrTell(told), GrFixesGo,
         \A s \in told : s \in GrClient \X GrNumber \X GrWhat /\ s[2] = n
  PROVE  /\ grTold' \subseteq GrClient \X GrNumber \X GrWhat
         /\ grTwice' \subseteq GrClient \X GrNumber \X GrWhat
         /\ \A s \in grTold' : s[2] \in DOMAIN grFixes'
<1>1. GrHeardTypes /\ DOMAIN grFixes \subseteq DOMAIN grFixes'
  BY GrTypesOfParts DEF GrTyped, GrFixesGo, GrTypeOK
<1> QED BY <1>1 DEF GrTell, GrHeardTypes, GrTyped, GrNamesKnown

LEMMA GrStampTypes ==
  ASSUME GrTypeOK, NEW n \in DOMAIN grFixes, GrStamp(n)
  PROVE  grLastNmea' \in 0..MaxGrFixes
  BY GrFixFacts DEF GrStamp, GrTypeOK

LEMMA GrTypedInit == GrInit => GrTyped
<1> SUFFICES ASSUME GrInit PROVE GrTyped
  OBVIOUS
<1>1. grClients \in [GrClient -> SUBSET GrCallback]
  BY GrAssumption DEF GrInit
<1>3. GrMaskTypes
  <2>1. grMask \subseteq GrBits
    BY <1>1 DEF GrInit, GrBitsOfAll, GrBitsOf, GrBits
  <2> QED BY <2>1 DEF GrInit, GrMaskTypes
<1>4. GrClientTypes
  BY <1>1, GrAssumption DEF GrInit, GrClientTypes, GrStates
<1> QED BY <1>3, <1>4, GrTypesOfParts, SequencesOf, GrAssumption DEF GrTyped, GrInit,
  GrReportTypes, GrHeardTypes, GrNamesKnown

GrClientAction ==
  \E c \in GrClient :
    \/ \E callbacks \in GrCallbacks[c] : GrAddClient(c, callbacks)
    \/ \E quality \in GrQuality[c] : GrStartTracking(c, quality)
    \/ GrRemoveClient(c)
    \/ GrStopTracking(c)

GrHubAction ==
  \/ GrOpen
  \/ \E wanted \in BOOLEAN : GrNHzRead(wanted)
  \/ GrNHzWrite

LEMMA GrActions ==
  GrNext <=> \/ GrClientAction
             \/ \E fix \in GrFix : GrReportPosition(fix)
             \/ \E n \in GrNumber : GrTimeComes(n)
             \/ \E n \in GrNumber : GrHubReports(n)
             \/ GrReportSv \/ GrFeatureChanges \/ GrHubAction
             \/ GrHandleSpe \/ GrHandleEngine \/ GrHandleSv \/ GrHandleFeature
  BY DEF GrNext, GrClientAction, GrHubAction

LEMMA GrClientTyped ==
  ASSUME GrTyped, GrClientAction
  PROVE  GrTyped' /\ GrFixesGo
<1>0. GrTypeOK /\ GrMaskTypes /\ GrClientTypes /\ GrReportTypes /\ GrHeardTypes
  BY GrTypesOfParts DEF GrTyped
<1> DEFINE Clients == grClients' \in [GrClient -> SUBSET GrCallback]
           Sessions == grSessions' \in [GrClient -> GrStates]
           P == /\ Clients /\ Sessions /\ GrEvent /\ GrMaskTypes' /\ GrFixesGo
                /\ grLastNmea' \in 0..MaxGrFixes
                /\ UNCHANGED <<grConf, grPrecise, grUsed, grReports, grHeard>>
<1>1. ASSUME NEW c \in GrClient, NEW callbacks \in GrCallbacks[c], GrAddClient(c, callbacks)
      PROVE  P
  BY <1>0, <1>1, GrAssumption, GrSetMaskTypes, GrFixesStay DEF GrAddClient, GrClientTypes,
    grKept
<1>2. ASSUME NEW c \in GrClient, NEW quality \in GrQuality[c], GrStartTracking(c, quality)
      PROVE  P
  <2>2. Sessions
    BY <1>0, <1>2, GrAssumption DEF GrStartTracking, GrClientTypes, GrStates
  <2> QED BY <1>0, <1>2, <2>2, GrAssumption, GrChangesGo DEF GrStartTracking, GrClientTypes,
    GrMaskTypes, grMasks
<1>3. ASSUME NEW c \in GrClient, GrRemoveClient(c)
      PROVE  P
  BY <1>0, <1>3, GrSetMaskTypes, GrChangesGo DEF GrRemoveClient, GrClientTypes, GrStates, grKept
<1>4. ASSUME NEW c \in GrClient, GrStopTracking(c)
      PROVE  P
  <2>3. GrMaskTypes'
    BY <1>0, <1>4 DEF GrStopTracking, GrMaskTypes, grMasks
  <2> QED BY <1>0, <1>4, <2>3, GrChangesGo DEF GrStopTracking, GrClientTypes, grKept, GrStates
<1>5. P
  BY <1>1, <1>2, <1>3, <1>4 DEF GrClientAction
<1>6. GrClientTypes'
  BY <1>0, <1>5, GrEventTypes DEF GrClientTypes
<1>7. GrReportTypes' /\ GrHeardTypes' /\ UNCHANGED <<grInbox, grLater, grHub, grTold, grTwice, grFlagged>>
  BY <1>0, <1>5 DEF GrReportTypes, GrHeardTypes, grReports, grHeard
<1>8. GrNamesKnown'
  BY <1>0, <1>5, <1>7 DEF GrFixesGo, GrTypeOK, GrNamesKnown, GrTyped
<1> HIDE DEF Clients, Sessions
<1> QED BY <1>5, <1>6, <1>7, <1>8, GrTypesOfPartsNext DEF GrTyped, GrFixesGo

LEMMA GrHubTyped ==
  ASSUME GrTyped, GrHubAction
  PROVE  GrTyped' /\ GrFixesGo
<1>0. GrTypeOK /\ GrMaskTypes /\ GrClientTypes /\ GrReportTypes /\ GrHeardTypes
  BY GrTypesOfParts DEF GrTyped
<1> DEFINE P == /\ GrMaskTypes' /\ (GrEvent \/ UNCHANGED grEvents)
                /\ UNCHANGED <<grConf, grClients, grSessions, grPrecise, grKept, grReports,
                               grFixes, grHeard>>
<1>1. ASSUME GrOpen PROVE P
  BY <1>0, <1>1 DEF GrOpen, GrMaskTypes
<1>2. ASSUME NEW wanted \in BOOLEAN, GrNHzRead(wanted) PROVE P
  BY <1>0, <1>2 DEF GrNHzRead, GrMaskTypes, GrBits
<1>3. ASSUME GrNHzWrite PROVE P
  BY <1>0, <1>3 DEF GrNHzWrite, GrMaskTypes, GrBits
<1>4. P
  BY <1>1, <1>2, <1>3 DEF GrHubAction
<1>5. GrClientTypes' /\ GrReportTypes' /\ GrHeardTypes'
  BY <1>0, <1>4, GrEventTypes
     DEF GrClientTypes, GrReportTypes, GrHeardTypes, grKept, grReports, grHeard
<1> QED BY <1>0, <1>4, <1>5, GrTypesOfPartsNext, GrFixesStay DEF GrTyped, GrTypeOK,
  GrNamesKnown, grReports, grHeard

GrModemAction ==
  \/ \E fix \in GrFix : GrReportPosition(fix)
  \/ \E n \in GrNumber : GrTimeComes(n)
  \/ \E n \in GrNumber : GrHubReports(n)
  \/ GrReportSv \/ GrFeatureChanges

LEMMA GrModemTyped ==
  ASSUME GrTyped, GrModemAction
  PROVE  GrTyped' /\ GrFixesGo
<1>0. GrTypeOK /\ GrMaskTypes /\ GrClientTypes /\ GrReportTypes /\ GrHeardTypes
  BY GrTypesOfParts DEF GrTyped
<1>k. /\ DOMAIN grFixes \subseteq GrNumber /\ DOMAIN grFixes = 1..Len(grFixes)
      /\ GrNamesKnown
  BY <1>0, GrFixFacts DEF GrTyped
<1> DEFINE Inbox == /\ grInbox' \in Seq(GrMessage)
                    /\ \A i \in DOMAIN grInbox' :
                         grInbox'[i].do # "feature" => grInbox'[i].fix \in DOMAIN grFixes'
           P == /\ GrFixesGo /\ Inbox /\ (GrEvent \/ UNCHANGED grEvents)
                /\ grLater' \subseteq DOMAIN grFixes' /\ grHub' \subseteq DOMAIN grFixes'
                /\ UNCHANGED <<grMasks, grConf, grClients, grSessions, grPrecise, grKept, grHeard>>
<1>i. GrFixesGo /\ UNCHANGED grInbox => Inbox
  <2> SUFFICES ASSUME GrFixesGo, UNCHANGED grInbox PROVE Inbox
    OBVIOUS
  <2> QED BY <1>k, <1>0 DEF GrReportTypes, GrNamesKnown, GrFixesGo, GrTypeOK
<1>1. ASSUME NEW fix \in GrFix, GrReportPosition(fix) PROVE P
  <2> DEFINE n == Len(grFixes) + 1
  <2>1. GrFixesGo /\ n \in GrNumber /\ DOMAIN grFixes' = DOMAIN grFixes \cup {n}
    <3>1. GrFixesGo /\ Len(grFixes') = n /\ Len(grFixes') \in GrNumber
      BY <1>0, <1>1, GrReportGoes
    <3> QED BY <1>k, <1>0, <3>1 DEF GrFixesGo, GrTypeOK
  <2>2. Inbox
    <3>1. CASE fix.late
      BY <1>i, <1>1, <2>1, <3>1 DEF GrReportPosition
    <3>2. CASE ~fix.late
      <4>1. GrSend([do |-> "spe", fix |-> n])
        BY <1>1, <3>2 DEF GrReportPosition, GrSpe
      <4> HIDE DEF n
      <4> QED BY <2>1, <4>1, GrSendTypes, GrMessages
    <3> QED BY <3>1, <3>2
  <2> HIDE DEF Inbox
  <2> QED BY <1>k, <1>1, <2>1, <2>2 DEF GrNamesKnown, GrReportPosition
<1>2. ASSUME NEW n \in GrNumber, GrTimeComes(n) PROVE P
  <2>1. GrFixesGo /\ UNCHANGED grFixes
    BY <1>0, <1>2, GrFixesStay DEF GrTimeComes
  <2>3. Inbox
    BY <1>k, <1>2, <2>1, GrSendTypes, GrMessages DEF GrTimeComes, GrSpe, GrNamesKnown
  <2> HIDE DEF Inbox
  <2> QED BY <1>k, <1>2, <2>1, <2>3 DEF GrTimeComes, GrNamesKnown
<1>3. ASSUME NEW n \in GrNumber, GrHubReports(n) PROVE P
  <2>1. GrFixesGo /\ UNCHANGED grFixes
    BY <1>0, <1>3, GrFixesStay DEF GrHubReports
  <2>3. Inbox
    BY <1>i, <1>k, <1>3, <2>1, GrSendTypes, GrMessages DEF GrHubReports, GrNamesKnown
  <2> HIDE DEF Inbox
  <2> QED BY <1>k, <1>3, <2>1, <2>3 DEF GrHubReports, GrNamesKnown
<1>4. ASSUME GrReportSv PROVE P
  <2> DEFINE n == Len(grFixes)
  <2>1. n \in DOMAIN grFixes
    BY <1>0, <1>4 DEF GrReportSv, GrTypeOK
  <2>2. grFixes' = [grFixes EXCEPT ![n].sv = TRUE] /\ GrSend([do |-> "sv", fix |-> n])
    BY <1>4 DEF GrReportSv
  <2> HIDE DEF n
  <2>4. GrFixesGo /\ Len(grFixes') = Len(grFixes)
    BY <1>0, <2>1, <2>2, GrMarkGoes
  <2>5. DOMAIN grFixes' = DOMAIN grFixes
    BY <1>0, <2>4 DEF GrFixesGo, GrTypeOK
  <2>6. [do |-> "sv", fix |-> n] \in GrMessage
    BY <1>k, <2>1, GrMessages
  <2>7. Inbox
    BY <2>1, <2>2, <2>4, <2>5, <2>6, GrSendTypes
  <2> HIDE DEF Inbox
  <2> QED BY <1>k, <1>4, <2>4, <2>5, <2>7 DEF GrNamesKnown, GrReportSv
<1>5. ASSUME GrFeatureChanges PROVE P
  <2>1. GrFixesGo /\ UNCHANGED grFixes
    BY <1>0, <1>5, GrFixesStay DEF GrFeatureChanges
  <2>2. (~grPrecise) \in BOOLEAN
    BY Zenon
  <2>4. Inbox
    BY <1>5, <2>1, <2>2, GrSendTypes, GrMessages DEF GrFeatureChanges
  <2> HIDE DEF Inbox
  <2> QED BY <1>k, <1>5, <2>1, <2>4 DEF GrFeatureChanges, GrNamesKnown
<1>6. P
  BY <1>1, <1>2, <1>3, <1>4, <1>5 DEF GrModemAction
<1>7. GrMaskTypes' /\ GrClientTypes' /\ GrHeardTypes'
  BY <1>0, <1>6, GrEventTypes DEF GrMaskTypes, GrClientTypes, GrHeardTypes, grMasks, grKept, grHeard
<1>8. grFixes' \in Seq(GrFixRecord) /\ Len(grFixes') <= MaxGrFixes
      /\ DOMAIN grFixes \subseteq DOMAIN grFixes' /\ DOMAIN grFixes' \subseteq GrNumber
  BY <1>0, <1>6, GrAssumption DEF GrFixesGo, GrTypeOK, GrNumber
<1>9. GrReportTypes'
  BY <1>6, <1>8 DEF GrReportTypes
<1>10. GrNamesKnown'
  BY <1>k, <1>6, <1>8 DEF GrNamesKnown, grHeard
<1> HIDE DEF Inbox
<1> QED BY <1>6, <1>7, <1>8, <1>9, <1>10, GrTypesOfPartsNext DEF GrTyped

GrThreadAction == GrHandleSpe \/ GrHandleEngine \/ GrHandleSv \/ GrHandleFeature

LEMMA GrThreadTyped ==
  ASSUME GrTyped, GrThreadAction
  PROVE  GrTyped' /\ GrFixesGo
<1>0. GrTypeOK /\ GrMaskTypes /\ GrClientTypes /\ GrReportTypes /\ GrHeardTypes
  BY GrTypesOfParts DEF GrTyped
<1>k. /\ DOMAIN grFixes \subseteq GrNumber /\ DOMAIN grFixes = 1..Len(grFixes)
      /\ GrNamesKnown
  BY <1>0, GrFixFacts DEF GrTyped
<1> DEFINE P == /\ GrFixesGo /\ GrMaskTypes' /\ GrHeardTypes'
                /\ \E do : GrReceive(do)
                /\ grPrecise' \in BOOLEAN
                /\ grUsed' \in 0..MaxGrFixes /\ grLastNmea' \in 0..MaxGrFixes
                /\ \A s \in grTold' : s[2] \in DOMAIN grFixes'
                /\ \A s \in grFlagged' : s[1] \in DOMAIN grFixes'
                /\ UNCHANGED <<grConf, grClients, grSessions, grLater, grHub, grEvents>>
<1>d. GrFixesGo => DOMAIN grFixes \subseteq DOMAIN grFixes'
  BY <1>0 DEF GrFixesGo, GrTypeOK
<1>m. UNCHANGED grMasks => GrMaskTypes'
  BY <1>0 DEF GrMaskTypes, grMasks
<1>1. ASSUME GrHandleSpe PROVE P
  <2> DEFINE n == Head(grInbox).fix
  <2>1. GrReceive("spe") /\ "spe" # "feature"
        /\ UNCHANGED <<grMasks, grConf, grClients, grSessions, grPrecise, grLater, grHub, grEvents,
                       grFlagged>>
    BY <1>1 DEF GrHandleSpe
  <2>2. n \in DOMAIN grFixes
    BY <1>k, <1>0, <2>1 DEF GrReceive, GrReportTypes, GrNamesKnown
  <2>3. CASE GrInSession
    <3>1. /\ UNCHANGED grFixes /\ grUsed' = GrUsedBy(n) /\ GrStamp(n)
          /\ GrTell(GrSpePositions(n) \cup GrSentences(n, "spe"))
      BY <1>1, <2>3 DEF GrHandleSpe
    <3> HIDE DEF n
    <3>2. GrFixesGo
      BY <1>0, <3>1, GrFixesStay
    <3>3. grUsed' \in 0..MaxGrFixes
      BY <1>0, <2>2, <3>1, GrFixFacts DEF GrUsedBy
    <3>4. grLastNmea' \in 0..MaxGrFixes
      BY <1>0, <2>2, <3>1, GrStampTypes
    <3>5. /\ grTold' \subseteq GrClient \X GrNumber \X GrWhat
          /\ grTwice' \subseteq GrClient \X GrNumber \X GrWhat
          /\ \A s \in grTold' : s[2] \in DOMAIN grFixes'
      BY <1>0, <2>2, <3>1, <3>2, GrSpeTells, GrTellTypes
    <3>6. GrHeardTypes' /\ \A s \in grFlagged' : s[1] \in DOMAIN grFixes'
      BY <1>0, <1>k, <2>1, <3>1, <3>5 DEF GrHeardTypes, GrNamesKnown
    <3>7. grPrecise' \in BOOLEAN /\ \E do : GrReceive(do)
      BY <1>0, <2>1 DEF GrClientTypes
    <3> QED BY <1>m, <2>1, <3>2, <3>3, <3>4, <3>5, <3>6, <3>7
  <2>4. CASE ~GrInSession
    <3>1. grFixes' = [grFixes EXCEPT ![n].thrown = TRUE] /\ UNCHANGED <<grTold, grTwice, grKept>>
      BY <1>1, <2>4 DEF GrHandleSpe
    <3> HIDE DEF n
    <3>2. GrFixesGo
      BY <1>0, <2>2, <3>1, GrMarkGoes
    <3>3. GrHeardTypes' /\ \A s \in grFlagged' : s[1] \in DOMAIN grFixes'
      BY <1>0, <1>d, <1>k, <2>1, <3>1, <3>2 DEF GrHeardTypes, GrNamesKnown
    <3>4. \A s \in grTold' : s[2] \in DOMAIN grFixes'
      BY <1>d, <1>k, <3>1, <3>2 DEF GrNamesKnown
    <3>5. grPrecise' \in BOOLEAN /\ \E do : GrReceive(do)
      BY <1>0, <2>1 DEF GrClientTypes
    <3> QED BY <1>0, <1>m, <2>1, <3>1, <3>2, <3>3, <3>4, <3>5 DEF GrClientTypes, grKept
  <2> QED BY <2>3, <2>4
<1>2. ASSUME GrHandleEngine PROVE P
  <2> DEFINE n == Head(grInbox).fix
  <2>1. GrReceive("engine") /\ "engine" # "feature"
        /\ UNCHANGED <<grMasks, grConf, grClients, grSessions, grPrecise, grUsed, grLater, grHub,
                       grEvents, grFixes, grFlagged>>
    BY <1>2 DEF GrHandleEngine
  <2>2. n \in DOMAIN grFixes
    BY <1>k, <1>0, <2>1 DEF GrReceive, GrReportTypes, GrNamesKnown
  <2>3. GrFixesGo
    BY <1>0, <2>1, GrFixesStay
  <2>4. /\ grTold' \subseteq GrClient \X GrNumber \X GrWhat
        /\ grTwice' \subseteq GrClient \X GrNumber \X GrWhat
        /\ \A s \in grTold' : s[2] \in DOMAIN grFixes'
        /\ grLastNmea' \in 0..MaxGrFixes
    <3>1. CASE grPrecise
      <4>1. GrTell(GrHubPositions(n) \cup GrSentences(n, "fused")) /\ GrStamp(n)
        BY <1>2, <3>1 DEF GrHandleEngine, GrHubPositions
      <4> HIDE DEF n
      <4> QED BY <1>0, <2>2, <2>3, <3>1, <4>1, GrHubTells, GrTellTypes, GrStampTypes
    <3>2. CASE ~grPrecise
      BY <1>k, <1>0, <1>2, <2>1, <3>2 DEF GrHandleEngine, GrHeardTypes, GrNamesKnown,
        GrClientTypes
    <3> QED BY <3>1, <3>2
  <2> QED BY <1>m, <1>k, <1>0, <2>1, <2>3, <2>4 DEF GrClientTypes, GrHeardTypes, GrNamesKnown
<1>3. ASSUME GrHandleSv PROVE P
  <2> DEFINE n == Head(grInbox).fix
  <2>1. GrReceive("sv") /\ "sv" # "feature"
        /\ UNCHANGED <<grMasks, grConf, grClients, grSessions, grPrecise, grKept, grLater, grHub,
                       grEvents, grFixes, grTold, grTwice>>
    BY <1>3 DEF GrHandleSv
  <2>2. n \in DOMAIN grFixes
    BY <1>k, <1>0, <2>1 DEF GrReceive, GrReportTypes, GrNamesKnown
  <2>4. grFlagged' \subseteq grFlagged \cup {<<n, grUsed>>}
    BY <1>3 DEF GrHandleSv
  <2> HIDE DEF n
  <2>5. GrHeardTypes' /\ \A s \in grFlagged' : s[1] \in DOMAIN grFixes'
    BY <1>0, <1>k, <2>1, <2>2, <2>4 DEF GrHeardTypes, GrNamesKnown, GrClientTypes
  <2> QED BY <1>m, <1>k, <1>0, <2>1, <2>5, GrFixesStay DEF GrClientTypes, GrNamesKnown, grKept
<1>4. ASSUME GrHandleFeature PROVE P
  <2>1. /\ GrReceive("feature") /\ grPrecise' = Head(grInbox).on
        /\ GrSetMask(grClients, Head(grInbox).on) /\ GrSwitches
        /\ UNCHANGED <<grConf, grClients, grSessions, grKept, grLater, grHub, grEvents, grHeard>>
    BY <1>4 DEF GrHandleFeature, GrNotifyPrecise, GrSwitches
  <2>2. GrFixesGo
    BY <1>0, <2>1, GrFeatureGoes
  <2>3. grPrecise' \in BOOLEAN
    BY <2>1, <2>2, GrReceiveTypes, GrMessages
  <2>5. GrHeardTypes' /\ (\A s \in grFlagged' : s[1] \in DOMAIN grFixes')
        /\ (\A s \in grTold' : s[2] \in DOMAIN grFixes')
    BY <1>0, <1>d, <1>k, <2>1, <2>2 DEF GrHeardTypes, GrNamesKnown, grHeard
  <2> QED BY <1>0, <2>1, <2>2, <2>3, <2>5, GrSetMaskTypes DEF GrClientTypes, grKept
<1>5. P
  BY <1>1, <1>2, <1>3, <1>4 DEF GrThreadAction
<1> QED BY <1>d, <1>k, <1>0, <1>5, GrTypesOfPartsNext, GrReceiveTypes DEF GrTyped, GrFixesGo,
  GrClientTypes, GrReportTypes, GrNamesKnown

LEMMA GrTypedStep ==
  ASSUME GrTyped, [GrNext]_grVars
  PROVE  GrTyped' /\ GrFixesGo
<1>1. CASE GrNext
  BY <1>1, GrActions, GrClientTyped, GrHubTyped, GrModemTyped, GrThreadTyped
     DEF GrModemAction, GrThreadAction
<1>2. CASE UNCHANGED grVars
  BY <1>2, GrFixesStay DEF GrTyped, GrTypeOK, grVars, GrNamesKnown
<1> QED BY <1>1, <1>2

-----------------------------------------------------------------------------
(* The mask and the flags of satellites *)

(* The mask, with what was taken away, has what is wanted at every step;   *)
(* the modem has the mask once it was opened again                         *)
GrMaskIsWanted ==
  /\ ~grOpening => grModem = grMask
  /\ GrBitsOfAll(grClients) \subseteq grMask \cup grLost
  /\ grPrecise => "measurement" \in grMask \cup grLost
  /\ grPrecise /\ grNeedsNHz => "nhz" \in grMask \cup grLost
  /\ grHubCall # <<>> /\ grHubCall[2] => grHubCall[3]

LEMMA GrMaskInit == GrInit => GrMaskIsWanted
  BY DEF GrInit, GrMaskIsWanted

LEMMA GrMaskSet ==
  ASSUME GrMaskIsWanted, GrSetMask(grClients', grPrecise')
  PROVE  GrMaskIsWanted'
  BY DEF GrBitsOfAll, GrSetMask, GrEventMask, GrMaskIsWanted

LEMMA GrMaskStep ==
  ASSUME GrTyped, GrMaskIsWanted, [GrNext]_grVars
  PROVE  GrMaskIsWanted'
<1>u. UNCHANGED <<grMasks, grClients, grPrecise>> => GrMaskIsWanted'
  BY DEF GrMaskIsWanted, GrBitsOfAll, grMasks
<1>1. CASE GrClientAction
  <2>1. ASSUME NEW c \in GrClient, NEW callbacks \in GrCallbacks[c], GrAddClient(c, callbacks)
        PROVE  GrMaskIsWanted'
    BY <2>1, GrMaskSet DEF GrAddClient
  <2>2. ASSUME NEW c \in GrClient, GrRemoveClient(c)
        PROVE  GrMaskIsWanted'
    BY <2>2, GrMaskSet DEF GrRemoveClient
  <2>3. ASSUME NEW c \in GrClient, NEW quality \in GrQuality[c], GrStartTracking(c, quality)
        PROVE  GrMaskIsWanted'
    BY <1>u, <2>3 DEF GrStartTracking
  <2>4. ASSUME NEW c \in GrClient, GrStopTracking(c)
        PROVE  GrMaskIsWanted'
    BY <1>u, <2>4 DEF GrStopTracking
  <2> QED BY <1>1, <2>1, <2>2, <2>3, <2>4 DEF GrClientAction
<1>2. CASE GrHubAction
  <2>0. UNCHANGED <<grClients, grPrecise>> /\ GrBitsOfAll(grClients)' = GrBitsOfAll(grClients)
    BY <1>2 DEF GrHubAction, GrOpen, GrNHzRead, GrNHzWrite, GrBitsOfAll
  <2>1. CASE GrOpen
    BY <2>0, <2>1 DEF GrOpen, GrMaskIsWanted
  <2>2. ASSUME NEW wanted \in BOOLEAN, GrNHzRead(wanted)
        PROVE  GrMaskIsWanted'
    BY <2>0, <2>2 DEF GrNHzRead, GrMaskIsWanted
  <2>3. CASE GrNHzWrite
    BY <2>0, <2>3 DEF GrNHzWrite, GrMaskIsWanted
  <2> QED BY <1>2, <2>1, <2>2, <2>3 DEF GrHubAction
<1>3. CASE GrModemAction
  <2>1. UNCHANGED <<grMasks, grClients, grPrecise>>
    BY <1>3 DEF GrModemAction, GrReportPosition, GrTimeComes, GrHubReports, GrReportSv, GrFeatureChanges
  <2> QED BY <1>u, <2>1
<1>4. CASE GrHandleSpe \/ GrHandleEngine \/ GrHandleSv
  BY <1>u, <1>4 DEF GrHandleSpe, GrHandleEngine, GrHandleSv
<1>5. CASE GrHandleFeature
  BY <1>5, GrMaskSet DEF GrHandleFeature, GrNotifyPrecise
<1>6. CASE UNCHANGED grVars
  BY <1>u, <1>6 DEF grVars, grMasks
<1> QED BY <1>1, <1>2, <1>3, <1>4, <1>5, <1>6, GrActions DEF GrModemAction

(* A position was delayed or thrown away *)
GrMarked(n) == \E k \in 1..n : grFixes[k].fix.late \/ grFixes[k].thrown

(* Of the positions before message k the last one is n, which waits there  *)
(* or was handled last                                                     *)
GrPositionFirst(k, n) ==
  \/ \E j \in 1..k : /\ grInbox[j].do = "spe" /\ grInbox[j].fix = n
                     /\ \A l \in (j + 1)..k : grInbox[l].do # "spe"
  \/ grUsed = GrUsedBy(n) /\ \A l \in 1..k : grInbox[l].do # "spe"

GrFlagsFollow ==
  /\ \A i \in DOMAIN grInbox : grInbox[i].do = "sv" =>
       GrMarked(grInbox[i].fix) \/ GrPositionFirst(i - 1, grInbox[i].fix)
  /\ grFixes # <<>> => GrMarked(Len(grFixes)) \/ GrPositionFirst(Len(grInbox), Len(grFixes))
  /\ \A s \in grFlagged : GrMarked(s[1]) \/ s[2] = GrUsedBy(s[1])

(* The positions that wait for their time are late *)
GrLaterIsLate == \A n \in grLater : grFixes[n].fix.late

LEMMA GrFlagsInit == GrInit => GrFlagsFollow
  BY DEF GrInit, GrFlagsFollow

LEMMA GrMarksStay ==
  ASSUME GrTyped, GrFixesGo, NEW n \in DOMAIN grFixes
  PROVE  /\ GrMarked(n) => GrMarked(n)'
         /\ GrUsedBy(n)' = GrUsedBy(n)
<1>2. GrMarked(n) => GrMarked(n)'
  BY DEF GrMarked, GrFixesGo, GrTyped, GrTypeOK
<1> QED BY <1>2 DEF GrUsedBy, GrFixesGo

(* The message thread's queue does not change *)
LEMMA GrFlagsStay ==
  ASSUME GrTyped, GrFlagsFollow, GrFixesGo,
         Len(grFixes') = Len(grFixes) \/ GrMarked(Len(grFixes))',
         UNCHANGED <<grInbox, grUsed, grFlagged>>
  PROVE  GrFlagsFollow'
<1>0. /\ grInbox \in Seq(GrMessage) /\ grFixes \in Seq(GrFixRecord)
      /\ \A i \in DOMAIN grInbox : grInbox[i].do = "sv" => grInbox[i].fix \in DOMAIN grFixes
      /\ \A s \in grFlagged : s[1] \in DOMAIN grFixes
      /\ grFixes' \in Seq(GrFixRecord)
  BY DEF GrTyped, GrTypeOK, GrNamesKnown, GrFixesGo
<1>1. \A k, n : n \in DOMAIN grFixes /\ GrPositionFirst(k, n) => GrPositionFirst(k, n)'
  BY GrMarksStay DEF GrPositionFirst
<1>2. ASSUME Len(grFixes') = Len(grFixes), grFixes' # <<>>
      PROVE  /\ grFixes # <<>> /\ Len(grFixes) \in DOMAIN grFixes
             /\ GrMarked(Len(grFixes)) => GrMarked(Len(grFixes))'
  BY <1>0, <1>2, GrMarksStay
<1>3. ASSUME NEW i \in DOMAIN grInbox', grInbox'[i].do = "sv"
      PROVE  GrMarked(grInbox[i].fix)' \/ GrPositionFirst(i - 1, grInbox[i].fix)'
  BY <1>0, <1>1, <1>3, GrMarksStay DEF GrFlagsFollow
<1> QED BY <1>0, <1>1, <1>2, <1>3, GrMarksStay DEF GrFlagsFollow

(* A message comes in, with the position it is about last or a marked one  *)
LEMMA GrFlagsSent ==
  ASSUME GrTyped, GrFlagsFollow, GrTyped', GrFixesGo, NEW m \in GrMessage, GrSend(m),
         UNCHANGED <<grUsed, grFlagged>>,
         m.do = "spe" => \/ GrMarked(Len(grFixes))' /\ grFixes' # <<>>
                         \/ m.fix = Len(grFixes'),
         m.do # "spe" => Len(grFixes') = Len(grFixes),
         m.do = "sv" => m.fix = Len(grFixes) /\ grFixes # <<>>
  PROVE  GrFlagsFollow'
<1>0. /\ grInbox \in Seq(GrMessage) /\ grFixes \in Seq(GrFixRecord)
      /\ \A i \in DOMAIN grInbox : grInbox[i].do = "sv" => grInbox[i].fix \in DOMAIN grFixes
      /\ \A s \in grFlagged : s[1] \in DOMAIN grFixes
      /\ grFixes' \in Seq(GrFixRecord)
  BY DEF GrTyped, GrTypeOK, GrNamesKnown, GrFixesGo
<1>1. /\ Len(grInbox') = Len(grInbox) + 1 /\ grInbox'[Len(grInbox) + 1] = m
      /\ DOMAIN grInbox' = 1..(Len(grInbox) + 1) /\ Len(grInbox) \in Nat
      /\ \A i \in 1..Len(grInbox) : grInbox'[i] = grInbox[i]
  BY <1>0 DEF GrSend
<1>2. ASSUME NEW k \in 0..Len(grInbox), NEW n \in DOMAIN grFixes, GrPositionFirst(k, n)
      PROVE  GrPositionFirst(k, n)'
  <2>1. grUsed = GrUsedBy(n) => grUsed' = GrUsedBy(n)'
    BY GrMarksStay
  <2>2. \A l \in 1..k : l \in 1..Len(grInbox) /\ grInbox'[l] = grInbox[l]
    BY <1>1
  <2>3. \A j \in 1..k : \A l \in (j + 1)..k : l \in 1..k
    BY <1>1
  <2> QED BY <1>2, <2>1, <2>2, <2>3, SMTT(30) DEF GrPositionFirst
<1>3. ASSUME NEW n \in DOMAIN grFixes, GrPositionFirst(Len(grInbox), n), m.do # "spe"
      PROVE  GrPositionFirst(Len(grInbox), n)'
  <2>0. PICK q \in Nat : q = Len(grInbox) /\ Len(grInbox') = q + 1
    BY <1>1
  <2>1. \A l \in 1..(q + 1) : \/ l \in 1..q /\ grInbox'[l] = grInbox[l]
                              \/ l = q + 1 /\ grInbox'[l] = m
    BY <1>1, <2>0
  <2>2. ASSUME NEW j \in 1..q
        PROVE  /\ j \in 1..(q + 1)
               /\ \A l \in (j + 1)..(q + 1) : l \in 1..(q + 1) /\ (l \in 1..q => l \in (j + 1)..q)
    OBVIOUS
  <2>3. grUsed = GrUsedBy(n) => grUsed' = GrUsedBy(n)'
    BY GrMarksStay
  <2> QED BY <1>3, <2>0, <2>1, <2>2, <2>3 DEF GrPositionFirst
<1>4. ASSUME m.do = "spe", m.fix = Len(grFixes')
      PROVE  GrPositionFirst(Len(grInbox), Len(grFixes))'
  BY <1>1, <1>4 DEF GrPositionFirst
<1>5. \A i \in DOMAIN grInbox' : grInbox'[i].do = "sv" =>
        GrMarked(grInbox[i].fix)' \/ GrPositionFirst(i - 1, grInbox[i].fix)'
  <2> SUFFICES ASSUME NEW i \in DOMAIN grInbox', grInbox'[i].do = "sv"
               PROVE  GrMarked(grInbox[i].fix)' \/ GrPositionFirst(i - 1, grInbox[i].fix)'
    OBVIOUS
  <2>1. CASE i \in DOMAIN grInbox
    BY <1>0, <1>1, <1>2, <2>1, GrMarksStay DEF GrFlagsFollow
  <2>2. CASE i = Len(grInbox) + 1
    BY <1>0, <1>1, <1>2, <2>2, GrMarksStay DEF GrFlagsFollow
  <2> QED BY <1>0, <1>1, <2>1, <2>2
<1>6. grFixes' # <<>> =>
        GrMarked(Len(grFixes))' \/ GrPositionFirst(Len(grInbox), Len(grFixes))'
  <2>1. CASE m.do = "spe"
    BY <1>4, <2>1
  <2>2. CASE m.do # "spe" /\ grFixes' # <<>>
    BY <1>0, <1>3, <2>2, GrMarksStay DEF GrFlagsFollow
  <2> QED BY <2>1, <2>2
<1> QED BY <1>0, <1>5, <1>6, GrMarksStay DEF GrFlagsFollow

(* A message is handled: of a position, which becomes the last one or is   *)
(* marked; or another one                                                  *)
LEMMA GrFlagsTaken ==
  ASSUME GrTyped, GrFlagsFollow, GrFixesGo, Len(grFixes') = Len(grFixes), NEW do, GrReceive(do),
         NEW head, head = Head(grInbox).fix,
         IF do = "spe" THEN grUsed' = GrUsedBy(head) \/ GrMarked(head)'
                       ELSE UNCHANGED grUsed,
         \/ UNCHANGED grFlagged
         \/ do = "sv" /\ grFlagged' = grFlagged \cup {<<head, grUsed>>}
  PROVE  GrFlagsFollow'
<1>0. /\ grInbox \in Seq(GrMessage) /\ grFixes \in Seq(GrFixRecord)
      /\ \A i \in DOMAIN grInbox : grInbox[i].do # "feature" => grInbox[i].fix \in DOMAIN grFixes
      /\ \A s \in grFlagged : s[1] \in DOMAIN grFixes
      /\ grFixes' \in Seq(GrFixRecord)
  BY DEF GrTyped, GrTypeOK, GrNamesKnown, GrFixesGo
<1>1. /\ Len(grInbox') = Len(grInbox) - 1 /\ Len(grInbox) \in Nat /\ Len(grInbox) > 0
      /\ DOMAIN grInbox' = 1..(Len(grInbox) - 1)
      /\ \A i \in 1..(Len(grInbox) - 1) : grInbox'[i] = grInbox[i + 1]
      /\ grInbox[1] = Head(grInbox) /\ grInbox[1].do = do
  BY <1>0 DEF GrReceive
<1>2. ASSUME NEW k \in 1..Len(grInbox), NEW n \in DOMAIN grFixes, GrPositionFirst(k, n)
      PROVE  GrMarked(n)' \/ GrPositionFirst(k - 1, n)'
  <2>1. GrUsedBy(n)' = GrUsedBy(n)
    BY GrMarksStay
  <2>2. ASSUME NEW j \in 1..k, grInbox[j].do = "spe", grInbox[j].fix = n, j # 1,
               \A l \in (j + 1)..k : grInbox[l].do # "spe"
        PROVE  GrPositionFirst(k - 1, n)'
    <3>1. j - 1 \in 1..(k - 1) /\ grInbox'[j - 1] = grInbox[j]
      BY <1>1, <2>2
    <3>2. \A l \in ((j - 1) + 1)..(k - 1) : grInbox'[l] = grInbox[l + 1] /\ l + 1 \in (j + 1)..k
      BY <1>1, <2>2
    <3> QED BY <2>2, <3>1, <3>2 DEF GrPositionFirst
  <2>3. ASSUME grInbox[1].do = "spe", grInbox[1].fix = n,
               \A l \in 2..k : grInbox[l].do # "spe"
        PROVE  GrMarked(n)' \/ GrPositionFirst(k - 1, n)'
    <3>2. grUsed' = GrUsedBy(n) \/ GrMarked(n)'
      BY <1>1, <2>3
    <3> QED BY <1>1, <2>1, <2>3, <3>2 DEF GrPositionFirst
  <2>4. ASSUME grUsed = GrUsedBy(n), \A l \in 1..k : grInbox[l].do # "spe"
        PROVE  GrPositionFirst(k - 1, n)'
    <3>1. do # "spe"
      BY <1>1, <2>4
    <3> QED BY <1>1, <2>1, <2>4, <3>1 DEF GrPositionFirst
  <2> QED BY <1>2, <2>2, <2>3, <2>4 DEF GrPositionFirst
<1>3. \A i \in DOMAIN grInbox' : grInbox'[i].do = "sv" =>
        GrMarked(grInbox[i].fix)' \/ GrPositionFirst(i - 1, grInbox[i].fix)'
  <2> SUFFICES ASSUME NEW i \in DOMAIN grInbox', grInbox'[i].do = "sv"
               PROVE  GrMarked(grInbox[i].fix)' \/ GrPositionFirst(i - 1, grInbox[i].fix)'
    OBVIOUS
  <2>1. /\ i + 1 \in DOMAIN grInbox /\ grInbox[i + 1] = grInbox'[i] /\ i \in 1..Len(grInbox)
        /\ (i + 1) - 1 = i
    BY <1>0, <1>1
  <2> QED BY <1>0, <1>2, <2>1, GrMarksStay DEF GrFlagsFollow
<1>4. grFixes' # <<>> =>
        GrMarked(Len(grFixes))' \/ GrPositionFirst(Len(grInbox), Len(grFixes))'
  <2> SUFFICES ASSUME grFixes' # <<>>
               PROVE  GrMarked(Len(grFixes))' \/ GrPositionFirst(Len(grInbox), Len(grFixes))'
    OBVIOUS
  <2>1. grFixes # <<>> /\ Len(grFixes) \in DOMAIN grFixes /\ Len(grInbox) \in 1..Len(grInbox)
    BY <1>0, <1>1
  <2> QED BY <1>1, <1>2, <2>1, GrMarksStay DEF GrFlagsFollow
<1>5. \A s \in grFlagged' : GrMarked(s[1])' \/ s[2] = GrUsedBy(s[1])'
  <2>1. \A s \in grFlagged : GrMarked(s[1])' \/ s[2] = GrUsedBy(s[1])'
    BY <1>0, GrMarksStay DEF GrFlagsFollow
  <2>2. CASE do = "sv" /\ grFlagged' = grFlagged \cup {<<head, grUsed>>}
    BY <1>0, <1>1, <2>1, <2>2, GrMarksStay DEF GrFlagsFollow, GrPositionFirst
  <2> QED BY <2>1, <2>2
<1> QED BY <1>3, <1>4, <1>5 DEF GrFlagsFollow

LEMMA GrLaterStep ==
  ASSUME GrTyped, GrLaterIsLate, [GrNext]_grVars
  PROVE  GrLaterIsLate'
<1>t. GrTypeOK /\ GrFixesGo /\ grLater \subseteq DOMAIN grFixes
  BY GrTypedStep DEF GrTyped, GrNamesKnown
<1>1. ASSUME grLater' \subseteq grLater PROVE GrLaterIsLate'
  BY <1>t, <1>1 DEF GrLaterIsLate, GrFixesGo
<1>2. CASE GrClientAction \/ GrHubAction \/ GrThreadAction
  BY <1>1, <1>2
     DEF GrClientAction, GrHubAction, GrThreadAction, GrAddClient, GrRemoveClient, GrStartTracking,
         GrStopTracking, GrOpen, GrNHzRead, GrNHzWrite, GrHandleSpe, GrHandleEngine, GrHandleSv,
         GrHandleFeature, grReports
<1>3. ASSUME NEW fix \in GrFix, GrReportPosition(fix)
      PROVE  GrLaterIsLate'
  BY <1>t, <1>1, <1>3, GrReportGoes DEF GrReportPosition, GrNewRecord, GrLaterIsLate, GrFixesGo
<1>4. CASE \/ \E n \in GrNumber : GrTimeComes(n) \/ GrHubReports(n)
           \/ GrReportSv \/ GrFeatureChanges
  BY <1>1, <1>4 DEF GrTimeComes, GrHubReports, GrReportSv, GrFeatureChanges
<1>5. CASE UNCHANGED grVars
  BY <1>1, <1>5 DEF grVars
<1> QED BY <1>2, <1>3, <1>4, <1>5, GrActions DEF GrThreadAction

LEMMA GrFlagsStep ==
  ASSUME GrTyped, GrLaterIsLate, GrFlagsFollow, [GrNext]_grVars
  PROVE  GrFlagsFollow'
<1>t. GrTypeOK /\ GrTyped' /\ GrFixesGo
  BY GrTypedStep DEF GrTyped
<1>n. /\ DOMAIN grFixes = 1..Len(grFixes) /\ DOMAIN grFixes \subseteq GrNumber
      /\ Len(grFixes) \in Nat /\ grFixes \in Seq(GrFixRecord)
      /\ grLater \subseteq DOMAIN grFixes
      /\ grInbox \in Seq(GrMessage)
      /\ \A i \in DOMAIN grInbox : grInbox[i].do # "feature" => grInbox[i].fix \in DOMAIN grFixes
  <2>1. grFixes \in Seq(GrFixRecord) /\ grInbox \in Seq(GrMessage)
    BY <1>t DEF GrTypeOK
  <2>2. /\ grLater \subseteq DOMAIN grFixes
        /\ \A i \in DOMAIN grInbox : grInbox[i].do # "feature" => grInbox[i].fix \in DOMAIN grFixes
    BY DEF GrTyped, GrNamesKnown
  <2> QED BY <1>t, <2>1, <2>2, GrFixFacts
<1>1. CASE GrClientAction \/ GrHubAction
  <2>1. UNCHANGED <<grInbox, grUsed, grFlagged>> /\ Len(grFixes') = Len(grFixes)
    BY <1>1, <1>t, GrChangesGo
       DEF GrClientAction, GrHubAction, GrAddClient, GrRemoveClient, GrStartTracking, GrStopTracking,
           GrOpen, GrNHzRead, GrNHzWrite, grReports, grHeard, grKept
  <2> QED BY <1>t, <2>1, GrFlagsStay
<1>2. ASSUME NEW fix \in GrFix, GrReportPosition(fix)
      PROVE  GrFlagsFollow'
  <2>1. /\ Len(grFixes') = Len(grFixes) + 1 /\ grFixes' # <<>>
        /\ grFixes'[Len(grFixes')] = GrNewRecord(fix)
        /\ Len(grFixes') \in GrNumber /\ Len(grFixes') \in 1..Len(grFixes')
    BY <1>2, <1>t, <1>n, GrReportGoes
  <2>2. UNCHANGED <<grUsed, grFlagged>>
    BY <1>2 DEF GrReportPosition, grHeard, grKept
  <2>3. CASE fix.late
    <3>2. GrMarked(Len(grFixes))'
      BY <2>1, <2>3 DEF GrMarked, GrNewRecord
    <3>3. UNCHANGED grInbox
      BY <1>2, <2>3 DEF GrReportPosition
    <3> QED BY <1>t, <1>n, <2>1, <2>2, <3>2, <3>3, GrFlagsStay
  <2>4. CASE ~fix.late
    <3>1. GrSend(GrSpe(Len(grFixes'))) 
      BY <1>2, <2>1, <2>4 DEF GrReportPosition
    <3> QED BY <1>t, <2>1, <2>2, <3>1, GrFlagsSent, GrMessages DEF GrSpe
  <2> QED BY <2>3, <2>4
<1>3. ASSUME NEW n \in GrNumber, GrTimeComes(n)
      PROVE  GrFlagsFollow'
  <2>1. /\ UNCHANGED <<grFixes, grUsed, grFlagged>> /\ n \in DOMAIN grFixes
        /\ GrSend(GrSpe(n)) /\ n \in grLater
    BY <1>3, <1>n DEF GrTimeComes, grKept, grHeard
  <2>5. GrMarked(Len(grFixes))' /\ grFixes' # <<>>
    BY <1>n, <2>1 DEF GrMarked, GrLaterIsLate
  <2> QED BY <1>t, <2>1, <2>5, GrFlagsSent, GrMessages DEF GrSpe
<1>4. ASSUME NEW n \in GrNumber, GrHubReports(n)
      PROVE  GrFlagsFollow'
  <2>1. UNCHANGED <<grFixes, grUsed, grFlagged>>
    BY <1>4 DEF GrHubReports, grKept, grHeard
  <2>2. CASE grPrecise
    <3> DEFINE m == [do |-> "engine", fix |-> n]
    <3>1. m \in GrMessage /\ m.do = "engine"
      BY GrMessages
    <3>2. GrSend(m)
      BY <1>4, <2>2 DEF GrHubReports
    <3> HIDE DEF m
    <3> QED BY <1>t, <2>1, <3>1, <3>2, GrFlagsSent
  <2>3. CASE ~grPrecise
    BY <1>4, <1>t, <2>1, <2>3, GrFlagsStay DEF GrHubReports
  <2> QED BY <2>2, <2>3
<1>5. CASE GrReportSv
  <2> DEFINE m == [do |-> "sv", fix |-> Len(grFixes)]
  <2>1. Len(grFixes) \in DOMAIN grFixes /\ grFixes # <<>>
    BY <1>5, <1>n DEF GrReportSv
  <2>2. m \in GrMessage /\ m.do = "sv" /\ m.fix = Len(grFixes)
    BY <1>n, <2>1, GrMessages
  <2>3. GrSend(m) /\ UNCHANGED <<grUsed, grFlagged>>
    BY <1>5 DEF GrReportSv, grKept, grHeard
  <2>4. Len(grFixes') = Len(grFixes)
    BY <1>5, <1>t, <2>1, GrMarkGoes DEF GrReportSv
  <2> HIDE DEF m
  <2> QED BY <1>t, <2>1, <2>2, <2>3, <2>4, GrFlagsSent
<1>6. CASE GrFeatureChanges
  <2> DEFINE m == [do |-> "feature", on |-> ~grPrecise]
  <2>1. m \in GrMessage /\ m.do = "feature"
    BY GrMessages
  <2>2. GrSend(m) /\ UNCHANGED <<grUsed, grFlagged, grFixes>>
    BY <1>6 DEF GrFeatureChanges, grKept, grHeard
  <2> HIDE DEF m
  <2> QED BY <1>t, <2>1, <2>2, GrFlagsSent
<1>7. CASE GrHandleSpe
  <2>1. PICK head : head = Head(grInbox).fix
    OBVIOUS
  <2>2. GrReceive("spe") /\ UNCHANGED grFlagged /\ head \in DOMAIN grFixes
    BY <1>7, <1>t, <2>1, GrReceiveTypes DEF GrHandleSpe
  <2>3. CASE GrInSession
    BY <1>t, <1>7, <2>1, <2>2, <2>3, GrFlagsTaken DEF GrHandleSpe
  <2>4. CASE ~GrInSession
    <3>1. grFixes' = [grFixes EXCEPT ![head].thrown = TRUE]
      BY <1>7, <2>1, <2>4 DEF GrHandleSpe
    <3>2. Len(grFixes') = Len(grFixes)
      BY <1>t, <2>2, <3>1, GrMarkGoes
    <3>4. GrMarked(head)'
      BY <1>n, <2>2, <3>1 DEF GrMarked, GrFixRecord
    <3> QED BY <1>t, <2>1, <2>2, <3>2, <3>4, GrFlagsTaken
  <2> QED BY <2>3, <2>4
<1>8. CASE GrHandleEngine
  BY <1>t, <1>8, GrFlagsTaken DEF GrHandleEngine
<1>9. CASE GrHandleSv
  <2>1. PICK head : head = Head(grInbox).fix
    OBVIOUS
  <2> QED BY <1>t, <1>9, <2>1, GrFlagsTaken DEF GrHandleSv, grKept
<1>10. CASE GrHandleFeature
  <2>1. GrReceive("feature") /\ UNCHANGED <<grUsed, grFlagged>> /\ GrSwitches
    BY <1>10 DEF GrHandleFeature, grKept, grHeard, GrSwitches
  <2> QED BY <1>t, <2>1, GrFlagsTaken, GrFeatureGoes
<1>11. CASE UNCHANGED grVars
  BY <1>t, <1>11, GrFlagsStay DEF grVars
<1> QED BY <1>1, <1>2, <1>3, <1>4, <1>5, <1>6, <1>7, <1>8, <1>9, <1>10, <1>11, GrActions

-----------------------------------------------------------------------------
(* What clients are told of a position *)

(* The positions of the messages of a kind, and those of the modem's and   *)
(* of the engine hub's report that clients may still hear of               *)
GrIn(do) == {n \in GrNumber : \E i \in DOMAIN grInbox : grInbox[i].do = do /\ grInbox[i].fix = n}
GrSpeDue == grLater \cup GrIn("spe")
GrEngDue == grHub \cup GrIn("engine")

(* One message for each position *)
GrDistinct(do) ==
  \A i, j \in DOMAIN grInbox :
    grInbox[i].do = do /\ grInbox[j].do = do /\ grInbox[i].fix = grInbox[j].fix => i = j

(* Each of the two reports of a position is under way once at most *)
GrOnce ==
  /\ GrDistinct("spe") /\ GrDistinct("engine")
  /\ grLater \cap GrIn("spe") = {} /\ grHub \cap GrIn("engine") = {}

LEMMA GrInSend ==
  ASSUME GrTyped, NEW m \in GrMessage, GrSend(m), NEW do \in {"spe", "engine"}
  PROVE  /\ GrIn(do)' = GrIn(do) \cup (IF m.do = do THEN {m.fix} ELSE {})
         /\ GrDistinct(do) /\ (m.do = do => m.fix \notin GrIn(do)) => GrDistinct(do)'
<1>1. grInbox \in Seq(GrMessage)
  BY DEF GrTyped, GrTypeOK
<1> QED BY <1>1, GrMessages DEF GrIn, GrDistinct, GrSend

LEMMA GrInReceive ==
  ASSUME GrTyped, NEW taken, GrReceive(taken), NEW do \in {"spe", "engine"}, GrDistinct(do)
  PROVE  /\ GrIn(do)' = IF taken = do THEN GrIn(do) \ {Head(grInbox).fix} ELSE GrIn(do)
         /\ taken = do => Head(grInbox).fix \in GrIn(do)
         /\ GrDistinct(do)'
<1>1. grInbox \in Seq(GrMessage) /\ grInbox # <<>>
  BY DEF GrTyped, GrTypeOK, GrReceive
<1>2. /\ DOMAIN grInbox' = 1..(Len(grInbox) - 1) /\ grInbox[1] = Head(grInbox)
      /\ DOMAIN grInbox = 1..Len(grInbox) /\ Len(grInbox) \in Nat /\ Len(grInbox) > 0
      /\ \A i \in 1..(Len(grInbox) - 1) : grInbox'[i] = grInbox[i + 1]
      /\ grInbox[1].do = taken
  BY <1>1 DEF GrReceive
<1>3. \A i \in DOMAIN grInbox : i = 1 \/ (i - 1 \in DOMAIN grInbox' /\ grInbox'[i - 1] = grInbox[i])
  BY <1>2
<1>4. \A i \in DOMAIN grInbox' : i + 1 \in DOMAIN grInbox /\ grInbox[i + 1] = grInbox'[i] /\ i + 1 # 1
  BY <1>2
<1>5. 1 \in DOMAIN grInbox
  BY <1>2
<1>6. taken = do => Head(grInbox).fix \in GrIn(do)
  BY <1>1, <1>2, <1>5, GrMessages DEF GrIn
<1>7. ASSUME NEW n \in GrIn(do)'
      PROVE  n \in GrIn(do) /\ (taken = do => n # Head(grInbox).fix)
  <2>2. PICK i \in DOMAIN grInbox' : grInbox'[i].do = do /\ grInbox'[i].fix = n
    BY DEF GrIn
  <2> QED BY <1>2, <1>4, <1>5, <2>2 DEF GrIn, GrDistinct
<1>8. ASSUME NEW n \in GrIn(do), ~(taken = do /\ n = Head(grInbox).fix)
      PROVE  n \in GrIn(do)'
  <2>2. PICK i \in DOMAIN grInbox : grInbox[i].do = do /\ grInbox[i].fix = n
    BY DEF GrIn
  <2> QED BY <1>2, <1>3, <1>8, <2>2 DEF GrIn
<1>9. GrDistinct(do)'
  <2> SUFFICES ASSUME NEW i \in DOMAIN grInbox', NEW j \in DOMAIN grInbox',
                      grInbox'[i].do = do, grInbox'[j].do = do, grInbox'[i].fix = grInbox'[j].fix
               PROVE  i = j
    BY DEF GrDistinct
  <2> QED BY <1>2, <1>4 DEF GrDistinct
<1> QED BY <1>6, <1>7, <1>8, <1>9

(* Nothing is due but what was reported *)
LEMMA GrDueKnown ==
  ASSUME GrTyped
  PROVE  /\ GrSpeDue \subseteq DOMAIN grFixes /\ GrEngDue \subseteq DOMAIN grFixes
         /\ GrIn("spe") \subseteq DOMAIN grFixes /\ GrIn("engine") \subseteq DOMAIN grFixes
         /\ \A n \in DOMAIN grFixes : GrIsUnderWay(n) <=> n \in GrSpeDue \cup GrEngDue
<1>3. \A n \in DOMAIN grFixes : GrIsUnderWay(n) <=> n \in GrSpeDue \cup GrEngDue
  BY GrFixFacts DEF GrIsUnderWay, GrSpeDue, GrEngDue, GrIn, GrTyped
<1> QED BY <1>3 DEF GrTyped, GrNamesKnown, GrSpeDue, GrEngDue, GrIn

LEMMA GrOnceInit == GrInit => GrOnce
  BY DEF GrInit, GrOnce, GrDistinct, GrIn

(* What becomes of what is due *)
GrDueStays == GrSpeDue' = GrSpeDue /\ GrEngDue' = GrEngDue /\ GrOnce'

LEMMA GrInboxStays ==
  ASSUME UNCHANGED grInbox
  PROVE  \A do : GrIn(do)' = GrIn(do) /\ (GrDistinct(do)' <=> GrDistinct(do))
  BY DEF GrIn, GrDistinct

(* A message that is no position *)
LEMMA GrOtherSent ==
  ASSUME GrTyped, GrOnce, NEW m \in GrMessage, GrSend(m), m.do \notin {"spe", "engine"},
         UNCHANGED <<grLater, grHub>>
  PROVE  GrDueStays
  BY GrInSend DEF GrDueStays, GrOnce, GrSpeDue, GrEngDue

LEMMA GrOtherTaken ==
  ASSUME GrTyped, GrOnce, NEW do, GrReceive(do), do \notin {"spe", "engine"},
         UNCHANGED <<grLater, grHub>>
  PROVE  GrDueStays
  BY GrInReceive DEF GrDueStays, GrOnce, GrSpeDue, GrEngDue

LEMMA GrStillDue ==
  ASSUME GrTyped, GrOnce,
         \/ GrClientAction \/ GrHubAction \/ GrReportSv \/ GrFeatureChanges
         \/ \E n \in GrNumber : GrTimeComes(n)
         \/ GrHandleSv \/ GrHandleFeature
         \/ UNCHANGED grVars
  PROVE  GrDueStays
<1>1. ASSUME UNCHANGED grReports PROVE GrDueStays
  BY <1>1, GrInboxStays DEF grReports, GrDueStays, GrOnce, GrSpeDue, GrEngDue
<1>2. CASE GrClientAction \/ GrHubAction \/ UNCHANGED grVars
  <2>1. UNCHANGED grReports
    BY <1>2 DEF GrClientAction, GrHubAction, GrAddClient, GrRemoveClient, GrStartTracking,
                GrStopTracking, GrOpen, GrNHzRead, GrNHzWrite, grReports, grVars
  <2> QED BY <1>1, <2>1
<1>3. CASE GrReportSv
  <2> DEFINE m == [do |-> "sv", fix |-> Len(grFixes)]
  <2>0. Len(grFixes) \in GrNumber
    BY <1>3, GrFixFacts DEF GrReportSv, GrTyped, GrNumber
  <2>1. m \in GrMessage /\ m.do = "sv"
    BY <2>0, GrMessages
  <2>2. GrSend(m) /\ UNCHANGED <<grLater, grHub>>
    BY <1>3 DEF GrReportSv
  <2> HIDE DEF m
  <2> QED BY <2>1, <2>2, GrOtherSent
<1>4. CASE GrFeatureChanges
  <2> DEFINE m == [do |-> "feature", on |-> ~grPrecise]
  <2>1. m \in GrMessage /\ m.do = "feature"
    BY GrMessages
  <2>2. GrSend(m) /\ UNCHANGED <<grLater, grHub>>
    BY <1>4 DEF GrFeatureChanges
  <2> HIDE DEF m
  <2> QED BY <2>1, <2>2, GrOtherSent
<1>5. ASSUME NEW n \in GrNumber, GrTimeComes(n)
      PROVE  GrDueStays
  <2>2. GrSpe(n) \in GrMessage /\ GrSpe(n).do = "spe" /\ GrSpe(n).fix = n
    BY GrMessages DEF GrSpe
  <2> QED BY <1>5, <2>2, GrInSend DEF GrDueStays, GrOnce, GrSpeDue, GrEngDue, GrTimeComes
<1>6. CASE GrHandleSv
  BY <1>6, GrOtherTaken DEF GrHandleSv
<1>7. CASE GrHandleFeature
  BY <1>7, GrOtherTaken DEF GrHandleFeature
<1> QED BY <1>2, <1>3, <1>4, <1>5, <1>6, <1>7

LEMMA GrReportDue ==
  ASSUME GrTyped, GrOnce, NEW fix \in GrFix, GrReportPosition(fix)
  PROVE  /\ GrSpeDue' = GrSpeDue \cup {Len(grFixes')}
         /\ GrEngDue' = GrEngDue \cup {Len(grFixes')} /\ GrOnce'
<1> DEFINE n == Len(grFixes) + 1
<1>1. /\ Len(grFixes') = n /\ n \in GrNumber /\ n \notin DOMAIN grFixes
  BY GrReportGoes, GrFixFacts DEF GrTyped
<1>2. n \notin GrIn("spe") /\ n \notin GrIn("engine") /\ n \notin grLater /\ n \notin grHub
  BY <1>1, GrDueKnown DEF GrSpeDue, GrEngDue
<1>3. grHub' = grHub \cup {n}
  BY DEF GrReportPosition
<1>4. CASE fix.late
  BY <1>1, <1>2, <1>3, <1>4, GrInboxStays DEF GrReportPosition, GrOnce, GrSpeDue, GrEngDue
<1>5. CASE ~fix.late
  <2>1. UNCHANGED grLater /\ GrSend(GrSpe(n))
    BY <1>5 DEF GrReportPosition
  <2>2. GrSpe(n) \in GrMessage /\ GrSpe(n).do = "spe" /\ GrSpe(n).fix = n
    BY <1>1, GrMessages DEF GrSpe
  <2> HIDE DEF n
  <2>3. GrIn("spe")' = GrIn("spe") \cup {n} /\ GrDistinct("spe")'
    BY <1>2, <2>1, <2>2, GrInSend DEF GrOnce
  <2>4. GrIn("engine")' = GrIn("engine") /\ GrDistinct("engine")'
    BY <2>1, <2>2, GrInSend DEF GrOnce
  <2> QED BY <1>1, <1>2, <1>3, <2>1, <2>3, <2>4 DEF GrOnce, GrSpeDue, GrEngDue
<1> QED BY <1>4, <1>5

LEMMA GrHubDue ==
  ASSUME GrTyped, GrOnce, NEW n \in GrNumber, GrHubReports(n)
  PROVE  /\ GrSpeDue' = GrSpeDue /\ GrOnce'
         /\ GrEngDue' = IF grPrecise THEN GrEngDue ELSE GrEngDue \ {n}
<1>1. n \in grHub /\ grHub' = grHub \ {n} /\ UNCHANGED grLater /\ n \notin GrIn("engine")
  BY DEF GrHubReports, GrOnce
<1>2. CASE grPrecise
  <2> DEFINE m == [do |-> "engine", fix |-> n]
  <2>1. m \in GrMessage /\ m.do = "engine" /\ m.fix = n
    BY GrMessages
  <2>2. GrSend(m)
    BY <1>2 DEF GrHubReports
  <2> HIDE DEF m
  <2> QED BY <1>1, <1>2, <2>1, <2>2, GrInSend DEF GrOnce, GrSpeDue, GrEngDue
<1>3. CASE ~grPrecise
  BY <1>1, <1>3, GrInboxStays DEF GrHubReports, GrOnce, GrSpeDue, GrEngDue
<1> QED BY <1>2, <1>3

(* The message of a position is handled: it is due no more *)
LEMMA GrHandledDue ==
  ASSUME GrTyped, GrOnce, GrHandleSpe \/ GrHandleEngine
  PROVE  /\ GrOnce'
         /\ GrHandleSpe => /\ Head(grInbox).fix \in GrSpeDue /\ GrEngDue' = GrEngDue
                           /\ GrSpeDue' = GrSpeDue \ {Head(grInbox).fix}
         /\ GrHandleEngine => /\ Head(grInbox).fix \in GrEngDue /\ GrSpeDue' = GrSpeDue
                              /\ GrEngDue' = GrEngDue \ {Head(grInbox).fix}
<1>1. UNCHANGED <<grLater, grHub>>
  BY DEF GrHandleSpe, GrHandleEngine
<1>2. CASE GrHandleSpe
  <2>1. GrReceive("spe") /\ ~GrReceive("engine")
    BY <1>2 DEF GrHandleSpe, GrReceive
  <2> QED BY <1>1, <2>1, GrInReceive DEF GrOnce, GrSpeDue, GrEngDue, GrHandleEngine
<1>3. CASE GrHandleEngine
  <2>1. GrReceive("engine") /\ ~GrReceive("spe")
    BY <1>3 DEF GrHandleEngine, GrReceive
  <2> QED BY <1>1, <2>1, GrInReceive DEF GrOnce, GrSpeDue, GrEngDue, GrHandleSpe
<1> QED BY <1>2, <1>3

-----------------------------------------------------------------------------
(* The clients of a position *)

GrAccepts(c, status) ==
  IF grSessions[c] = "distance" THEN status # "failure" ELSE GrLevelAccepts(c, status)

GrSessionsOwned == \A c \in GrClient : grClients[c] = {} => grSessions[c] = "none"

(* Who is to hear of a position has a session that wants it *)
GrHearersAccept ==
  \A n \in DOMAIN grFixes : \A c \in grFixes[n].hears : GrAccepts(c, grFixes[n].fix.status)

(* Neither report was told of a position whose turn it still is, and none  *)
(* was told twice                                                          *)
GrNotYet ==
  /\ grTwice \subseteq grTold
  /\ \A s \in grTold : ~grFixes[s[2]].switched =>
       /\ s[2] \in GrSpeDue => grPrecise /\ s[3] \notin GrSpeWhat
       /\ s[2] \in GrEngDue /\ grPrecise => s[3] \in GrSpeWhat
       /\ s \notin grTwice

(* What is expected was told, or is told by a report that is due *)
GrDue(what) == IF grPrecise /\ what \notin GrSpeWhat THEN GrEngDue ELSE GrSpeDue

GrToldSoFar ==
  \A n \in DOMAIN grFixes : ~grFixes[n].switched =>
    \A c \in grFixes[n].hears : \A what \in GrExpected(c, n) :
      <<c, n, what>> \in grTold \/ n \in GrDue(what)

GrToldInv == GrOnce /\ GrSessionsOwned /\ GrHearersAccept /\ GrNotYet /\ GrToldSoFar

LEMMA GrToldInit == GrInit => GrToldInv
  BY GrOnceInit DEF GrInit, GrToldInv, GrSessionsOwned, GrHearersAccept, GrNotYet, GrToldSoFar

(* Sentences and positions that are expected *)
GrExpectedPositions(c) ==
  (IF "location" \in grClients[c] THEN {"location"}
   ELSE IF "engine" \in grClients[c] /\ ~grPrecise THEN {}
   ELSE grClients[c] \cap {"tracking"})
  \cup (IF "engine" \in grClients[c] /\ (grPrecise \/ "location" \notin grClients[c])
        THEN {"fused", "spe"} ELSE {})

LEMMA GrExpectedParts ==
  ASSUME NEW c \in GrClient, NEW n, NEW what \in GrExpected(c, n)
  PROVE  \/ what \in GrExpectedPositions(c)
         \/ /\ c \in GrHas("nmea") /\ GrTimeBased(c) /\ (~grConf.fast \/ grFixes[n].fix.whole)
            /\ \E e \in grConf.sentences : what = GrSentencesOf(e)
  BY DEF GrExpected, GrExpectedPositions, GrHas, GrSentencesOf

LEMMA GrSentencesReach ==
  ASSUME NEW c \in GrClient, NEW n, NEW what, NEW eng,
         c \in GrHas("nmea"), GrTimeBased(c), ~grConf.fast \/ grFixes[n].fix.whole,
         NEW e \in GrEngines(eng), what = GrSentencesOf(e)
  PROVE  <<c, n, what>> \in GrSentences(n, eng)
  BY GrSentencesFact DEF GrMakesSentences

LEMMA GrNeeded ==
  ASSUME GrTypeOK, NEW n \in DOMAIN grFixes, NEW c \in GrClient, GrAccepts(c, grFixes[n].fix.status)
  PROVE  /\ GrNeedsReport(c, grFixes[n].fix.status)
         /\ \A what \in GrHears(c) : <<c, n, what>> \in GrPosition(n)
         /\ \A eng : c \in GrHas("engine") => <<c, n, eng>> \in GrEnginePosition(n, eng)
         /\ GrInSession
<1>1. GrNeedsReport(c, grFixes[n].fix.status)
  BY DEF GrAccepts, GrNeedsReport
<1>5. grSessions[c] # "none"
  BY DEF GrAccepts, GrLevelAccepts, GrTimeBased, GrStatus
<1> QED BY <1>1, <1>5 DEF GrInSession, GrEnginePosition, GrPosition, GrAnyNeedsReport

(* The modem's report tells what is expected of it *)
LEMMA GrSpeReaches ==
  ASSUME GrTypeOK, NEW n \in DOMAIN grFixes, NEW c \in GrClient,
         GrAccepts(c, grFixes[n].fix.status), NEW what \in GrExpected(c, n),
         grPrecise => what \in GrSpeWhat
  PROVE  <<c, n, what>> \in GrSpePositions(n) \cup GrSentences(n, "spe")
<1>1. CASE what \in GrExpectedPositions(c) /\ ~grPrecise
  BY <1>1, GrNeeded DEF GrExpectedPositions, GrHears, GrSpePositions
<1>2. CASE what \in GrExpectedPositions(c) /\ grPrecise
  BY <1>2, GrNeeded DEF GrExpectedPositions, GrSpeWhat, GrHas, GrSpePositions
<1>3. ASSUME c \in GrHas("nmea"), GrTimeBased(c), ~grConf.fast \/ grFixes[n].fix.whole,
             NEW e \in grConf.sentences, what = GrSentencesOf(e)
      PROVE  <<c, n, what>> \in GrSentences(n, "spe")
  BY <1>3, GrAssumption, GrSentencesReach DEF GrTypeOK, GrConfOK, GrEngines, GrSpeWhat,
    GrSentencesOf
<1> QED BY <1>1, <1>2, <1>3, GrExpectedParts

(* and the engine hub's the rest *)
LEMMA GrEngineReaches ==
  ASSUME GrTypeOK, NEW n \in DOMAIN grFixes, NEW c \in GrClient,
         GrAccepts(c, grFixes[n].fix.status), NEW what \in GrExpected(c, n),
         grPrecise, what \notin GrSpeWhat
  PROVE  <<c, n, what>> \in GrHubPositions(n) \cup GrSentences(n, "fused")
<1>1. CASE what \in GrExpectedPositions(c) /\ what = "fused"
  BY <1>1, GrNeeded DEF GrExpectedPositions, GrHas, GrHubPositions
<1>2. CASE what \in GrExpectedPositions(c) /\ what # "fused"
  BY <1>2, GrNeeded DEF GrExpectedPositions, GrHears, GrSpeWhat, GrHubPositions
<1>3. ASSUME c \in GrHas("nmea"), GrTimeBased(c), ~grConf.fast \/ grFixes[n].fix.whole,
             NEW e \in grConf.sentences, what = GrSentencesOf(e)
      PROVE  <<c, n, what>> \in GrSentences(n, "fused")
  BY <1>3, GrAssumption, GrSentencesReach DEF GrTypeOK, GrConfOK, GrEngines, GrSpeWhat,
    GrSentencesOf
<1> QED BY <1>1, <1>2, <1>3, GrExpectedParts

(* What was told of stays told, and nothing is told twice, as long as what *)
(* is due and what was told stay                                           *)
GrSameClients == UNCHANGED <<grConf, grClients, grSessions, grPrecise>>
GrSameFixes ==
  /\ DOMAIN grFixes' = DOMAIN grFixes
  /\ \A n \in DOMAIN grFixes : /\ grFixes'[n].hears = grFixes[n].hears
                               /\ grFixes'[n].switched = grFixes[n].switched

(* Neither clients nor positions change, and of what is due only what is   *)
(* told is due no more                                                     *)
LEMMA GrToldStays ==
  ASSUME GrTyped, GrToldInv, GrFixesGo, GrOnce', GrSameClients, GrSameFixes,
         GrSpeDue' \subseteq GrSpeDue, GrEngDue' \subseteq GrEngDue,
         grTold \subseteq grTold', grTwice' \subseteq grTold',
         \A s \in grTold' : s \in grTold \/
           (s[2] \in DOMAIN grFixes /\ (~grFixes[s[2]].switched =>
             /\ s[2] \in GrSpeDue' => grPrecise /\ s[3] \notin GrSpeWhat
             /\ s[2] \in GrEngDue' /\ grPrecise => s[3] \in GrSpeWhat)),
         \A s \in grTwice' : s \in grTwice \/ grFixes[s[2]].switched,
         \A n \in DOMAIN grFixes, what \in GrWhat : n \in GrDue(what) =>
           \/ n \in GrDue(what)'
           \/ \A c \in GrClient : /\ GrAccepts(c, grFixes[n].fix.status) 
                                  /\ what \in GrExpected(c, n)
                                  => <<c, n, what>> \in grTold'
  PROVE  GrToldInv'
<1>t. GrTypeOK /\ \A s \in grTold : s[2] \in DOMAIN grFixes
  BY DEF GrTyped, GrNamesKnown
<1>0. \A c, n : n \in DOMAIN grFixes => GrExpected(c, n)' = GrExpected(c, n)
  BY DEF GrSameClients, GrFixesGo, GrExpected, GrTimeBased
<1>2. GrHearersAccept'
  <2>1. \A c, status : GrAccepts(c, status)' <=> GrAccepts(c, status)
    BY DEF GrAccepts, GrLevelAccepts, GrTimeBased, GrSameClients
  <2> QED BY <2>1 DEF GrToldInv, GrHearersAccept, GrSameFixes, GrFixesGo
<1>4. GrToldSoFar'
  <2> SUFFICES ASSUME NEW n \in DOMAIN grFixes, ~grFixes[n].switched, NEW c \in grFixes[n].hears,
                      NEW what \in GrExpected(c, n), <<c, n, what>> \notin grTold'
               PROVE  n \in GrDue(what)'
    BY <1>0 DEF GrToldSoFar, GrSameFixes
  <2>3. what \in GrWhat
    BY DEF GrExpected, GrWhat
  <2> QED BY <1>t, <2>3, GrFixFacts, GrRecords DEF GrToldInv, GrHearersAccept, GrToldSoFar
<1> QED BY <1>t, <1>2, <1>4 DEF GrToldInv, GrSessionsOwned, GrSameClients, GrNotYet, GrSameFixes

LEMMA GrSpeToldStep ==
  ASSUME GrTyped, GrToldInv, GrFixesGo, GrHandleSpe
  PROVE  GrToldInv'
<1>t. GrTypeOK
  BY DEF GrTyped
<1> DEFINE n == Head(grInbox).fix
           told == GrSpePositions(n) \cup GrSentences(n, "spe")
<1>1. /\ GrOnce' /\ n \in GrSpeDue /\ GrSpeDue' = GrSpeDue \ {n} /\ GrEngDue' = GrEngDue
      /\ n \in DOMAIN grFixes
  BY GrHandledDue, GrDueKnown DEF GrToldInv
<1>2. GrSameClients
  BY DEF GrHandleSpe, GrSameClients
<1>3. CASE GrInSession
  <2>1. GrSameFixes /\ grTold' = grTold \cup told /\ grTwice' = grTwice \cup (grTold \cap told)
    BY <1>3 DEF GrHandleSpe, GrTell, GrSameFixes
  <2>2. \A s \in told : s[2] = n /\ (grPrecise => s[3] \in GrSpeWhat)
    BY <1>t, <1>1, GrSpeTells
  <2>3. \A c \in GrClient : \A what \in GrExpected(c, n) :
          GrAccepts(c, grFixes[n].fix.status) /\ (grPrecise => what \in GrSpeWhat)
             => <<c, n, what>> \in told
    BY <1>t, <1>1, GrSpeReaches
  <2> HIDE DEF n, told
  <2>4. \A s \in grTold \cap told : grFixes[s[2]].switched
    BY <1>1, <2>2 DEF GrToldInv, GrNotYet
  <2>5. \A k \in DOMAIN grFixes, what \in GrWhat : k \in GrDue(what) =>
           \/ k \in GrDue(what)'
           \/ \A c \in GrClient : /\ GrAccepts(c, grFixes[k].fix.status)
                                  /\ what \in GrExpected(c, k)
                                  => <<c, k, what>> \in grTold'
    BY <1>1, <1>2, <2>1, <2>3 DEF GrDue, GrSameClients
  <2>6. grTwice' \subseteq grTold' /\ grTold \subseteq grTold'
    BY <2>1 DEF GrToldInv, GrNotYet
  <2> QED BY <1>1, <1>2, <2>1, <2>2, <2>4, <2>5, <2>6, GrToldStays
<1>4. CASE ~GrInSession
  <2>1. grFixes' = [grFixes EXCEPT ![n].thrown = TRUE] /\ UNCHANGED <<grTold, grTwice>>
    BY <1>4 DEF GrHandleSpe
  <2>2. GrSameFixes
    BY <1>t, <1>1, <2>1, GrMarkGoes DEF GrSameFixes
  <2> HIDE DEF n
  <2>5. \A k \in DOMAIN grFixes, what \in GrWhat : k \in GrDue(what) =>
           \/ k \in GrDue(what)'
           \/ \A c \in GrClient : ~GrAccepts(c, grFixes[k].fix.status)
    BY <1>t, <1>1, <1>2, <1>4, GrNeeded DEF GrDue, GrSameClients
  <2> QED BY <1>1, <1>2, <2>1, <2>2, <2>5, GrToldStays DEF GrToldInv, GrNotYet
<1> QED BY <1>3, <1>4

LEMMA GrEngineToldStep ==
  ASSUME GrTyped, GrToldInv, GrFixesGo, GrHandleEngine
  PROVE  GrToldInv'
<1>t. GrTypeOK
  BY DEF GrTyped
<1> DEFINE n == Head(grInbox).fix
           told == GrHubPositions(n) \cup GrSentences(n, "fused")
<1>1. /\ GrOnce' /\ n \in GrEngDue /\ GrEngDue' = GrEngDue \ {n} /\ GrSpeDue' = GrSpeDue
      /\ n \in DOMAIN grFixes
  BY GrHandledDue, GrDueKnown DEF GrToldInv
<1>2. GrSameClients /\ GrSameFixes
  BY DEF GrHandleEngine, GrSameClients, GrSameFixes
<1>3. CASE grPrecise
  <2>1. grTold' = grTold \cup told /\ grTwice' = grTwice \cup (grTold \cap told)
    BY <1>3 DEF GrHandleEngine, GrTell, GrHubPositions
  <2>2. \A s \in told : s[2] = n /\ s[3] \notin GrSpeWhat
    BY <1>t, <1>1, <1>3, GrHubTells
  <2>3. \A c \in GrClient : \A what \in GrExpected(c, n) :
          GrAccepts(c, grFixes[n].fix.status) /\ what \notin GrSpeWhat
             => <<c, n, what>> \in told
    BY <1>t, <1>1, <1>3, GrEngineReaches
  <2> HIDE DEF n, told
  <2>4. \A s \in grTold \cap told : grFixes[s[2]].switched
    BY <1>1, <1>3, <2>2 DEF GrToldInv, GrNotYet
  <2>5. \A k \in DOMAIN grFixes, what \in GrWhat : k \in GrDue(what) =>
           \/ k \in GrDue(what)'
           \/ \A c \in GrClient : /\ GrAccepts(c, grFixes[k].fix.status)
                                  /\ what \in GrExpected(c, k)
                                  => <<c, k, what>> \in grTold'
    BY <1>1, <1>2, <2>1, <2>3 DEF GrDue, GrSameClients
  <2>6. grTwice' \subseteq grTold' /\ grTold \subseteq grTold'
    BY <2>1 DEF GrToldInv, GrNotYet
  <2> QED BY <1>1, <1>2, <1>3, <2>1, <2>2, <2>4, <2>5, <2>6, GrToldStays
<1>4. CASE ~grPrecise
  <2> HIDE DEF n
  <2> QED BY <1>1, <1>2, <1>4, GrToldStays DEF GrDue, GrSameClients, GrHandleEngine, GrToldInv,
    GrNotYet
<1> QED BY <1>3, <1>4

(* A client comes, goes, starts or stops: it hears of no position before *)
LEMMA GrClientToldStep ==
  ASSUME GrTyped, GrToldInv, GrFixesGo, GrClientAction
  PROVE  GrToldInv'
<1>t. GrTypeOK /\ (\A s \in grTold : s[2] \in DOMAIN grFixes)
  BY DEF GrTyped, GrNamesKnown
<1>1. /\ GrOnce' /\ GrSpeDue' = GrSpeDue /\ GrEngDue' = GrEngDue
      /\ UNCHANGED <<grConf, grPrecise, grTold, grTwice>>
  <2>1. GrDueStays
    BY GrStillDue DEF GrToldInv
  <2> QED BY <2>1 DEF GrDueStays, GrClientAction, GrAddClient, GrRemoveClient, GrStartTracking,
                      GrStopTracking, grHeard
<1>2. PICK c \in GrClient :
        \/ \E callbacks \in GrCallbacks[c] : GrAddClient(c, callbacks)
        \/ \E quality \in GrQuality[c] : GrStartTracking(c, quality)
        \/ GrRemoveClient(c)
        \/ GrStopTracking(c)
  BY DEF GrClientAction
<1>3. GrSessionsOwned' /\ \A d \in GrClient \ {c} : /\ grClients'[d] = grClients[d]
                                                    /\ grSessions'[d] = grSessions[d]
  BY <1>t, <1>2 DEF GrTypeOK, GrAddClient, GrRemoveClient, GrStartTracking, GrStopTracking,
                    GrToldInv, GrSessionsOwned
<1>4. /\ DOMAIN grFixes' = DOMAIN grFixes
      /\ \A n \in DOMAIN grFixes : /\ grFixes'[n].hears \subseteq grFixes[n].hears \ {c}
                                   /\ grFixes'[n].switched = grFixes[n].switched
                                   /\ grFixes'[n].fix = grFixes[n].fix
  <2>1. CASE GrChanges(c)
    BY <1>t, <2>1, GrChangesGo DEF GrFixesGo, GrTypeOK
  <2>2. CASE UNCHANGED grFixes /\ grClients[c] = {}
    <3>1. grSessions[c] = "none"
      BY <2>2 DEF GrToldInv, GrSessionsOwned
    <3>2. \A status : ~GrAccepts(c, status)
      BY <3>1 DEF GrAccepts, GrLevelAccepts, GrTimeBased, GrStatus
    <3> QED BY <2>2, <3>2 DEF GrToldInv, GrHearersAccept
  <2> QED BY <1>2, <2>1, <2>2 DEF GrAddClient, GrRemoveClient, GrStartTracking, GrStopTracking
<1>5. \A n \in DOMAIN grFixes : \A d \in grFixes'[n].hears :
        /\ d \in GrClient \ {c} /\ d \in grFixes[n].hears
        /\ GrExpected(d, n)' = GrExpected(d, n)
        /\ \A status : GrAccepts(d, status)' <=> GrAccepts(d, status)
  <2> SUFFICES ASSUME NEW n \in DOMAIN grFixes, NEW d \in grFixes'[n].hears
               PROVE  /\ d \in GrClient \ {c} /\ d \in grFixes[n].hears
                      /\ GrExpected(d, n)' = GrExpected(d, n)
                      /\ \A status : GrAccepts(d, status)' <=> GrAccepts(d, status)
    OBVIOUS
  <2> QED BY <1>t, <1>1, <1>3, <1>4, GrFixFacts, GrRecords DEF GrExpected, GrTimeBased,
    GrAccepts, GrLevelAccepts
<1> QED BY <1>t, <1>1, <1>3, <1>4, <1>5 DEF GrToldInv, GrToldSoFar, GrDue, GrHearersAccept,
  GrNotYet

LEMMA GrReportToldStep ==
  ASSUME GrTyped, GrToldInv, NEW fix \in GrFix, GrReportPosition(fix)
  PROVE  GrToldInv'
<1>t. GrTypeOK /\ (\A s \in grTold : s[2] \in DOMAIN grFixes)
  BY DEF GrTyped, GrNamesKnown
<1>1. /\ Len(grFixes') = Len(grFixes) + 1 /\ grFixes'[Len(grFixes')] = GrNewRecord(fix)
      /\ \A n \in DOMAIN grFixes : grFixes'[n] = grFixes[n]
      /\ GrFixesGo
  BY <1>t, GrReportGoes
<1>2. PICK new : new = Len(grFixes')
  OBVIOUS
<1>3. /\ grFixes'[new] = GrNewRecord(fix) /\ new \notin DOMAIN grFixes
      /\ DOMAIN grFixes' = DOMAIN grFixes \cup {new}
  BY <1>t, <1>1, <1>2, GrFixFacts DEF GrFixesGo
<1>4. /\ GrOnce' /\ GrSpeDue' = GrSpeDue \cup {new} /\ GrEngDue' = GrEngDue \cup {new}
  BY <1>2, GrReportDue DEF GrToldInv
<1>5. UNCHANGED <<grConf, grClients, grSessions, grPrecise, grTold, grTwice>>
  BY DEF GrReportPosition, grHeard
<1>7. GrHearersAccept'
  <2>1. \A c, status : GrAccepts(c, status)' <=> GrAccepts(c, status)
    BY <1>5 DEF GrAccepts, GrLevelAccepts, GrTimeBased
  <2> QED BY <1>1, <1>3, <2>1 DEF GrToldInv, GrHearersAccept, GrNewRecord, GrAccepts
<1>8. GrNotYet'
  BY <1>t, <1>1, <1>3, <1>4, <1>5 DEF GrToldInv, GrNotYet
<1>9. GrToldSoFar'
  <2>1. \A c, n : n \in DOMAIN grFixes => GrExpected(c, n)' = GrExpected(c, n)
    BY <1>1, <1>5 DEF GrExpected, GrTimeBased
  <2> QED BY <1>1, <1>3, <1>4, <1>5, <2>1 DEF GrToldInv, GrToldSoFar, GrDue
<1> QED BY <1>4, <1>5, <1>7, <1>8, <1>9 DEF GrToldInv, GrSessionsOwned

(* The feature is switched: what is under way may be told twice or not *)
LEMMA GrFeatureToldStep ==
  ASSUME GrTyped, GrToldInv, GrHandleFeature
  PROVE  GrToldInv'
<1>t. GrTypeOK /\ (\A s \in grTold : s[2] \in DOMAIN grFixes)
  BY DEF GrTyped, GrNamesKnown
<1>1. GrSwitches /\ UNCHANGED <<grClients, grSessions, grTold, grTwice>>
  BY DEF GrHandleFeature, GrSwitches, grHeard
<1>2. /\ GrFixesGo /\ DOMAIN grFixes' = DOMAIN grFixes
      /\ \A n \in DOMAIN grFixes :
           /\ grFixes'[n].hears = {}
           /\ grFixes[n].switched \/ GrIsUnderWay(n) => grFixes'[n].switched
  BY <1>t, <1>1, GrFeatureGoes DEF GrFixesGo, GrTypeOK
<1>5. GrSessionsOwned'
  BY <1>1 DEF GrToldInv, GrSessionsOwned
<1> QED BY <1>t, <1>1, <1>2, <1>5, GrDueKnown, GrStillDue DEF GrToldInv, GrHearersAccept,
  GrToldSoFar, GrNotYet, GrDueStays

LEMMA GrToldStep ==
  ASSUME GrTyped, GrToldInv, [GrNext]_grVars
  PROVE  GrToldInv'
<1>t. GrTypeOK /\ GrFixesGo
  BY GrTypedStep DEF GrTyped
<1>o. GrOnce /\ grTwice \subseteq grTold
  BY DEF GrToldInv, GrNotYet
<1>1. CASE \/ GrHubAction \/ GrReportSv \/ GrFeatureChanges
           \/ \E n \in GrNumber : GrTimeComes(n)
           \/ GrHandleSv \/ UNCHANGED grVars
  <2>1. GrDueStays
    BY <1>1, <1>o, GrStillDue
  <2>2. GrSameClients /\ UNCHANGED <<grTold, grTwice>>
    BY <1>1 DEF GrHubAction, GrOpen, GrNHzRead, GrNHzWrite, GrReportSv, GrFeatureChanges,
                GrTimeComes, GrHandleSv, grVars, grHeard, GrSameClients
  <2>3. GrSameFixes
    <3>1. CASE UNCHANGED grFixes
      BY <3>1 DEF GrSameFixes
    <3>2. CASE GrReportSv
      BY <1>t, <3>2, GrFixFacts, GrMarkGoes DEF GrReportSv, GrSameFixes, GrTypeOK
    <3> QED BY <1>1, <3>1, <3>2
         DEF GrHubAction, GrOpen, GrNHzRead, GrNHzWrite, GrFeatureChanges, GrTimeComes,
             GrHandleSv, grVars
  <2> QED BY <1>t, <1>o, <2>1, <2>2, <2>3, GrToldStays DEF GrDueStays, GrDue, GrSameClients
<1>2. ASSUME NEW n \in GrNumber, GrHubReports(n)
      PROVE  GrToldInv'
  BY <1>o, <1>t, <1>2, GrHubDue, GrToldStays DEF GrHubReports, GrSameClients, GrSameFixes,
    grHeard, GrDue
<1> QED BY <1>t, <1>1, <1>2, GrActions, GrClientToldStep, GrReportToldStep, GrFeatureToldStep,
           GrSpeToldStep, GrEngineToldStep

-----------------------------------------------------------------------------
(* The reports *)

GrInv == GrTyped /\ GrMaskIsWanted /\ GrLaterIsLate /\ GrFlagsFollow /\ GrToldInv

LEMMA GrInvInit == GrInit => GrInv
  BY GrTypedInit, GrMaskInit, GrFlagsInit, GrToldInit DEF GrInv, GrInit, GrLaterIsLate

LEMMA GrInvStep == GrInv /\ [GrNext]_grVars => GrInv'
  BY GrTypedStep, GrMaskStep, GrLaterStep, GrFlagsStep, GrToldStep DEF GrInv

LEMMA GrInvReaches == GrInv => ReportsReachTheirClients
<1> SUFFICES ASSUME GrInv PROVE ReportsReachTheirClients
  OBVIOUS
<1>1. GrFixesAreTold
  BY GrDueKnown DEF GrInv, GrToldInv, GrNotYet, GrToldSoFar, GrDue, GrFixesAreTold
<1>2. GrFlagsAreFresh
  BY DEF GrInv, GrFlagsFollow, GrMarked, GrUsedBy, GrFlagsAreFresh
<1> QED BY <1>1, <1>2 DEF ReportsReachTheirClients, GrInv, GrMaskIsWanted,
  GrModemReportsWhatIsWanted

-----------------------------------------------------------------------------
(* Geofences: types *)

GfEntry == Fence \cup {None}
GfQueued == Turn \cup Call
GfArrived == Turn \cup Reply \cup Breach \cup {EngineUp}

(* What a turn or a call is about *)
GfNames(c, i) == c \in DOMAIN cmds /\ i \in DOMAIN cmds[c].gs

GfCallOK(call) ==
  /\ call \in Call
  /\ IF call.op = "add" THEN call.h = None ELSE call.h \in HwId
  /\ call.op \in {"add", "modify"} => call.opt \in Option
  /\ call.why = "gone" => call.op = "remove"
  /\ call.why = "restart" => call.op = "add"
  /\ call.why = "power" => call.op \in {"pause", "resume"}
  /\ call.why = "repause" => call.op = "pause"
  /\ call.why = "client" => /\ GfNames(call.cmd, call.i)
                            /\ call.op = cmds[call.cmd].op

GfQueuedOK(m) ==
  \/ m \in Turn /\ GfNames(m.cmd, m.i)
  \/ GfCallOK(m)

GfArrivedOK(m) ==
  \/ m \in Turn /\ GfNames(m.cmd, m.i)
  \/ /\ m \in Reply /\ GfCallOK(m.call)
     /\ m.ok => m.h \in HwId /\ (m.call.op # "add" => m.h = m.call.h)
  \/ m \in Breach
  \/ m = EngineUp

GfCommandsOK ==
  \A c \in DOMAIN cmds : /\ cmds[c].gs # <<>>
                         /\ DOMAIN cmds[c].errs = DOMAIN cmds[c].gs
                         /\ DOMAIN cmds[c].results = DOMAIN cmds[c].gs

GfProper ==
  /\ GfCommandsOK
  /\ \A k \in DOMAIN api : GfQueuedOK(api[k])
  /\ \A k \in DOMAIN inbox : GfArrivedOK(inbox[k])
  /\ ~up => \A h \in HwId : engine[h] = None

(* Commands are added, and what they ask stays *)
GfCmdsGo ==
  /\ cmds' \in Seq(Command) /\ Len(cmds) <= Len(cmds')
  /\ \A c \in DOMAIN cmds : /\ cmds'[c].gs = cmds[c].gs /\ cmds'[c].op = cmds[c].op
                            /\ cmds'[c].opt = cmds[c].opt

LEMMA GfOrder ==
  ASSUME NEW S, IsFiniteSet(S), NEW order \in Orders(S)
  PROVE  /\ order \in Seq(S) /\ Len(order) \in Nat /\ DOMAIN order = 1..Len(order)
         /\ \A x \in S : \E k \in DOMAIN order : order[k] = x
  BY FS_CardinalityType, SequenceOfFunction DEF Orders, Members

LEMMA GfConcat ==
  ASSUME NEW T, NEW q \in Seq(T), NEW f \in Seq(T)
  PROVE  /\ q \o f \in Seq(T) /\ Len(q \o f) = Len(q) + Len(f)
         /\ \A k \in DOMAIN q : k \in DOMAIN (q \o f) /\ (q \o f)[k] = q[k]
         /\ \A k \in DOMAIN f : Len(q) + k \in DOMAIN (q \o f) /\ (q \o f)[Len(q) + k] = f[k]
         /\ \A k \in DOMAIN (q \o f) :
              k \in DOMAIN q \/ (k - Len(q) \in DOMAIN f /\ (q \o f)[k] = f[k - Len(q)])
  OBVIOUS

LEMMA GfRecords ==
  /\ \A m \in Turn : m.kind = "turn" /\ m.cmd \in Nat /\ m.i \in Nat
  /\ \A m \in Call : /\ m.kind = "call" /\ m.op \in Operation /\ m.g \in Geofence
                     /\ m.why \in {"client", "gone", "power", "restart", "repause"}
                     /\ m.paused \in BOOLEAN
  /\ \A m \in Reply : m.kind = "reply" /\ m.call \in Call /\ m.ok \in BOOLEAN
  /\ \A m \in Breach : m.kind = "breach" /\ m.h \in HwId /\ m.g \in Geofence
  /\ EngineUp.kind = "up"
  /\ \A f \in Fence : f.g \in Geofence /\ f.opt \in Option /\ f.paused \in BOOLEAN
  /\ \A f \in Fence : f # None
  /\ None \notin Geofence /\ None \notin HwId /\ None \notin Option
  BY NoneAssumption DEF Turn, Call, Reply, Breach, EngineUp, Fence

(* What is made of a geofence in the maps and in the modem *)
LEMMA GfFences ==
  /\ \A g \in Geofence, opt \in Option, b \in BOOLEAN :
       [g |-> g, opt |-> opt, paused |-> b] \in Fence
  /\ \A f \in Fence, b \in BOOLEAN :
       [f EXCEPT !.paused = b] \in Fence /\ [f EXCEPT !.paused = b].g = f.g
  /\ \A f \in Fence, opt \in Option :
       [f EXCEPT !.opt = opt] \in Fence /\ [f EXCEPT !.opt = opt].g = f.g
  BY DEF Fence

LEMMA GfNewCall ==
  ASSUME NEW op \in Operation, NEW g \in Geofence, NEW h \in HwId \cup {None},
         NEW why \in {"client", "gone", "power", "restart", "repause"}
  PROVE  /\ NewCall(op, g, h, why) \in Call
         /\ NewCall(op, g, h, why).op = op /\ NewCall(op, g, h, why).h = h
         /\ NewCall(op, g, h, why).why = why
  BY DEF NewCall, Call

(* A command's arrays after an answer for one of its geofences *)
GfRecorded(cmd, i, err, result, answer) ==
  [cmd EXCEPT !.errs[i] = IF cmd.answers > 0 THEN @ ELSE err,
              !.results[i] = result,
              !.answers = IF answer THEN @ + 1 ELSE @]

LEMMA GfRecordFacts ==
  ASSUME TypeOK, NEW c \in DOMAIN cmds, NEW i \in DOMAIN cmds[c].gs, GfCommandsOK,
         NEW err \in Err, NEW result \in Result, NEW answer \in BOOLEAN,
         Record(c, i, err, result, answer)
  PROVE  /\ GfCmdsGo /\ Len(cmds') = Len(cmds) /\ GfCommandsOK'
         /\ \A d \in DOMAIN cmds : d # c => cmds'[d] = cmds[d]
         /\ cmds'[c].errs = IF cmds[c].answers > 0 THEN cmds[c].errs
                            ELSE [cmds[c].errs EXCEPT ![i] = err]
         /\ cmds'[c].results = [cmds[c].results EXCEPT ![i] = result]
         /\ cmds'[c].answers = IF answer THEN cmds[c].answers + 1 ELSE cmds[c].answers
<1> DEFINE cmd == cmds[c]
           d == GfRecorded(cmd, i, err, result, answer)
<1>0. cmds \in Seq(Command) /\ cmd \in Command /\ i \in DOMAIN cmd.errs /\ i \in DOMAIN cmd.results
  BY DEF TypeOK, GfCommandsOK
<1>1. cmds' = [cmds EXCEPT ![c] = d]
  BY DEF Record, GfRecorded
<1>2. ASSUME NEW q \in Command, i \in DOMAIN q.errs, i \in DOMAIN q.results
      PROVE  /\ GfRecorded(q, i, err, result, answer) \in Command
             /\ GfRecorded(q, i, err, result, answer).gs = q.gs
             /\ GfRecorded(q, i, err, result, answer).op = q.op
             /\ GfRecorded(q, i, err, result, answer).opt = q.opt
             /\ GfRecorded(q, i, err, result, answer).errs =
                  IF q.answers > 0 THEN q.errs ELSE [q.errs EXCEPT ![i] = err]
             /\ GfRecorded(q, i, err, result, answer).results = [q.results EXCEPT ![i] = result]
             /\ GfRecorded(q, i, err, result, answer).answers =
                  IF answer THEN q.answers + 1 ELSE q.answers
  <2>1. /\ q.errs \in Seq(Err) /\ q.results \in Seq(Result) /\ q.answers \in Nat
    BY DEF Command
  <2>2. /\ [q.errs EXCEPT ![i] = err] \in Seq(Err)
        /\ [q.results EXCEPT ![i] = result] \in Seq(Result)
        /\ [q.errs EXCEPT ![i] = q.errs[i]] = q.errs
        /\ (IF answer THEN q.answers + 1 ELSE q.answers) \in Nat
    BY <1>2, <2>1
  <2> DEFINE errs == IF q.answers > 0 THEN q.errs ELSE [q.errs EXCEPT ![i] = err]
             results == [q.results EXCEPT ![i] = result]
             answers == IF answer THEN q.answers + 1 ELSE q.answers
  <2> HIDE DEF errs, results, answers
  <2> QED BY <2>1, <2>2 DEF errs, results, answers, Command, GfRecorded
<1>3. /\ d \in Command /\ d.gs = cmd.gs /\ d.op = cmd.op /\ d.opt = cmd.opt
      /\ d.errs = IF cmd.answers > 0 THEN cmd.errs ELSE [cmd.errs EXCEPT ![i] = err]
      /\ d.results = [cmd.results EXCEPT ![i] = result]
      /\ d.answers = IF answer THEN cmd.answers + 1 ELSE cmd.answers
  BY <1>0, <1>2
<1> HIDE DEF d
<1>5. /\ cmds' \in Seq(Command) /\ Len(cmds') = Len(cmds) /\ DOMAIN cmds' = DOMAIN cmds
      /\ cmds'[c] = d /\ \A e \in DOMAIN cmds : e # c => cmds'[e] = cmds[e]
  BY <1>0, <1>1, <1>3
<1>7. GfCommandsOK'
  BY <1>3, <1>5 DEF GfCommandsOK
<1> QED BY <1>0, <1>3, <1>5, <1>7 DEF GfCmdsGo

GfTyped == TypeOK /\ GfProper

GfMapTypes == ids \in [Geofence -> HwId \cup {None}] /\ fences \in [HwId -> GfEntry]

GfApiTypes == api \in Seq(GfQueued) /\ \A k \in DOMAIN api : GfQueuedOK(api[k])
GfInboxTypes == inbox \in Seq(GfArrived) /\ \A k \in DOMAIN inbox : GfArrivedOK(inbox[k])
GfModemTypes ==
  /\ engine \in [HwId -> GfEntry] /\ up \in BOOLEAN
  /\ ~up => \A h \in HwId : engine[h] = None

LEMMA GfTypesOfParts ==
  GfTyped <=> /\ GfMapTypes /\ GfApiTypes /\ GfInboxTypes /\ GfModemTypes
              /\ suspended \in BOOLEAN /\ clients \in SUBSET Client
              /\ cmds \in Seq(Command) /\ GfCommandsOK
              /\ powers \in Nat /\ ssrs \in Nat
  BY Zenon DEF GfTyped, TypeOK, GfProper, GfMapTypes, GfApiTypes, GfInboxTypes, GfModemTypes, GfEntry,
               GfQueued, GfArrived

LEMMA GfTypesOfPartsNext ==
  GfTyped' <=> /\ GfMapTypes' /\ GfApiTypes' /\ GfInboxTypes' /\ GfModemTypes'
               /\ suspended' \in BOOLEAN /\ clients' \in SUBSET Client
               /\ cmds' \in Seq(Command) /\ GfCommandsOK'
               /\ powers' \in Nat /\ ssrs' \in Nat
  BY Zenon DEF GfTyped, TypeOK, GfProper, GfMapTypes, GfApiTypes, GfInboxTypes, GfModemTypes, GfEntry,
               GfQueued, GfArrived

LEMMA GfInit == Init => GfTyped
<1> SUFFICES ASSUME Init PROVE GfTyped
  OBVIOUS
<1>1. api \in Seq(GfQueued) /\ inbox \in Seq(GfArrived) /\ cmds \in Seq(Command)
  BY SequencesOf DEF Init
<1>4. GfApiTypes /\ GfInboxTypes /\ GfCommandsOK
  BY <1>1 DEF GfApiTypes, GfInboxTypes, GfCommandsOK, Init
<1> QED BY <1>1, <1>4, GfTypesOfParts DEF Init, GfMapTypes, GfModemTypes, GfEntry

(* What the queues hold stays proper *)
LEMMA GfStaysOK ==
  ASSUME GfTyped, GfCmdsGo
  PROVE  /\ \A c, i : GfNames(c, i) => GfNames(c, i)'
         /\ \A m : GfQueuedOK(m) => GfQueuedOK(m)'
         /\ \A m : GfArrivedOK(m) => GfArrivedOK(m)'
<1>1. \A c, i : GfNames(c, i) => GfNames(c, i)' /\ cmds'[c].op = cmds[c].op
  BY DEF GfNames, GfCmdsGo, GfTyped, TypeOK
<1> QED BY <1>1 DEF GfQueuedOK, GfArrivedOK, GfCallOK

LEMMA GfCmdsStay == GfTyped /\ UNCHANGED cmds => GfCmdsGo /\ GfCommandsOK'
  BY DEF GfTyped, TypeOK, GfProper, GfCmdsGo, GfCommandsOK

(* A queue grows by one, by several, or loses its head *)
LEMMA GfQueueOne ==
  ASSUME GfTyped, GfCmdsGo, NEW m, GfQueuedOK(m)', api' = Append(api, m)
  PROVE  GfApiTypes'
<1>1. m \in GfQueued
  BY DEF GfQueuedOK, GfQueued, GfCallOK
<1> QED BY <1>1, GfStaysOK, GfTypesOfParts DEF GfApiTypes

LEMMA GfQueueAll ==
  ASSUME GfTyped, GfCmdsGo, NEW f \in Seq(GfQueued),
         \A k \in DOMAIN f : GfQueuedOK(f[k])', api' = api \o f
  PROVE  GfApiTypes'
<1>1. api \in Seq(GfQueued) /\ \A k \in DOMAIN api : GfQueuedOK(api[k])
  BY GfTypesOfParts DEF GfApiTypes
<1>3. ASSUME NEW k \in DOMAIN api' PROVE GfQueuedOK(api[k])'
  BY <1>1, GfStaysOK
<1> QED BY <1>1, <1>3 DEF GfApiTypes

LEMMA GfUnqueue ==
  ASSUME GfTyped, UNCHANGED cmds, api # <<>>
  PROVE  /\ api' = Tail(api) => GfApiTypes'
         /\ GfQueuedOK(Head(api)) /\ Head(api) = api[1] /\ 1 \in DOMAIN api
<1>1. api \in Seq(GfQueued) /\ \A k \in DOMAIN api : GfQueuedOK(api[k])
  BY GfTypesOfParts DEF GfApiTypes
<1>3. ASSUME api' = Tail(api) PROVE GfApiTypes'
  BY <1>1, <1>3, GfStaysOK, GfCmdsStay DEF GfApiTypes
<1> QED BY <1>1, <1>3

LEMMA GfArrive ==
  ASSUME GfTyped, UNCHANGED cmds, NEW m, GfArrivedOK(m), inbox' = Append(inbox, m)
  PROVE  GfInboxTypes'
  BY GfTypesOfParts, GfStaysOK, GfCmdsStay DEF GfArrivedOK, GfArrived, GfInboxTypes

LEMMA GfTake ==
  ASSUME GfTyped, inbox # <<>>
  PROVE  /\ inbox' = Tail(inbox) /\ GfCmdsGo => GfInboxTypes'
         /\ GfArrivedOK(Head(inbox)) /\ Head(inbox) = inbox[1] /\ 1 \in DOMAIN inbox
<1>1. inbox \in Seq(GfArrived) /\ \A k \in DOMAIN inbox : GfArrivedOK(inbox[k])
  BY GfTypesOfParts DEF GfInboxTypes
<1>3. ASSUME inbox' = Tail(inbox), GfCmdsGo PROVE GfInboxTypes'
  BY <1>1, <1>3, GfStaysOK DEF GfInboxTypes
<1> QED BY <1>1, <1>3

LEMMA GfMapSteps ==
  ASSUME GfMapTypes
  PROVE  /\ \A g \in Geofence, h \in HwId, opt \in Option : Save(g, h, opt) => GfMapTypes'
         /\ \A h \in HwId : RemoveItem(h) => GfMapTypes'
         /\ \A h \in HwId, b \in BOOLEAN : SetPaused(h, b) => GfMapTypes'
         /\ \A h \in HwId, opt \in Option : ModifyItem(h, opt) => GfMapTypes'
<1>1. ASSUME NEW g \in Geofence, NEW h \in HwId, NEW opt \in Option, Save(g, h, opt)
      PROVE  GfMapTypes'
  BY <1>1, GfFences DEF Save, GfMapTypes, GfEntry
<1>2. ASSUME NEW h \in HwId, RemoveItem(h)
      PROVE  GfMapTypes'
  BY <1>2 DEF RemoveItem, GfMapTypes, GfEntry, maps
<1>3. ASSUME NEW h \in HwId, NEW b \in BOOLEAN, SetPaused(h, b)
      PROVE  GfMapTypes'
  BY <1>3, GfFences DEF GfMapTypes, GfEntry, SetPaused
<1>4. ASSUME NEW h \in HwId, NEW opt \in Option, ModifyItem(h, opt)
      PROVE  GfMapTypes'
  BY <1>4, GfFences DEF GfMapTypes, GfEntry, ModifyItem
<1> QED BY <1>1, <1>2, <1>3, <1>4

LEMMA GfApplyTypes ==
  ASSUME GfTyped, NEW call, GfCallOK(call), NEW h \in HwId, Apply(call, h)
  PROVE  GfMapTypes'
  BY GfRecords, GfTypesOfParts, GfMapSteps DEF GfCallOK, Apply

(* Everything but the maps, the queues, the commands and the modem *)
GfRest == suspended \in BOOLEAN /\ clients \in SUBSET Client /\ powers \in Nat /\ ssrs \in Nat

LEMMA GfPartsNext ==
  ASSUME GfTyped, GfCmdsGo, GfCommandsOK',
         GfMapTypes', GfApiTypes', GfInboxTypes', GfModemTypes', GfRest'
  PROVE  GfTyped' /\ GfCmdsGo
  BY GfTypesOfPartsNext DEF GfCmdsGo, GfRest

(* What does not change keeps its type *)
LEMMA GfPartsStay ==
  ASSUME GfTyped, GfCmdsGo
  PROVE  /\ UNCHANGED maps => GfMapTypes'
         /\ UNCHANGED api => GfApiTypes'
         /\ UNCHANGED inbox => GfInboxTypes'
         /\ UNCHANGED modem => GfModemTypes'
         /\ UNCHANGED <<suspended, clients, counters>> => GfRest'
<1>1. GfMapTypes /\ GfApiTypes /\ GfInboxTypes /\ GfModemTypes /\ GfRest
  BY GfTypesOfParts DEF GfRest
<1>2. UNCHANGED maps => GfMapTypes'
  BY <1>1 DEF GfMapTypes, maps
<1>5. UNCHANGED api => GfApiTypes'
  <2> SUFFICES ASSUME UNCHANGED api PROVE GfApiTypes'
    OBVIOUS
  <2> QED BY <1>1, GfStaysOK DEF GfApiTypes
<1>6. UNCHANGED inbox => GfInboxTypes'
  <2> SUFFICES ASSUME UNCHANGED inbox PROVE GfInboxTypes'
    OBVIOUS
  <2> QED BY <1>1, GfStaysOK DEF GfInboxTypes
<1> QED BY <1>1, <1>2, <1>5, <1>6 DEF GfRest, counters, GfModemTypes, modem

(* A client's command, with a turn for each geofence it names *)
GfNewCommand(op, gs, opt) ==
  [op |-> op, gs |-> gs, opt |-> opt, errs |-> [i \in DOMAIN gs |-> "unset"],
   results |-> [i \in DOMAIN gs |-> "pending"], answers |-> 0]

LEMMA GfIssueTyped ==
  ASSUME GfTyped, NEW op \in Operation, NEW gs \in Batches, NEW opt \in Option, Issue(op, gs, opt)
  PROVE  /\ GfTyped' /\ GfCmdsGo /\ Len(cmds') = Len(cmds) + 1
         /\ \A c \in DOMAIN cmds : cmds'[c] = cmds[c]
         /\ cmds'[Len(cmds) + 1] = GfNewCommand(op, gs, opt)
         /\ Turns(Len(cmds) + 1, Len(gs)) \in Seq(GfQueued)
         /\ gs \in Seq(Geofence) /\ gs # <<>>
<1>1. gs \in Seq(Geofence) /\ gs # <<>> /\ Len(gs) \in Nat /\ DOMAIN gs = 1..Len(gs)
  BY BatchesAssumption
<1>3. GfNewCommand(op, gs, opt) \in Command
  BY <1>1, SequenceOfFunction DEF GfNewCommand, Command, Err, Result
<1>4. cmds \in Seq(Command) /\ GfCommandsOK /\ GfMapTypes
  BY GfTypesOfParts
<1>5. /\ cmds' \in Seq(Command) /\ Len(cmds') = Len(cmds) + 1
      /\ \A c \in DOMAIN cmds : cmds'[c] = cmds[c]
      /\ cmds'[Len(cmds) + 1] = GfNewCommand(op, gs, opt)
      /\ DOMAIN cmds' = 1..(Len(cmds) + 1) /\ Len(cmds) \in Nat
      /\ DOMAIN cmds = 1..Len(cmds)
  BY <1>3, <1>4 DEF Issue, GfNewCommand
<1>6. GfCmdsGo
  BY <1>5 DEF GfCmdsGo
<1>7. GfCommandsOK'
  BY <1>1, <1>4, <1>5 DEF GfNewCommand, GfCommandsOK
<1>8. PICK f : f = Turns(Len(cmds) + 1, Len(gs))
  OBVIOUS
<1>9. /\ f \in Seq(GfQueued)
      /\ \A k \in DOMAIN f : f[k] \in Turn /\ f[k].cmd = Len(cmds) + 1 /\ f[k].i \in DOMAIN gs
  <2> DEFINE turn(k) == [kind |-> "turn", cmd |-> Len(cmds) + 1, i |-> k]
  <2>1. \A k \in Nat : turn(k) \in Turn /\ turn(k).cmd = Len(cmds) + 1 /\ turn(k).i = k
    BY <1>5 DEF Turn
  <2>2. f = [k \in 1..Len(gs) |-> turn(k)]
    BY <1>8 DEF Turns
  <2> HIDE DEF turn
  <2>4. /\ f \in [1..Len(gs) -> GfQueued] /\ DOMAIN f = 1..Len(gs)
        /\ \A k \in 1..Len(gs) : f[k] = turn(k)
    BY <1>1, <2>1, <2>2 DEF GfQueued
  <2>5. f \in Seq(GfQueued)
    BY <1>1, <2>4, SequenceOfFunction
  <2> QED BY <1>1, <2>1, <2>4, <2>5
<1>10. \A k \in DOMAIN f : GfQueuedOK(f[k])'
  BY <1>5, <1>9 DEF GfNewCommand, GfQueuedOK, GfNames
<1>11. GfApiTypes'
  BY <1>6, <1>8, <1>9, <1>10, GfQueueAll DEF Issue
<1>13. GfTyped'
  BY <1>6, <1>7, <1>11, GfPartsStay, GfPartsNext DEF Issue
<1> QED BY <1>1, <1>5, <1>6, <1>8, <1>9, <1>13

(* Calls for geofences, in some order *)
LEMMA GfCallsQueued ==
  ASSUME GfTyped, UNCHANGED cmds, NEW S, IsFiniteSet(S), NEW order \in Orders(S),
         NEW call \in [S -> GfQueued], \A x \in S : GfCallOK(call[x]),
         api' = api \o [i \in DOMAIN order |-> call[order[i]]]
  PROVE  GfApiTypes'
<1>1. /\ order \in Seq(S) /\ Len(order) \in Nat /\ DOMAIN order = 1..Len(order)
  BY GfOrder
<1>2. PICK f : f = [i \in DOMAIN order |-> call[order[i]]]
  OBVIOUS
<1>3. /\ f \in [1..Len(order) -> GfQueued]
      /\ \A k \in DOMAIN f : k \in DOMAIN order /\ f[k] = call[order[k]]
  BY <1>1, <1>2
<1>4. f \in Seq(GfQueued)
  BY <1>1, <1>3, SequenceOfFunction
<1>5. \A k \in DOMAIN f : GfQueuedOK(f[k])
  BY <1>1, <1>3 DEF GfQueuedOK
<1> QED BY <1>2, <1>4, <1>5, GfQueueAll, GfCmdsStay, GfStaysOK

LEMMA GfNewCallOK ==
  ASSUME NEW g \in Geofence, NEW h \in HwId, NEW op, NEW why,
         \/ op = "remove" /\ why = "gone"
         \/ op \in {"pause", "resume"} /\ why = "power"
         \/ op = "pause" /\ why = "repause"
  PROVE  GfCallOK(NewCall(op, g, h, why))
  BY GfNewCall DEF Operation, GfCallOK

LEMMA GfEnvironmentTyped ==
  ASSUME GfTyped,
         \/ \E client \in Client : StopClientSessions(client)
         \/ \E suspend \in BOOLEAN : UpdateSystemPowerState(suspend)
         \/ ModemDown \/ ModemUp
         \/ \E h \in HwId : GeofenceBreachEvent(h)
  PROVE  GfTyped' /\ GfCmdsGo
<1>0. /\ GfMapTypes /\ GfModemTypes /\ GfRest
      /\ UNCHANGED cmds
  BY GfTypesOfParts DEF GfRest, StopClientSessions, UpdateSystemPowerState, ModemDown, ModemUp,
                        GeofenceBreachEvent
<1>c. GfCmdsGo /\ GfCommandsOK'
  BY <1>0, GfCmdsStay
<1>1. ASSUME NEW client \in Client, StopClientSessions(client)
      PROVE  GfTyped' /\ GfCmdsGo
  <2> DEFINE mine == {g \in Geofence : Owner[g] = client /\ ids[g] # None}
             call == [g \in mine |-> NewCall("remove", g, ids[g], "gone")]
  <2>1. PICK order \in Orders(mine) :
          api' = api \o [i \in DOMAIN order |-> NewCall("remove", order[i], ids[order[i]], "gone")]
    BY <1>1 DEF StopClientSessions
  <2>2. /\ clients' = clients \ {client} /\ UNCHANGED <<fences, suspended, inbox, modem, counters>>
        /\ ids' = [g \in Geofence |-> IF g \in mine THEN None ELSE ids[g]]
    BY <1>1 DEF StopClientSessions
  <2>3. IsFiniteSet(mine)
    BY FiniteAssumption, FS_Subset
  <2>5. \A g \in mine : call[g] = NewCall("remove", g, ids[g], "gone")
    OBVIOUS
  <2>6. call \in [mine -> GfQueued] /\ \A g \in mine : GfCallOK(call[g])
    BY <1>0, GfNewCallOK DEF GfQueued, GfCallOK, GfMapTypes
  <2>7. GfMapTypes'
    BY <1>0, <2>2 DEF GfMapTypes
  <2>8. GfRest'
    BY <1>0, <2>2 DEF GfRest, counters
  <2> HIDE DEF mine
  <2>9. \A k \in DOMAIN order : order[k] \in mine
    BY <2>1, <2>3, GfOrder
  <2> HIDE DEF call
  <2>11. api' = api \o [i \in DOMAIN order |-> call[order[i]]]
    BY <2>1, <2>5, <2>9
  <2>12. GfApiTypes'
    BY <1>0, <2>1, <2>3, <2>6, <2>11, GfCallsQueued
  <2> QED BY <1>c, <2>2, <2>7, <2>8, <2>12, GfPartsStay, GfPartsNext
<1>2. ASSUME NEW suspend \in BOOLEAN, UpdateSystemPowerState(suspend)
      PROVE  GfTyped' /\ GfCmdsGo
  <2> DEFINE op == IF suspend THEN "pause" ELSE "resume"
             S == {g \in Geofence : ids[g] # None}
             call == [g \in S |-> NewCall(op, g, ids[g], "power")]
  <2>1. PICK order \in Orders(S) :
          api' = api \o [i \in DOMAIN order |-> NewCall(op, order[i], ids[order[i]], "power")]
    BY <1>2 DEF UpdateSystemPowerState
  <2>3. IsFiniteSet(S)
    BY FiniteAssumption, FS_Subset
  <2>5. \A g \in S : call[g] = NewCall(op, g, ids[g], "power")
    OBVIOUS
  <2>6. call \in [S -> GfQueued] /\ \A g \in S : GfCallOK(call[g])
    BY <1>0, GfNewCallOK DEF GfQueued, GfCallOK, GfMapTypes
  <2> HIDE DEF S, op
  <2> HIDE DEF call
  <2>11. api' = api \o [i \in DOMAIN order |-> call[order[i]]]
    BY <2>1, <2>3, <2>5, GfOrder
  <2>12. GfApiTypes'
    BY <1>0, <2>1, <2>3, <2>6, <2>11, GfCallsQueued
  <2> QED BY <1>c, <1>0, <1>2, <2>12, GfPartsStay, GfPartsNext DEF GfRest,
    UpdateSystemPowerState
<1>3. CASE ModemDown
  <2>0. /\ up' = FALSE /\ engine' = [h \in HwId |-> None] /\ ssrs' = ssrs + 1
        /\ UNCHANGED <<suspended, clients, powers>>
    BY <1>3 DEF ModemDown
  <2>1. GfModemTypes' /\ GfRest'
    <3>3. ssrs' \in Nat /\ powers' \in Nat
      BY <1>0, <2>0 DEF GfRest
    <3> QED BY <1>0, <2>0, <3>3, Zenon DEF GfModemTypes, GfRest, GfEntry
  <2> QED BY <1>c, <1>3, <2>1, GfPartsStay, GfPartsNext DEF ModemDown
<1>4. CASE ModemUp
  BY <1>c, <1>0, <1>4, GfArrive, GfPartsStay, GfPartsNext DEF ModemUp, GfModemTypes, GfArrivedOK
<1>5. ASSUME NEW h \in HwId, GeofenceBreachEvent(h)
      PROVE  GfTyped' /\ GfCmdsGo
  <2> DEFINE m == [kind |-> "breach", h |-> h, g |-> engine[h].g]
  <2>3. inbox' = Append(inbox, m) /\ UNCHANGED <<maps, suspended, clients, api, modem, counters>>
    BY <1>5 DEF GeofenceBreachEvent
  <2> HIDE DEF m
  <2>4. GfInboxTypes'
    BY <1>0, <1>5, <2>3, GfArrive, GfRecords DEF GfArrivedOK, Breach, GeofenceBreachEvent,
      GfModemTypes, GfEntry
  <2> QED BY <1>c, <2>3, <2>4, GfPartsStay, GfPartsNext
<1> QED BY <1>1, <1>2, <1>3, <1>4, <1>5

(* The answer to a call *)
LEMMA GfAnswer ==
  ASSUME GfTyped, UNCHANGED cmds, api # <<>>, Head(api).kind = "call", NEW ok \in BOOLEAN,
         NEW h \in HwId \cup {None}, ok => h \in HwId /\ (Head(api).op # "add" => h = Head(api).h),
         Answer(ok, h)
  PROVE  GfApiTypes' /\ GfInboxTypes' /\ GfCallOK(Head(api))
<1>3. PICK call : call = Head(api)
  OBVIOUS
<1>4. PICK m : m = [kind |-> "reply", call |-> call, ok |-> ok, h |-> h]
  OBVIOUS
<1> QED BY <1>3, <1>4, GfArrive, GfRecords, GfUnqueue DEF GfArrivedOK, Answer, Reply,
  GfQueuedOK, GfCallOK

LEMMA GfApiTyped ==
  ASSUME GfTyped, ApiNext
  PROVE  GfTyped' /\ GfCmdsGo
<1>0. /\ GfMapTypes /\ GfModemTypes /\ api # <<>>
      /\ UNCHANGED <<maps, suspended, clients, cmds, counters>>
  BY GfTypesOfParts DEF ApiNext, ApiTurn, ApiCall, ApiFail
<1>c. GfCmdsGo /\ GfCommandsOK' /\ GfMapTypes' /\ GfRest'
  BY <1>0, GfCmdsStay, GfPartsStay
<1>h. GfQueuedOK(Head(api))
  BY <1>0, GfUnqueue
<1>1. CASE ApiTurn
  <2>1. /\ inbox' = Append(inbox, Head(api)) /\ api' = Tail(api) /\ UNCHANGED modem
        /\ Head(api).kind = "turn"
    BY <1>1 DEF ApiTurn
  <2>3. GfApiTypes' /\ GfInboxTypes'
    BY <1>h, <1>0, <2>1, GfUnqueue, GfArrive, GfRecords DEF GfQueuedOK, GfArrivedOK, GfCallOK
  <2> QED BY <1>c, <2>1, <2>3, GfPartsStay, GfPartsNext
<1>2. CASE ApiFail
  BY <1>c, <1>0, <1>2, GfAnswer, GfPartsStay, GfPartsNext DEF ApiFail
<1>3. CASE ApiCall
  <2>1. PICK call : call = Head(api)
    OBVIOUS
  <2>2. /\ call.kind = "call" /\ up /\ up' = up /\ GfCallOK(call) /\ call.g \in Geofence
        /\ call.op \in Operation
    BY <1>3, <1>h, <2>1, GfRecords DEF ApiCall, GfQueuedOK, GfCallOK
  <2>3. CASE call.op = "add"
    <3>1. PICK new \in HwId :
            /\ engine' = [engine EXCEPT ![new] = [g |-> call.g, opt |-> call.opt, paused |-> FALSE]]
            /\ Answer(TRUE, new)
      BY <1>3, <2>1, <2>3 DEF ApiCall
    <3>3. GfModemTypes'
      BY <1>0, <2>2, <2>3, <3>1, GfFences DEF GfModemTypes, GfEntry, GfCallOK
    <3>4. GfApiTypes' /\ GfInboxTypes'
      BY <1>0, <2>1, <2>2, <2>3, <3>1, GfAnswer
    <3> QED BY <1>c, <3>3, <3>4, GfPartsNext
  <2>4. CASE call.op # "add"
    <3> DEFINE h == call.h
               e == engine[h]
               new == CASE call.op = "remove" -> None
                        [] call.op = "pause" -> [e EXCEPT !.paused = TRUE]
                        [] call.op = "resume" -> [e EXCEPT !.paused = FALSE]
                        [] call.op = "modify" -> [e EXCEPT !.opt = call.opt]
    <3>1. h \in HwId /\ e \in Fence
      BY <1>0, <1>3, <2>1, <2>2, <2>4 DEF ApiCall, GfCallOK, GfModemTypes, GfEntry
    <3>2. engine' = [engine EXCEPT ![h] = new] /\ Answer(TRUE, h)
      BY <1>3, <2>1, <2>4 DEF ApiCall
    <3>3. new \in GfEntry
      <4> HIDE DEF e
      <4> QED BY <2>2, <2>4, <3>1, GfFences DEF GfEntry, Operation, GfCallOK
    <3> HIDE DEF h, new
    <3>4. GfModemTypes'
      BY <1>0, <2>2, <3>1, <3>2, <3>3 DEF GfModemTypes
    <3>5. GfApiTypes' /\ GfInboxTypes'
      BY <1>0, <2>1, <2>2, <2>4, <3>1, <3>2, GfAnswer DEF h
    <3> QED BY <1>c, <3>4, <3>5, GfPartsNext
  <2> QED BY <2>3, <2>4
<1> QED BY <1>1, <1>2, <1>3 DEF ApiNext

(* A reply that is taken *)
LEMMA GfReply ==
  ASSUME GfTyped, NEW why, TakeReply(why)
  PROVE  /\ Head(inbox) \in Reply /\ GfCallOK(Head(inbox).call)
         /\ Head(inbox).ok => /\ Head(inbox).h \in HwId
                              /\ Head(inbox).call.op # "add" => Head(inbox).h = Head(inbox).call.h
         /\ inbox # <<>> /\ Head(inbox).call.why \in why /\ inbox' = Tail(inbox)
         /\ Head(inbox) = inbox[1] /\ 1 \in DOMAIN inbox
  BY GfTake, GfRecords DEF TakeReply, GfArrivedOK

(* The turn that is handled: item i of command c *)
LEMMA GfTurn ==
  ASSUME GfTyped, HandleTurn
  PROVE  /\ Head(inbox) \in Turn /\ GfNames(Head(inbox).cmd, Head(inbox).i)
         /\ inbox # <<>> /\ inbox' = Tail(inbox) /\ Head(inbox) = inbox[1] /\ 1 \in DOMAIN inbox
  BY GfTake, GfRecords DEF HandleTurn, GfArrivedOK

(* The call of a turn *)
GfTurnCall(c, i) ==
  ClientCall(c, i, IF cmds[c].op = "add" THEN None ELSE ids[cmds[c].gs[i]])

LEMMA GfTurnTyped ==
  ASSUME GfTyped, HandleTurn, NEW c, NEW i, c = Head(inbox).cmd, i = Head(inbox).i
  PROVE  /\ GfTyped' /\ GfCmdsGo /\ Len(cmds') = Len(cmds)
         /\ c \in DOMAIN cmds /\ i \in DOMAIN cmds[c].gs
         /\ \/ /\ cmds[c].op = "add"
               /\ api' = Append(api, GfTurnCall(c, i)) /\ UNCHANGED cmds
            \/ /\ cmds[c].op # "add" /\ ids[cmds[c].gs[i]] # None
               /\ api' = Append(api, GfTurnCall(c, i))
               /\ Record(c, i, "success", "pending", FALSE)
            \/ /\ cmds[c].op # "add" /\ ids[cmds[c].gs[i]] = None
               /\ UNCHANGED api
               /\ Record(c, i, "unknown", "unknown", IsLast(c, i))
<1>0. /\ TypeOK /\ GfCommandsOK /\ GfMapTypes /\ cmds \in Seq(Command)
  BY GfTypesOfParts DEF GfTyped
<1>1. /\ c \in DOMAIN cmds /\ i \in DOMAIN cmds[c].gs /\ inbox # <<>> /\ inbox' = Tail(inbox)
  BY GfTurn DEF GfNames
<1>2. /\ cmds[c] \in Command /\ cmds[c].op \in Operation /\ cmds[c].opt \in Option
      /\ cmds[c].gs \in Seq(Geofence) /\ cmds[c].gs[i] \in Geofence /\ c \in Nat /\ i \in Nat
  <2>1. cmds[c] \in Command /\ c \in Nat
    BY <1>0, <1>1
  <2> QED BY <1>1, <2>1 DEF Command
<1>3. UNCHANGED <<maps, suspended, clients, modem, counters>>
  BY DEF HandleTurn
<1>4. \/ /\ cmds[c].op = "add"
         /\ api' = Append(api, GfTurnCall(c, i)) /\ UNCHANGED cmds
      \/ /\ cmds[c].op # "add" /\ ids[cmds[c].gs[i]] # None
         /\ api' = Append(api, GfTurnCall(c, i))
         /\ Record(c, i, "success", "pending", FALSE)
      \/ /\ cmds[c].op # "add" /\ ids[cmds[c].gs[i]] = None
         /\ UNCHANGED api
         /\ Record(c, i, "unknown", "unknown", IsLast(c, i))
  BY DEF HandleTurn, GfTurnCall
<1>5. /\ GfTurnCall(c, i).h = (IF cmds[c].op = "add" THEN None ELSE ids[cmds[c].gs[i]])
      /\ GfTurnCall(c, i).op = cmds[c].op /\ GfTurnCall(c, i).opt = cmds[c].opt
      /\ GfTurnCall(c, i).why = "client" /\ GfTurnCall(c, i).cmd = c /\ GfTurnCall(c, i).i = i
      /\ GfTurnCall(c, i) \in Call
  BY <1>0, <1>2 DEF GfMapTypes, GfTurnCall, ClientCall, Call
<1>6. cmds[c].op = "add" \/ ids[cmds[c].gs[i]] # None => GfCallOK(GfTurnCall(c, i))
  BY <1>0, <1>1, <1>2, <1>5 DEF GfMapTypes, GfCallOK, GfNames
<1>7. GfCmdsGo /\ GfCommandsOK' /\ Len(cmds') = Len(cmds)
  <2>1. CASE UNCHANGED cmds
    BY <2>1, GfCmdsStay
  <2> QED BY <1>0, <1>1, <1>4, <2>1, GfRecordFacts DEF Err, Result, IsLast
<1>8. GfApiTypes'
  <2>1. CASE UNCHANGED api
    BY <1>7, <2>1, GfPartsStay
  <2>2. CASE api' = Append(api, GfTurnCall(c, i)) /\ GfCallOK(GfTurnCall(c, i))
    BY <1>7, <2>2, GfStaysOK, GfQueueOne DEF GfQueuedOK
  <2> QED BY <1>4, <1>6, <2>1, <2>2
<1>9. GfInboxTypes'
  BY <1>1, <1>7, GfTake
<1> QED BY <1>1, <1>3, <1>4, <1>7, <1>8, <1>9, GfPartsStay, GfPartsNext

GfHandleReply ==
  HandleClientReply \/ HandleGoneReply \/ HandlePowerReply \/ HandleRestartReply

(* What HandleClientReply records of the item that was answered *)
GfAnsweredItem(call, ok) ==
  Record(call.cmd, call.i,
         IF call.op \in {"modify", "resume"} /\ ~ok THEN "success"
         ELSE IF ok THEN "success" ELSE "failure",
         IF ok THEN "success" ELSE "failure",
         IsLast(call.cmd, call.i) /\ (ok \/ call.op # "resume"))

LEMMA GfReplyTyped ==
  ASSUME GfTyped, GfHandleReply
  PROVE  GfTyped' /\ GfCmdsGo
<1>0. /\ TypeOK /\ GfCommandsOK /\ GfMapTypes /\ UNCHANGED <<suspended, clients, modem, counters>>
  BY GfTypesOfParts
     DEF GfTyped, GfHandleReply, HandleClientReply, HandleGoneReply, HandlePowerReply,
         HandleRestartReply
<1>1. CASE HandleClientReply
  <2>1. PICK call, ok, h : call = Head(inbox).call /\ ok = Head(inbox).ok /\ h = Head(inbox).h
    OBVIOUS
  <2>2. TakeReply({"client"}) /\ UNCHANGED api
    BY <1>1 DEF HandleClientReply
  <2>3. /\ GfCallOK(call) /\ call.why = "client" /\ ok \in BOOLEAN /\ (ok => h \in HwId)
        /\ inbox # <<>> /\ inbox' = Tail(inbox)
    BY <2>1, <2>2, GfReply, GfRecords
  <2>4. /\ IF ok THEN Apply(call, h) ELSE UNCHANGED maps
        /\ GfAnsweredItem(call, ok)
    BY <1>1, <2>1 DEF HandleClientReply, GfAnsweredItem
  <2>5. GfMapTypes'
    BY <1>0, <2>3, <2>4, GfApplyTypes DEF GfMapTypes, maps
  <2>6. GfCmdsGo /\ GfCommandsOK'
    <3>1. GfNames(call.cmd, call.i)
      BY <2>3 DEF GfCallOK
    <3> QED BY <1>0, <2>3, <2>4, <3>1, GfRecordFacts DEF GfNames, GfAnsweredItem, Err, Result,
      IsLast
  <2>7. GfInboxTypes'
    BY <2>3, <2>6, GfTake
  <2> QED BY <1>0, <2>2, <2>5, <2>6, <2>7, GfPartsStay, GfPartsNext
<1>2. CASE HandleGoneReply
  <2>1. TakeReply({"gone"}) /\ UNCHANGED <<ids, cmds, api>>
        /\ fences' \in {fences, [fences EXCEPT ![Head(inbox).call.h] = None]}
    BY <1>2 DEF HandleGoneReply
  <2>2. GfCmdsGo /\ GfCommandsOK' /\ GfMapTypes'
    BY <1>0, <2>1, GfCmdsStay DEF GfMapTypes, GfEntry
  <2>3. GfInboxTypes'
    BY <2>1, <2>2, GfReply, GfTake
  <2> QED BY <1>0, <2>1, <2>2, <2>3, GfPartsStay, GfPartsNext
<1>3. CASE HandlePowerReply
  <2>1. TakeReply({"power", "repause"}) /\ UNCHANGED <<cmds, api>>
        /\ (UNCHANGED maps \/ SetPaused(Head(inbox).call.h, Head(inbox).call.op = "pause"))
    BY <1>3 DEF HandlePowerReply
  <2>2. Head(inbox).call.h \in HwId
    BY <2>1, GfReply DEF GfCallOK
  <2>3. GfMapTypes'
    BY <1>0, <2>1, <2>2, GfMapSteps DEF GfMapTypes, maps
  <2>4. GfCmdsGo /\ GfCommandsOK'
    BY <2>1, GfCmdsStay
  <2>5. GfInboxTypes'
    BY <2>1, <2>4, GfReply, GfTake
  <2> QED BY <1>0, <2>1, <2>3, <2>4, <2>5, GfPartsStay, GfPartsNext
<1>4. CASE HandleRestartReply
  <2>1. PICK call, h : call = Head(inbox).call /\ h = Head(inbox).h
    OBVIOUS
  <2>2. TakeReply({"restart"}) /\ UNCHANGED cmds
    BY <1>4 DEF HandleRestartReply
  <2>3. /\ GfCallOK(call) /\ call.why = "restart" /\ (Head(inbox).ok => h \in HwId)
        /\ inbox # <<>> /\ inbox' = Tail(inbox) /\ call.g \in Geofence /\ call.opt \in Option
    BY <2>1, <2>2, GfReply, GfRecords DEF GfCallOK
  <2>4. GfCmdsGo /\ GfCommandsOK' /\ GfInboxTypes'
    BY <2>2, <2>3, GfCmdsStay, GfTake
  <2>5. CASE ~Head(inbox).ok
    BY <1>0, <1>4, <2>4, <2>5, GfPartsStay, GfPartsNext DEF HandleRestartReply
  <2>6. CASE Head(inbox).ok
    <3>1. /\ Save(call.g, h, call.opt)
          /\ api' = IF call.paused THEN Append(api, NewCall("pause", call.g, h, "repause")) ELSE api
      BY <1>4, <2>1, <2>6 DEF HandleRestartReply
    <3>2. GfMapTypes'
      BY <1>0, <2>3, <2>6, <3>1, GfMapSteps
    <3>3. PICK m : m = NewCall("pause", call.g, h, "repause")
      OBVIOUS
    <3>5. GfQueuedOK(m)'
      BY <2>3, <2>4, <2>6, <3>3, GfStaysOK, GfNewCallOK DEF GfQueuedOK
    <3>6. GfApiTypes'
      BY <2>4, <3>1, <3>3, <3>5, GfQueueOne, GfPartsStay
    <3> QED BY <1>0, <2>4, <3>2, <3>6, GfPartsStay, GfPartsNext
  <2> QED BY <2>5, <2>6
<1> QED BY <1>1, <1>2, <1>3, <1>4 DEF GfHandleReply

GfKept == {h \in HwId : fences[h] # None}

LEMMA GfUpTyped ==
  ASSUME GfTyped, HandleEngineUp
  PROVE  /\ GfTyped' /\ GfCmdsGo
         /\ \/ UNCHANGED <<maps, api>> /\ (suspended \/ GfKept = {})
            \/ /\ fences' = [h \in HwId |-> None] /\ ids' = [g \in Geofence |-> None]
               /\ ~suspended
               /\ \E order \in Orders(GfKept) :
                    api' = api \o [i \in DOMAIN order |-> RestartCall(order[i])]
<1>0. /\ GfMapTypes /\ UNCHANGED <<suspended, clients, cmds, modem, counters>>
      /\ inbox # <<>> /\ inbox' = Tail(inbox)
  BY GfTypesOfParts DEF HandleEngineUp
<1>1. GfCmdsGo /\ GfCommandsOK' /\ GfInboxTypes'
  BY <1>0, GfCmdsStay, GfTake
<1>2. CASE suspended \/ GfKept = {}
  BY <1>0, <1>1, <1>2, GfPartsStay, GfPartsNext DEF HandleEngineUp, GfKept
<1>3. CASE ~suspended /\ GfKept # {}
  <2>1. /\ fences' = [h \in HwId |-> None] /\ ids' = [g \in Geofence |-> None]
        /\ \E order \in Orders(GfKept) :
             api' = api \o [i \in DOMAIN order |-> RestartCall(order[i])]
    BY <1>3 DEF HandleEngineUp, GfKept
  <2>2. GfMapTypes'
    BY <2>1 DEF GfMapTypes, GfEntry
  <2>3. PICK order \in Orders(GfKept) :
          api' = api \o [i \in DOMAIN order |-> RestartCall(order[i])]
    BY <2>1
  <2>4. IsFiniteSet(GfKept)
    BY FiniteAssumption, FS_Subset DEF GfKept
  <2>5. \A h \in GfKept : GfCallOK(RestartCall(h))
    <3> SUFFICES ASSUME NEW h \in GfKept PROVE GfCallOK(RestartCall(h))
      OBVIOUS
    <3>1. PICK f : f = fences[h]
      OBVIOUS
    <3>2. f.g \in Geofence /\ f.opt \in Option /\ f.paused \in BOOLEAN
      BY <1>0, <3>1, GfRecords DEF GfKept, GfMapTypes, GfEntry
    <3> QED BY <3>1, <3>2 DEF GfCallOK, RestartCall, Call, Operation
  <2>6. PICK call : call = [h \in GfKept |-> RestartCall(h)]
    OBVIOUS
  <2>7. call \in [GfKept -> GfQueued] /\ \A h \in GfKept : GfCallOK(call[h]) /\ call[h] = RestartCall(h)
    BY <2>5, <2>6 DEF GfQueued, GfCallOK
  <2>8. \A k \in DOMAIN order : order[k] \in GfKept
    BY <2>3, <2>4, GfOrder
  <2>10. GfApiTypes'
    BY <1>0, <2>3, <2>4, <2>7, <2>8, GfCallsQueued
  <2> QED BY <1>0, <1>1, <1>3, <2>1, <2>2, <2>10, GfPartsStay, GfPartsNext
<1> QED BY <1>2, <1>3

GfEnvironment ==
  \/ \E client \in Client : StopClientSessions(client)
  \/ \E suspend \in BOOLEAN : UpdateSystemPowerState(suspend)
  \/ ModemDown \/ ModemUp
  \/ \E h \in HwId : GeofenceBreachEvent(h)

LEMMA GfActions ==
  Next <=> \/ \E op \in Operation, gs \in Batches, opt \in Option : Issue(op, gs, opt)
           \/ GfEnvironment
           \/ ApiNext \/ HandleTurn \/ GfHandleReply \/ HandleEngineUp \/ HandleBreach
  BY DEF Next, Environment, MsgTaskNext, GfEnvironment, GfHandleReply

LEMMA GfTypedStep ==
  ASSUME GfTyped, [Next]_vars
  PROVE  GfTyped' /\ GfCmdsGo
<1>1. CASE HandleBreach
  BY <1>1, GfCmdsStay, GfTake, GfPartsStay, GfPartsNext DEF HandleBreach
<1>2. CASE UNCHANGED vars
  BY <1>2, GfCmdsStay, GfPartsStay, GfPartsNext DEF vars
<1> QED BY <1>1, <1>2, GfActions, GfIssueTyped, GfEnvironmentTyped, GfApiTyped, GfTurnTyped,
           GfReplyTyped, GfUpTyped DEF GfEnvironment

-----------------------------------------------------------------------------
(* Geofences: breaches *)

(* m tells that the modem has a geofence as h *)
GfGives(m, h) == m.kind = "reply" /\ m.ok /\ m.call.op = "add" /\ m.h = h

(* Once the first k messages of q are handled, an entry of h is one of g:  *)
(* the last of them that saves an entry of h saves g, or none does and     *)
(* the entry there is, if any, is of g                                     *)
GfIsOf(q, fs, h, g, k) ==
  /\ \A j \in 1..k : GfGives(q[j], h) =>
       q[j].call.g = g \/ \E l \in (j + 1)..k : GfGives(q[l], h)
  /\ (\A j \in 1..k : ~GfGives(q[j], h)) => fs[h] = None \/ fs[h].g = g

(* What the messages on their way leave of a hwId is what the modem has    *)
(* there, and what was breached                                            *)
GfBreaches ==
  /\ \A h \in HwId :
       engine[h] # None => GfIsOf(inbox, fences, h, engine[h].g, Len(inbox))
  /\ \A i \in DOMAIN inbox :
       inbox[i].kind = "breach" => GfIsOf(inbox, fences, inbox[i].h, inbox[i].g, i - 1)

LEMMA GfIsOfAppend ==
  ASSUME NEW T, NEW q \in Seq(T), NEW m \in T, NEW fs, NEW h, NEW g
  PROVE  /\ \A k \in 0..Len(q) :
              GfIsOf(q, fs, h, g, k) => GfIsOf(Append(q, m), fs, h, g, k)
         /\ ~GfGives(m, h) /\ GfIsOf(q, fs, h, g, Len(q)) =>
              GfIsOf(Append(q, m), fs, h, g, Len(q) + 1)
         /\ GfGives(m, h) /\ m.call.g = g => GfIsOf(Append(q, m), fs, h, g, Len(q) + 1)
<1> DEFINE p == Append(q, m)
           n == Len(q)
<1>1. n \in Nat /\ p[n + 1] = m /\ \A j \in 1..n : p[j] = q[j]
  OBVIOUS
<1> HIDE DEF p, n
<1>2. ASSUME NEW k \in 0..n, GfIsOf(q, fs, h, g, k)
      PROVE  GfIsOf(p, fs, h, g, k)
  BY <1>1, <1>2 DEF GfIsOf
<1>3. ASSUME ~GfGives(m, h), GfIsOf(q, fs, h, g, n)
      PROVE  GfIsOf(p, fs, h, g, n + 1)
  <2>1. ASSUME NEW j \in 1..(n + 1), GfGives(p[j], h)
        PROVE  p[j].call.g = g \/ \E l \in (j + 1)..(n + 1) : GfGives(p[l], h)
    BY <1>1, <1>3, <2>1 DEF GfIsOf
  <2>2. ASSUME \A j \in 1..(n + 1) : ~GfGives(p[j], h)
        PROVE  fs[h] = None \/ fs[h].g = g
    BY <1>1, <1>3, <2>2 DEF GfIsOf
  <2> QED BY <2>1, <2>2 DEF GfIsOf
<1>4. ASSUME GfGives(m, h), m.call.g = g
      PROVE  GfIsOf(p, fs, h, g, n + 1)
  <2>1. n + 1 \in 1..(n + 1) /\ GfGives(p[n + 1], h)
    BY <1>1, <1>4
  <2>2. ASSUME NEW j \in 1..(n + 1), GfGives(p[j], h)
        PROVE  p[j].call.g = g \/ \E l \in (j + 1)..(n + 1) : GfGives(p[l], h)
    BY <1>1, <1>4, <2>1
  <2> QED BY <2>1, <2>2 DEF GfIsOf
<1> QED BY <1>2, <1>3, <1>4 DEF p, n

LEMMA GfIsOfTail ==
  ASSUME NEW T, NEW q \in Seq(T), q # <<>>, NEW fs, NEW new, NEW h, NEW g,
         GfGives(q[1], h) => new[h].g = q[1].call.g,
         ~GfGives(q[1], h) => new[h] = None \/ (fs[h] # None /\ new[h].g = fs[h].g),
         NEW k \in 1..Len(q), GfIsOf(q, fs, h, g, k)
  PROVE  GfIsOf(Tail(q), new, h, g, k - 1)
<1> DEFINE p == Tail(q)
<1>1. Len(q) \in Nat /\ k \in Nat /\ k >= 1 /\ \A j \in 1..(k - 1) : p[j] = q[j + 1]
  OBVIOUS
<1> HIDE DEF p
<1>2. ASSUME NEW j \in 1..(k - 1), GfGives(p[j], h)
      PROVE  p[j].call.g = g \/ \E l \in (j + 1)..(k - 1) : GfGives(p[l], h)
  <2>1. p[j] = q[j + 1] /\ j + 1 \in 1..k
    BY <1>1
  <2>2. CASE q[j + 1].call.g # g
    <3>1. PICK l \in (j + 2)..k : GfGives(q[l], h)
      BY <1>2, <2>1, <2>2 DEF GfIsOf
    <3>2. l - 1 \in (j + 1)..(k - 1) /\ l - 1 \in 1..(k - 1) /\ (l - 1) + 1 = l
      BY <1>1, <3>1
    <3> QED BY <1>1, <3>1, <3>2
  <2> QED BY <2>1, <2>2
<1>3. ASSUME \A j \in 1..(k - 1) : ~GfGives(p[j], h)
      PROVE  new[h] = None \/ new[h].g = g
  <2>1. ASSUME NEW j \in 2..k PROVE ~GfGives(q[j], h)
    <3>1. j - 1 \in 1..(k - 1) /\ (j - 1) + 1 = j
      BY <1>1
    <3> QED BY <1>1, <1>3, <3>1
  <2>2. CASE GfGives(q[1], h)
    BY <1>1, <2>1, <2>2 DEF GfIsOf
  <2>3. CASE ~GfGives(q[1], h)
    <3>1. \A j \in 1..k : ~GfGives(q[j], h)
      <4> SUFFICES ASSUME NEW j \in 1..k PROVE ~GfGives(q[j], h)
        OBVIOUS
      <4> QED BY <1>1, <2>1, <2>3
    <3> QED BY <2>3, <3>1 DEF GfIsOf
  <2> QED BY <2>2, <2>3
<1> QED BY <1>2, <1>3 DEF GfIsOf, p

(* A message arrives *)
GfArrives(m) ==
  /\ inbox' = Append(inbox, m) /\ UNCHANGED fences
  /\ m.kind = "breach" => /\ m.h \in HwId /\ engine[m.h] # None /\ m.g = engine[m.h].g
  /\ \A h \in HwId : engine'[h] # None =>
       \/ GfGives(m, h) /\ m.call.g = engine'[h].g
       \/ ~GfGives(m, h) /\ engine[h] # None /\ engine'[h].g = engine[h].g

(* The head of the inbox is handled *)
GfHandled ==
  /\ inbox # <<>> /\ inbox' = Tail(inbox) /\ UNCHANGED engine
  /\ \A h \in HwId :
       /\ GfGives(Head(inbox), h) => fences'[h].g = Head(inbox).call.g
       /\ ~GfGives(Head(inbox), h) =>
            fences'[h] = None \/ (fences[h] # None /\ fences'[h].g = fences[h].g)

LEMMA GfBreachesArrive ==
  ASSUME GfTyped, GfTyped', GfBreaches, NEW m, GfArrives(m)
  PROVE  GfBreaches'
<1>1. inbox \in Seq(GfArrived) /\ inbox' = Append(inbox, m) /\ fences' = fences
      /\ inbox' \in Seq(GfArrived)
  BY GfTypesOfParts, GfTypesOfPartsNext DEF GfInboxTypes, GfArrives
<1>2. /\ m \in GfArrived /\ Len(inbox) \in Nat /\ Len(inbox') = Len(inbox) + 1
      /\ inbox'[Len(inbox) + 1] = m /\ DOMAIN inbox' = 1..(Len(inbox) + 1)
      /\ DOMAIN inbox = 1..Len(inbox)
      /\ \A i \in DOMAIN inbox : inbox'[i] = inbox[i]
  BY <1>1
<1>3. ASSUME NEW h \in HwId, engine'[h] # None
      PROVE  GfIsOf(inbox', fences', h, engine'[h].g, Len(inbox'))
  <2>1. CASE GfGives(m, h) /\ m.call.g = engine'[h].g
    BY <1>1, <1>2, <2>1, GfIsOfAppend
  <2>2. CASE ~GfGives(m, h) /\ engine[h] # None /\ engine'[h].g = engine[h].g
    BY <1>1, <1>2, <2>2, GfIsOfAppend DEF GfBreaches
  <2> QED BY <1>3, <2>1, <2>2 DEF GfArrives
<1>4. ASSUME NEW i \in DOMAIN inbox', inbox'[i].kind = "breach"
      PROVE  GfIsOf(inbox', fences', inbox'[i].h, inbox'[i].g, i - 1)
  <2>1. CASE i \in DOMAIN inbox
    <3>1. inbox'[i] = inbox[i] /\ i - 1 \in 0..Len(inbox)
      BY <1>2, <2>1
    <3> QED BY <1>1, <1>2, <1>4, <2>1, <3>1, GfIsOfAppend DEF GfBreaches
  <2>2. CASE i = Len(inbox) + 1
    BY <1>1, <1>2, <1>4, <2>2, GfIsOfAppend DEF GfBreaches, GfArrives
  <2> QED BY <1>2, <2>1, <2>2
<1> QED BY <1>3, <1>4 DEF GfBreaches

LEMMA GfBreachesHandled ==
  ASSUME GfTyped, GfBreaches, GfHandled
  PROVE  GfBreaches'
<1>1. inbox \in Seq(GfArrived) /\ inbox # <<>> /\ inbox' = Tail(inbox) /\ engine' = engine
  BY GfTypesOfParts DEF GfInboxTypes, GfHandled
<1>2. /\ Len(inbox) \in Nat \ {0} /\ Len(inbox') = Len(inbox) - 1 /\ Head(inbox) = inbox[1]
      /\ DOMAIN inbox' = 1..(Len(inbox) - 1) /\ DOMAIN inbox = 1..Len(inbox)
      /\ \A i \in DOMAIN inbox' : inbox'[i] = inbox[i + 1]
  BY <1>1
<1>3. ASSUME NEW h \in HwId
      PROVE  /\ GfGives(inbox[1], h) => fences'[h].g = inbox[1].call.g
             /\ ~GfGives(inbox[1], h) =>
                  fences'[h] = None \/ (fences[h] # None /\ fences'[h].g = fences[h].g)
  BY <1>2 DEF GfHandled
<1>4. ASSUME NEW h \in HwId, engine'[h] # None
      PROVE  GfIsOf(inbox', fences', h, engine'[h].g, Len(inbox'))
  BY <1>1, <1>2, <1>3, <1>4, GfIsOfTail DEF GfBreaches
<1>5. ASSUME NEW i \in DOMAIN inbox', inbox'[i].kind = "breach"
      PROVE  GfIsOf(inbox', fences', inbox'[i].h, inbox'[i].g, i - 1)
  <2>1. inbox'[i] = inbox[i + 1] /\ i + 1 \in DOMAIN inbox /\ i \in 1..Len(inbox) /\ (i + 1) - 1 = i
    BY <1>2
  <2>3. inbox'[i].h \in HwId
    BY <1>5, <2>1, GfTypesOfParts, GfRecords DEF GfInboxTypes, GfArrivedOK
  <2> QED BY <1>1, <1>3, <1>5, <2>1, <2>3, GfIsOfTail DEF GfBreaches
<1> QED BY <1>4, <1>5 DEF GfBreaches

LEMMA GfBreachesStay ==
  ASSUME GfBreaches, UNCHANGED <<fences, inbox>>,
         UNCHANGED engine \/ \A h \in HwId : engine'[h] = None
  PROVE  GfBreaches'
  BY DEF GfBreaches

(* Entries go, or stay those of their geofences *)
GfKeepsAt(h) == fences'[h] = None \/ (fences[h] # None /\ fences'[h].g = fences[h].g)
GfKeeps == \A h \in HwId : GfKeepsAt(h)

LEMMA GfKeepSteps ==
  ASSUME GfMapTypes
  PROVE  /\ UNCHANGED fences => GfKeeps
         /\ \A h \in HwId : fences' = [fences EXCEPT ![h] = None] => GfKeeps
         /\ \A h \in HwId : RemoveItem(h) => GfKeeps
         /\ \A h \in HwId, b \in BOOLEAN : SetPaused(h, b) => GfKeeps
         /\ \A h \in HwId, opt \in Option : ModifyItem(h, opt) => GfKeeps
         /\ \A g \in Geofence, h \in HwId, opt \in Option : Save(g, h, opt) =>
              /\ fences'[h].g = g /\ \A other \in HwId \ {h} : GfKeepsAt(other)
<1>1. UNCHANGED fences => GfKeeps
  BY DEF GfKeeps, GfKeepsAt
<1>2. ASSUME NEW h \in HwId, fences' = [fences EXCEPT ![h] = None]
      PROVE  GfKeeps
  BY <1>2 DEF GfMapTypes, GfKeeps, GfKeepsAt
<1>3. ASSUME NEW h \in HwId, RemoveItem(h)
      PROVE  GfKeeps
  BY <1>1, <1>2, <1>3 DEF RemoveItem, maps
<1>4. ASSUME NEW h \in HwId, NEW f \in Fence, f.g = fences[h].g, fences[h] # None,
             fences' = [fences EXCEPT ![h] = f]
      PROVE  GfKeeps
  BY <1>4 DEF GfMapTypes, GfKeeps, GfKeepsAt
<1>5. ASSUME NEW h \in HwId, NEW b \in BOOLEAN, SetPaused(h, b)
      PROVE  GfKeeps
  <2>1. CASE fences[h] # None
    BY <1>4, <1>5, <2>1, GfFences DEF GfMapTypes, GfEntry, SetPaused
  <2>2. CASE fences[h] = None
    BY <1>1, <1>5, <2>2 DEF SetPaused
  <2> QED BY <2>1, <2>2
<1>6. ASSUME NEW h \in HwId, NEW opt \in Option, ModifyItem(h, opt)
      PROVE  GfKeeps
  <2>1. CASE fences[h] # None
    BY <1>4, <1>6, <2>1, GfFences DEF GfMapTypes, GfEntry, ModifyItem
  <2>2. CASE fences[h] = None
    BY <1>1, <1>6, <2>2 DEF ModifyItem
  <2> QED BY <2>1, <2>2
<1>7. ASSUME NEW g \in Geofence, NEW h \in HwId, NEW opt \in Option, Save(g, h, opt)
      PROVE  fences'[h].g = g /\ \A other \in HwId \ {h} : GfKeepsAt(other)
  <2>1. PICK f : f = [g |-> g, opt |-> opt, paused |-> FALSE]
    OBVIOUS
  <2> QED BY <1>7, <2>1 DEF GfMapTypes, GfKeepsAt, Save
<1> QED BY <1>1, <1>2, <1>3, <1>5, <1>6, <1>7

LEMMA GfEnvironmentBreaches ==
  ASSUME GfTyped, GfTyped', GfBreaches, GfEnvironment
  PROVE  GfBreaches'
<1>1. CASE ModemUp
  BY <1>1, GfBreachesArrive DEF ModemUp, maps, EngineUp, GfGives, GfArrives
<1>2. ASSUME NEW h \in HwId, GeofenceBreachEvent(h)
      PROVE  GfBreaches'
  <2>1. PICK m : m = [kind |-> "breach", h |-> h, g |-> engine[h].g]
    OBVIOUS
  <2> QED BY <1>2, <2>1, GfBreachesArrive DEF GfArrives, GfGives, GeofenceBreachEvent, modem,
    maps
<1>3. CASE \/ \E client \in Client : StopClientSessions(client)
           \/ \E suspend \in BOOLEAN : UpdateSystemPowerState(suspend)
           \/ ModemDown
  BY <1>3, GfBreachesStay DEF StopClientSessions, UpdateSystemPowerState, ModemDown, maps, modem
<1> QED BY <1>1, <1>2, <1>3 DEF GfEnvironment

LEMMA GfApiBreaches ==
  ASSUME GfTyped, GfTyped', GfBreaches, ApiNext
  PROVE  GfBreaches'
<1>0. /\ GfModemTypes /\ api # <<>> /\ UNCHANGED <<fences, cmds>>
      /\ GfQueuedOK(Head(api))
  BY GfTypesOfParts, GfUnqueue DEF ApiNext, ApiTurn, ApiCall, ApiFail, maps
<1>1. PICK call : call = Head(api)
  OBVIOUS
<1>2. CASE ApiTurn
  BY <1>0, <1>1, <1>2, GfBreachesArrive DEF ApiTurn, modem, GfArrives, GfGives
<1>3. ASSUME NEW ok \in BOOLEAN, NEW h, Answer(ok, h),
             \A x \in HwId : engine'[x] # None =>
               \/ ok /\ call.op = "add" /\ x = h /\ call.g = engine'[x].g
               \/ ~(ok /\ call.op = "add" /\ x = h)
                  /\ engine[x] # None /\ engine'[x].g = engine[x].g
      PROVE  GfBreaches'
  <2>1. PICK m : m = [kind |-> "reply", call |-> call, ok |-> ok, h |-> h]
    OBVIOUS
  <2> QED BY <1>0, <1>1, <1>3, <2>1, GfBreachesArrive DEF GfArrives, GfGives, Answer
<1>4. CASE ApiFail
  BY <1>3, <1>4 DEF ApiFail, modem
<1>5. CASE ApiCall
  <2>2. CASE call.op = "add"
    <3>1. PICK new \in HwId :
            /\ engine' = [engine EXCEPT ![new] = [g |-> call.g, opt |-> call.opt, paused |-> FALSE]]
            /\ Answer(TRUE, new)
      BY <1>1, <1>5, <2>2 DEF ApiCall
    <3>2. PICK f : f = [g |-> call.g, opt |-> call.opt, paused |-> FALSE]
      OBVIOUS
    <3> QED BY <1>0, <1>3, <2>2, <3>1, <3>2 DEF GfModemTypes
  <2>3. CASE call.op # "add" /\ call.h \in HwId
    <3> DEFINE h == call.h
               e == engine[h]
               new == CASE call.op = "remove" -> None
                        [] call.op = "pause" -> [e EXCEPT !.paused = TRUE]
                        [] call.op = "resume" -> [e EXCEPT !.paused = FALSE]
                        [] call.op = "modify" -> [e EXCEPT !.opt = call.opt]
    <3>1. h \in HwId /\ e \in Fence
      BY <1>0, <1>1, <1>5, <2>3 DEF ApiCall, GfModemTypes, GfEntry
    <3>2. engine' = [engine EXCEPT ![h] = new] /\ Answer(TRUE, h)
      BY <1>1, <1>5, <2>3 DEF ApiCall
    <3>3. new = None \/ new.g = e.g
      <4>1. call.op = "remove" \/ call.op = "pause" \/ call.op = "resume" \/ call.op = "modify"
        BY <1>0, <1>1, <1>5, <2>3, GfRecords DEF ApiCall, GfQueuedOK, GfCallOK, Operation
      <4>2. call.op = "modify" => call.opt \in Option
        BY <1>0, <1>1, <1>5, GfRecords DEF ApiCall, GfQueuedOK, GfCallOK
      <4> HIDE DEF e
      <4> QED BY <3>1, <4>1, <4>2, GfFences
    <3>4. e # None
      BY <3>1, GfRecords
    <3> HIDE DEF h, new
    <3>5. \A x \in HwId : IF x = h THEN engine'[x] = new ELSE engine'[x] = engine[x]
      BY <1>0, <3>1, <3>2 DEF GfModemTypes
    <3> QED BY <1>3, <2>3, <3>2, <3>3, <3>4, <3>5
  <2> QED BY <1>0, <1>1, <1>5, <2>2, <2>3, GfRecords DEF ApiCall, GfQueuedOK, GfCallOK
<1> QED BY <1>2, <1>4, <1>5 DEF ApiNext

LEMMA GfHandledBreaches ==
  ASSUME GfTyped, GfBreaches, HandleTurn \/ GfHandleReply \/ HandleEngineUp \/ HandleBreach
  PROVE  GfBreaches'
<1>0. /\ GfMapTypes /\ inbox # <<>> /\ inbox' = Tail(inbox) /\ UNCHANGED engine
  <2>1. inbox # <<>> /\ inbox' = Tail(inbox) /\ UNCHANGED engine
    BY DEF HandleTurn, GfHandleReply, HandleEngineUp, HandleBreach, HandleClientReply,
           HandleGoneReply, HandlePowerReply, HandleRestartReply, TakeReply, modem
  <2> QED BY <2>1, GfTypesOfParts
<1>1. ASSUME GfKeeps, \A h \in HwId : ~GfGives(Head(inbox), h)
      PROVE  GfBreaches'
  BY <1>0, <1>1, GfBreachesHandled DEF GfHandled, GfKeeps, GfKeepsAt
<1>2. ASSUME Head(inbox).kind = "reply", Head(inbox).ok, Head(inbox).call.op = "add",
             Head(inbox).h \in HwId, Head(inbox).call.g \in Geofence,
             Head(inbox).call.opt \in Option,
             Save(Head(inbox).call.g, Head(inbox).h, Head(inbox).call.opt)
      PROVE  GfBreaches'
  BY <1>0, <1>2, GfKeepSteps, GfBreachesHandled DEF GfGives, GfHandled, GfKeepsAt
<1>3. CASE HandleTurn \/ HandleBreach
  BY <1>0, <1>1, <1>3, GfKeepSteps DEF HandleTurn, HandleBreach, maps, GfGives
<1>4. CASE HandleEngineUp
  <2>2. GfKeeps
    BY <1>4 DEF HandleEngineUp, maps, GfKeeps, GfKeepsAt
  <2> QED BY <1>1, <1>4, <2>2 DEF GfGives, HandleEngineUp, EngineUp
<1>5. CASE HandleClientReply
  <2>1. PICK call, ok, h : call = Head(inbox).call /\ ok = Head(inbox).ok /\ h = Head(inbox).h
    OBVIOUS
  <2>2. TakeReply({"client"}) /\ Head(inbox).kind = "reply"
    BY <1>5 DEF HandleClientReply, TakeReply
  <2>3. GfCallOK(call) /\ (ok => h \in HwId)
    BY <2>1, <2>2, GfReply
  <2>4. IF ok THEN Apply(call, h) ELSE UNCHANGED maps
    BY <1>5, <2>1 DEF HandleClientReply
  <2>5. /\ call.g \in Geofence /\ call.op # "add" => call.h \in HwId
        /\ call.op \in {"add", "modify"} => call.opt \in Option
    BY <2>3, GfRecords DEF GfCallOK
  <2>6. CASE ~ok
    BY <1>0, <1>1, <2>1, <2>4, <2>6, GfKeepSteps DEF maps, GfGives
  <2>7. CASE ok /\ call.op = "add"
    <3>1. Save(call.g, h, call.opt)
      BY <2>4, <2>7 DEF Apply
    <3>2. call.g \in Geofence
      BY <2>3, GfRecords DEF GfCallOK
    <3> QED BY <1>2, <2>1, <2>2, <2>3, <2>5, <2>7, <3>1, <3>2
  <2>8. CASE ok /\ call.op # "add"
    <3>2. GfKeeps
      BY <1>0, <2>3, <2>4, <2>5, <2>8, GfKeepSteps DEF Apply, GfCallOK
    <3> QED BY <1>1, <2>1, <2>8, <3>2 DEF GfGives
  <2> QED BY <2>6, <2>7, <2>8
<1>6. CASE HandleGoneReply
  BY <1>0, <1>1, <1>6, GfReply, GfKeepSteps DEF HandleGoneReply, GfCallOK, GfGives
<1>7. CASE HandlePowerReply
  <2>1. TakeReply({"power", "repause"})
        /\ (UNCHANGED fences \/ SetPaused(Head(inbox).call.h, Head(inbox).call.op = "pause"))
    BY <1>7 DEF HandlePowerReply, maps
  <2>3. Head(inbox).call.op \in {"pause", "resume"} /\ Head(inbox).call.h \in HwId
    BY <2>1, GfReply DEF GfCallOK
  <2> QED BY <1>0, <1>1, <2>1, <2>3, GfKeepSteps DEF GfGives
<1>8. CASE HandleRestartReply
  <2>4. CASE Head(inbox).ok
    BY <1>2, <1>8, <2>4, GfRecords, GfReply DEF HandleRestartReply, GfCallOK, TakeReply
  <2>5. CASE ~Head(inbox).ok
    BY <1>0, <1>1, <1>8, <2>5, GfKeepSteps DEF HandleRestartReply, maps, GfGives
  <2> QED BY <2>4, <2>5
<1> QED BY <1>3, <1>4, <1>5, <1>6, <1>7, <1>8 DEF GfHandleReply

LEMMA GfBreachesStep ==
  ASSUME GfTyped, GfTyped', GfBreaches, [Next]_vars
  PROVE  GfBreaches'
<1>1. CASE \E op \in Operation, gs \in Batches, opt \in Option : Issue(op, gs, opt)
  BY <1>1, GfBreachesStay DEF Issue, maps, modem
<1>2. CASE UNCHANGED vars
  BY <1>2, GfBreachesStay DEF vars, maps, modem
<1> QED BY <1>1, <1>2, GfActions, GfEnvironmentBreaches, GfApiBreaches, GfHandledBreaches

LEMMA GfBreachesInit == Init => GfBreaches
  BY DEF Init, GfBreaches

LEMMA GfBreachesReach ==
  ASSUME GfTyped, GfBreaches
  PROVE  BreachesReachTheirOwner
<1> SUFFICES ASSUME inbox # <<>>, Head(inbox).kind = "breach"
             PROVE  BreachedAs(Head(inbox).h) \subseteq {Head(inbox).g}
  BY DEF BreachesReachTheirOwner
<1> QED BY GfTake DEF BreachedAs, GfIsOf, GfBreaches

-----------------------------------------------------------------------------
(* Geofences: where the items of a command are                             *)
(*                                                                         *)
(* An item's turn waits in api (1), then in inbox (2); its call waits in   *)
(* api (3), the reply to it in inbox (4).  Each queue keeps its order, so  *)
(* no item of a command overtakes an earlier one.                          *)

GfTurnOf(m, c, i) == m.kind = "turn" /\ m.cmd = c /\ m.i = i
GfCallFor(m, c, i) == m.kind = "call" /\ m.why = "client" /\ m.cmd = c /\ m.i = i
GfReplyFor(m, c, i) == m.kind = "reply" /\ GfCallFor(m.call, c, i)

(* Item i of command c is the k-th of its queue, in stage s *)
GfIn(a, b, s, k, c, i) ==
  \/ s = 1 /\ k \in DOMAIN a /\ GfTurnOf(a[k], c, i)
  \/ s = 2 /\ k \in DOMAIN b /\ GfTurnOf(b[k], c, i)
  \/ s = 3 /\ k \in DOMAIN a /\ GfCallFor(a[k], c, i)
  \/ s = 4 /\ k \in DOMAIN b /\ GfReplyFor(b[k], c, i)

GfHas(a, b, c, i) == \E s \in 1..4, k \in Nat : GfIn(a, b, s, k, c, i)

GfBehind(s, k, t, l) == s < t \/ (s = t /\ k > l)

GfOrdered(a, b) ==
  \A s, t \in 1..4, k, l \in Nat, c, i, j \in Nat :
    i <= j /\ GfIn(a, b, s, k, c, i) /\ GfIn(a, b, t, l, c, j) => ~GfBehind(s, k, t, l)

LEMMA GfInOrder ==
  ASSUME NEW a, NEW b, GfOrdered(a, b), NEW s \in 1..4, NEW t \in 1..4, NEW k \in Nat, NEW l \in Nat,
         NEW c \in Nat, NEW i \in Nat, NEW j \in Nat,
         i <= j, GfIn(a, b, s, k, c, i), GfIn(a, b, t, l, c, j)
  PROVE  ~GfBehind(s, k, t, l)
  BY DEF GfOrdered

(* The places after a step come from places before it, in the same order *)
GfComesFrom(n, s, k, r, l) ==
  \/ s \in {1, 3} /\ r = s /\ l = k + 1
  \/ s \in {2, 4} /\ r = s /\ l = k /\ k <= n
  \/ s \in {2, 4} /\ r = s - 1 /\ l = 1 /\ k = n + 1

LEMMA GfMoves ==
  ASSUME NEW T, NEW a \in Seq(T), a # <<>>, NEW U, NEW b \in Seq(U), NEW m \in U,
         \A c, i : GfTurnOf(m, c, i) <=> GfTurnOf(a[1], c, i),
         \A c, i : GfReplyFor(m, c, i) <=> GfCallFor(a[1], c, i)
  PROVE  /\ GfOrdered(a, b) => GfOrdered(Tail(a), Append(b, m))
         /\ \A c, i : GfHas(Tail(a), Append(b, m), c, i) <=> GfHas(a, b, c, i)
<1> DEFINE n == Len(b)
           p == Tail(a)
           q == Append(b, m)
<1>1. /\ n \in Nat /\ Len(a) \in Nat \ {0}
      /\ DOMAIN a = 1..Len(a) /\ DOMAIN b = 1..n
      /\ DOMAIN p = 1..(Len(a) - 1) /\ \A k \in DOMAIN p : p[k] = a[k + 1]
      /\ DOMAIN q = 1..(n + 1) /\ q[n + 1] = m /\ \A k \in 1..n : q[k] = b[k]
  OBVIOUS
<1> HIDE DEF n, p, q
<1>2. ASSUME NEW s \in 1..4, NEW k, NEW c, NEW i, GfIn(p, q, s, k, c, i)
      PROVE  k \in Nat \ {0} /\ \E r \in 1..4, l \in Nat :
               GfIn(a, b, r, l, c, i) /\ GfComesFrom(n, s, k, r, l)
  <2>1. CASE s \in {1, 3}
    <3>1. k \in DOMAIN p
      BY <1>2, <2>1 DEF GfIn
    <3>2. k \in Nat \ {0} /\ k + 1 \in Nat /\ k + 1 \in DOMAIN a /\ p[k] = a[k + 1]
      BY <1>1, <3>1
    <3>3. GfIn(a, b, s, k + 1, c, i)
      BY <1>2, <2>1, <3>2 DEF GfIn
    <3> QED BY <2>1, <3>2, <3>3 DEF GfComesFrom
  <2>2. CASE s \in {2, 4} /\ k \in 1..n
    BY <1>1, <1>2, <2>2 DEF GfIn, GfComesFrom
  <2>3. CASE s \in {2, 4} /\ k = n + 1
    BY <1>1, <1>2, <2>3 DEF GfIn, GfComesFrom
  <2> QED BY <1>1, <1>2, <2>1, <2>2, <2>3 DEF GfIn
<1>3. ASSUME NEW s \in 1..4, NEW k \in Nat, NEW c, NEW i, GfIn(a, b, s, k, c, i)
      PROVE  \E r \in 1..4, l \in Nat : GfIn(p, q, r, l, c, i)
  <2>1. CASE s \in {1, 3} /\ k # 1
    <3>1. k \in 1..Len(a) /\ k # 1
      BY <1>1, <1>3, <2>1 DEF GfIn
    <3>2. PICK l \in Nat : l \in DOMAIN p /\ l + 1 = k
      BY <1>1, <3>1
    <3>3. p[l] = a[k]
      BY <1>1, <3>2
    <3>4. GfIn(p, q, s, l, c, i)
      BY <1>3, <2>1, <3>2, <3>3 DEF GfIn
    <3> QED BY <3>2, <3>4
  <2>2. CASE s \in {1, 3} /\ k = 1
    BY <1>1, <1>3, <2>2 DEF GfIn
  <2>3. CASE s \in {2, 4}
    BY <1>1, <1>3, <2>3 DEF GfIn
  <2> QED BY <2>1, <2>2, <2>3
<1>4. ASSUME GfOrdered(a, b),
             NEW s \in 1..4, NEW t \in 1..4, NEW k \in Nat, NEW l \in Nat,
             NEW c \in Nat, NEW i \in Nat, NEW j \in Nat,
             i <= j, GfIn(p, q, s, k, c, i), GfIn(p, q, t, l, c, j)
      PROVE  ~GfBehind(s, k, t, l)
  <2>1. PICK s0 \in 1..4, k0 \in Nat : GfIn(a, b, s0, k0, c, i) /\ GfComesFrom(n, s, k, s0, k0)
    BY <1>2, <1>4
  <2>2. PICK t0 \in 1..4, l0 \in Nat : GfIn(a, b, t0, l0, c, j) /\ GfComesFrom(n, t, l, t0, l0)
    BY <1>2, <1>4
  <2>3. k \in Nat \ {0} /\ l \in Nat \ {0}
    BY <1>2, <1>4
  <2>4. ~GfBehind(s0, k0, t0, l0)
    BY <1>4, <2>1, <2>2, GfInOrder
  <2>5. ASSUME s < t PROVE GfBehind(s0, k0, t0, l0)
    <3>1. s0 <= s /\ t <= t0 + 1 /\ (t0 < t => t \in {2, 4} /\ l0 = 1)
      BY <2>1, <2>2 DEF GfComesFrom
    <3>2. CASE s0 < t0
      BY <3>2 DEF GfBehind
    <3>3. CASE ~(s0 < t0)
      <4>1. s0 = s /\ t0 = s /\ t = s + 1
        BY <2>5, <3>1, <3>3
      <4>4. t \in {2, 4} /\ l0 = 1
        BY <3>1, <4>1
      <4>2. s \in {1, 3} /\ l0 = 1
        BY <4>1, <4>4
      <4>3. k0 = k + 1
        BY <2>1, <4>2 DEF GfComesFrom
      <4> QED BY <2>3, <4>1, <4>2, <4>3 DEF GfBehind
    <3> QED BY <3>2, <3>3
  <2>6. ASSUME s = t, k > l PROVE GfBehind(s0, k0, t0, l0)
    <3>1. CASE s \in {1, 3}
      BY <2>1, <2>2, <2>6, <3>1 DEF GfComesFrom, GfBehind
    <3>2. CASE s \in {2, 4}
      <4>2. CASE s0 = s
        <5>1. k0 = k /\ k <= n
          BY <2>1, <3>2, <4>2 DEF GfComesFrom
        <5>2. l0 = l /\ t0 = t
          BY <1>1, <2>2, <2>6, <3>2, <5>1 DEF GfComesFrom
        <5> QED BY <2>6, <4>2, <5>1, <5>2 DEF GfBehind
      <4>3. CASE s0 # s
        <5>1. s0 = s - 1 /\ k0 = 1 /\ k = n + 1
          BY <2>1, <3>2, <4>3 DEF GfComesFrom
        <5>2. l0 = l /\ t0 = t /\ l <= n
          BY <1>1, <2>2, <2>6, <3>2, <5>1 DEF GfComesFrom
        <5> QED BY <2>6, <5>1, <5>2 DEF GfBehind
      <4> QED BY <4>2, <4>3
    <3> QED BY <3>1, <3>2
  <2> QED BY <2>4, <2>5, <2>6 DEF GfBehind
<1>5. GfOrdered(a, b) => GfOrdered(p, q)
  BY <1>4 DEF GfOrdered
<1> QED BY <1>2, <1>3, <1>5 DEF p, q, GfHas

(* The head of the inbox is handled; a turn's call may join api *)
GfFollows(n, s, k, r, l) ==
  \/ s \in {1, 3} /\ r = s /\ l = k /\ k <= n
  \/ s \in {2, 4} /\ r = s /\ l = k + 1
  \/ s = 3 /\ r = 2 /\ l = 1 /\ k = n + 1

(* f: what joins api *)
GfTakeable(f, b) ==
  /\ \A j \in DOMAIN f : \A c, i : ~GfTurnOf(f[j], c, i)
  /\ \/ \A j \in DOMAIN f : \A c, i : ~GfCallFor(f[j], c, i)
     \/ Len(f) = 1 /\ \A c, i : GfCallFor(f[1], c, i) => GfTurnOf(b[1], c, i)

GfTaken(a, f, b) ==
  /\ GfOrdered(a, b) => GfOrdered(a \o f, Tail(b))
  /\ \A c, i : GfHas(a \o f, Tail(b), c, i) =>
       \E s \in 1..4, k \in Nat :
         /\ GfIn(a, b, s, k, c, i)
         /\ \/ ~(s \in {2, 4} /\ k = 1)
            \/ Len(f) = 1 /\ GfCallFor(f[1], c, i)
  /\ \A c, i : GfHas(a, b, c, i) =>
       \/ GfHas(a \o f, Tail(b), c, i)
       \/ GfTurnOf(b[1], c, i) \/ GfReplyFor(b[1], c, i)
  /\ \A c, i : Len(f) = 1 /\ GfCallFor(f[1], c, i) => GfHas(a \o f, Tail(b), c, i)

LEMMA GfTakes ==
  ASSUME NEW T, NEW a \in Seq(T), NEW f \in Seq(T), NEW U, NEW b \in Seq(U), b # <<>>,
         GfTakeable(f, b)
  PROVE  GfTaken(a, f, b)
<1>0. /\ \A j \in DOMAIN f : \A c, i : ~GfTurnOf(f[j], c, i)
      /\ \/ \A j \in DOMAIN f : \A c, i : ~GfCallFor(f[j], c, i)
         \/ Len(f) = 1 /\ \A c, i : GfCallFor(f[1], c, i) => GfTurnOf(b[1], c, i)
  BY DEF GfTakeable
<1> DEFINE n == Len(a)
           p == a \o f
           q == Tail(b)
<1>1. /\ n \in Nat /\ Len(b) \in Nat \ {0} /\ Len(f) \in Nat
      /\ DOMAIN a = 1..n /\ DOMAIN b = 1..Len(b) /\ DOMAIN f = 1..Len(f)
      /\ DOMAIN q = 1..(Len(b) - 1) /\ \A k \in DOMAIN q : q[k] = b[k + 1]
      /\ DOMAIN p = 1..(n + Len(f)) /\ \A k \in 1..n : p[k] = a[k]
      /\ \A j \in DOMAIN f : p[n + j] = f[j]
  OBVIOUS
<1> HIDE DEF n, p, q
<1>2. ASSUME NEW s \in 1..4, NEW k, NEW c, NEW i, GfIn(p, q, s, k, c, i)
      PROVE  k \in Nat \ {0} /\ \E r \in 1..4, l \in Nat :
               /\ GfIn(a, b, r, l, c, i) /\ GfFollows(n, s, k, r, l)
               /\ ~(r \in {2, 4} /\ l = 1) \/ (Len(f) = 1 /\ GfCallFor(f[1], c, i))
  <2>1. CASE s \in {1, 3} /\ k \in 1..n
    BY <1>1, <1>2, <2>1 DEF GfIn, GfFollows
  <2>2. CASE s \in {1, 3} /\ k \notin 1..n
    <3>2. k - n \in DOMAIN f /\ k = n + (k - n)
      BY <1>1, <1>2, <2>2 DEF GfIn
    <3>4. s = 3 /\ GfCallFor(f[k - n], c, i)
      BY <1>0, <1>1, <1>2, <2>2, <3>2 DEF GfIn
    <3> QED BY <1>0, <1>1, <3>2, <3>4 DEF GfFollows, GfIn
  <2>3. CASE s \in {2, 4}
    <3>2. GfIn(a, b, s, k + 1, c, i) /\ k \in Nat \ {0} /\ k + 1 \in Nat /\ k + 1 # 1
      BY <1>1, <1>2, <2>3 DEF GfIn
    <3> QED BY <2>3, <3>2 DEF GfFollows
  <2> QED BY <2>1, <2>2, <2>3
<1>3. ASSUME NEW s \in 1..4, NEW k \in Nat, NEW c, NEW i, GfIn(a, b, s, k, c, i),
             ~(s \in {2, 4} /\ k = 1)
      PROVE  \E r \in 1..4, l \in Nat : GfIn(p, q, r, l, c, i)
  <2>1. CASE s \in {1, 3}
    BY <1>1, <1>3, <2>1 DEF GfIn
  <2>2. CASE s \in {2, 4}
    <3>1. k - 1 \in DOMAIN q /\ (k - 1) + 1 = k /\ k - 1 \in Nat
      BY <1>1, <1>3, <2>2 DEF GfIn
    <3>2. q[k - 1] = b[k]
      BY <1>1, <3>1
    <3> QED BY <1>3, <2>2, <3>1, <3>2 DEF GfIn
  <2> QED BY <2>1, <2>2
<1>4. ASSUME GfOrdered(a, b),
             NEW s \in 1..4, NEW t \in 1..4, NEW k \in Nat, NEW l \in Nat,
             NEW c \in Nat, NEW i \in Nat, NEW j \in Nat,
             i <= j, GfIn(p, q, s, k, c, i), GfIn(p, q, t, l, c, j)
      PROVE  ~GfBehind(s, k, t, l)
  <2>1. PICK s0 \in 1..4, k0 \in Nat : GfIn(a, b, s0, k0, c, i) /\ GfFollows(n, s, k, s0, k0)
    BY <1>2, <1>4
  <2>2. PICK t0 \in 1..4, l0 \in Nat : GfIn(a, b, t0, l0, c, j) /\ GfFollows(n, t, l, t0, l0)
    BY <1>2, <1>4
  <2>3. k \in Nat \ {0} /\ l \in Nat \ {0}
    BY <1>2, <1>4
  <2>4. ~GfBehind(s0, k0, t0, l0)
    BY <1>4, <2>1, <2>2 DEF GfOrdered
  <2>5. s < t => GfBehind(s0, k0, t0, l0)
    BY <1>1, <2>1, <2>2, <2>3 DEF GfFollows, GfBehind
  <2> QED BY <1>1, <2>1, <2>2, <2>3, <2>4, <2>5 DEF GfBehind, GfFollows
<1>6. ASSUME NEW c, NEW i, GfHas(a, b, c, i)
      PROVE  GfHas(p, q, c, i) \/ GfTurnOf(b[1], c, i) \/ GfReplyFor(b[1], c, i)
  <2>1. PICK s \in 1..4, k \in Nat : GfIn(a, b, s, k, c, i)
    BY <1>6 DEF GfHas
  <2>2. CASE s \in {2, 4} /\ k = 1
    BY <2>1, <2>2 DEF GfIn
  <2>3. CASE ~(s \in {2, 4} /\ k = 1)
    BY <1>3, <2>1, <2>3 DEF GfHas
  <2> QED BY <2>2, <2>3
<1>7. ASSUME NEW c, NEW i, GfHas(p, q, c, i)
      PROVE  \E s \in 1..4, k \in Nat :
               /\ GfIn(a, b, s, k, c, i)
               /\ ~(s \in {2, 4} /\ k = 1) \/ (Len(f) = 1 /\ GfCallFor(f[1], c, i))
  BY <1>2, <1>7 DEF GfHas
<1>8. ASSUME NEW c, NEW i, Len(f) = 1, GfCallFor(f[1], c, i)
      PROVE  GfHas(p, q, c, i)
  BY <1>1, <1>8 DEF GfIn, GfHas
<1> QED BY <1>4, <1>6, <1>7, <1>8 DEF p, q, GfTaken, GfOrdered

(* A command's turns join api, or calls nobody waits for *)
GfJoinable(a, f, b, d) ==
  /\ \A i : ~GfHas(a, b, d, i)
  /\ \A j \in DOMAIN f : \A c, i : /\ ~GfCallFor(f[j], c, i)
                                   /\ GfTurnOf(f[j], c, i) => c = d /\ i = j

GfJoined(a, f, b) ==
  /\ GfOrdered(a, b) => GfOrdered(a \o f, b)
  /\ \A c, i : GfHas(a \o f, b, c, i) <=>
       GfHas(a, b, c, i) \/ \E j \in DOMAIN f : GfTurnOf(f[j], c, i)

LEMMA GfJoins ==
  ASSUME NEW T, NEW a \in Seq(T), NEW f \in Seq(T), NEW U, NEW b \in Seq(U), NEW d \in Nat,
         GfJoinable(a, f, b, d)
  PROVE  GfJoined(a, f, b)
<1> DEFINE n == Len(a)
           p == a \o f
<1>0. /\ \A i : ~GfHas(a, b, d, i)
      /\ \A j \in DOMAIN f : \A c, i : /\ ~GfCallFor(f[j], c, i)
                                       /\ GfTurnOf(f[j], c, i) => c = d /\ i = j
  BY DEF GfJoinable
<1>1. /\ n \in Nat /\ Len(f) \in Nat
      /\ DOMAIN a = 1..n /\ DOMAIN b = 1..Len(b) /\ DOMAIN f = 1..Len(f) /\ Len(b) \in Nat
      /\ DOMAIN p = 1..(n + Len(f)) /\ \A k \in 1..n : p[k] = a[k]
      /\ \A j \in DOMAIN f : p[n + j] = f[j]
  OBVIOUS
<1> HIDE DEF n, p
<1>2. ASSUME NEW s \in 1..4, NEW k, NEW c, NEW i, GfIn(p, b, s, k, c, i)
      PROVE  /\ k \in Nat
             /\ \/ GfIn(a, b, s, k, c, i)
                \/ s = 1 /\ k - n \in DOMAIN f /\ GfTurnOf(f[k - n], c, i) /\ c = d /\ i = k - n
  <2>1. CASE s \in {1, 3} /\ k \in 1..n
    BY <1>0, <1>1, <1>2, <2>1 DEF GfIn
  <2>2. CASE s \in {1, 3} /\ k \notin 1..n
    <3>1. k \in DOMAIN p
      BY <1>2, <2>2 DEF GfIn
    <3>2. k - n \in DOMAIN f /\ k = n + (k - n) /\ k \in Nat
      BY <1>1, <2>2, <3>1
    <3>3. p[k] = f[k - n]
      BY <1>1, <3>2
    <3>4. CASE s = 1
      <4>1. GfTurnOf(f[k - n], c, i)
        BY <1>2, <3>3, <3>4 DEF GfIn
      <4> QED BY <1>0, <3>2, <3>4, <4>1
    <3>5. CASE s = 3
      BY <1>0, <1>2, <3>2, <3>3, <3>5 DEF GfIn
    <3> QED BY <2>2, <3>4, <3>5
  <2>3. CASE s \in {2, 4}
    BY <1>1, <1>2, <2>3 DEF GfIn
  <2> QED BY <2>1, <2>2, <2>3
<1>3. ASSUME NEW s \in 1..4, NEW k \in Nat, NEW c, NEW i, GfIn(a, b, s, k, c, i)
      PROVE  GfIn(p, b, s, k, c, i)
  BY <1>1, <1>3 DEF GfIn
<1>4. ASSUME NEW j \in DOMAIN f, NEW c, NEW i, GfTurnOf(f[j], c, i)
      PROVE  GfHas(p, b, c, i)
  BY <1>1, <1>4 DEF GfIn, GfHas
<1>5. ASSUME GfOrdered(a, b),
             NEW s \in 1..4, NEW t \in 1..4, NEW k \in Nat, NEW l \in Nat,
             NEW c \in Nat, NEW i \in Nat, NEW j \in Nat,
             i <= j, GfIn(p, b, s, k, c, i), GfIn(p, b, t, l, c, j)
      PROVE  ~GfBehind(s, k, t, l)
  <2>1. CASE c = d
    <3>1. ~GfIn(a, b, s, k, c, i) /\ ~GfIn(a, b, t, l, c, j)
      BY <1>0, <1>5, <2>1 DEF GfHas
    <3>2. s = 1 /\ i = k - n /\ t = 1 /\ j = l - n
      BY <1>2, <1>5, <3>1
    <3> QED BY <1>1, <1>5, <3>2 DEF GfBehind
  <2>2. CASE c # d
    <3>1. GfIn(a, b, s, k, c, i)
      BY <1>2, <1>5, <2>2
    <3>2. GfIn(a, b, t, l, c, j)
      BY <1>2, <1>5, <2>2
    <3> QED BY <1>5, <3>1, <3>2, GfInOrder
  <2> QED BY <2>1, <2>2
<1>6. GfOrdered(a, b) => GfOrdered(p, b)
  BY <1>5 DEF GfOrdered
<1> QED BY <1>2, <1>3, <1>4, <1>6 DEF p, GfJoined, GfHas

(* A message that is no item's arrives *)
LEMMA GfOthers ==
  ASSUME NEW T, NEW a \in Seq(T), NEW U, NEW b \in Seq(U), NEW m \in U,
         \A c, i : ~GfTurnOf(m, c, i) /\ ~GfReplyFor(m, c, i)
  PROVE  /\ GfOrdered(a, b) => GfOrdered(a, Append(b, m))
         /\ \A c, i : GfHas(a, Append(b, m), c, i) <=> GfHas(a, b, c, i)
<1> DEFINE q == Append(b, m)
<1>1. /\ Len(b) \in Nat /\ DOMAIN b = 1..Len(b)
      /\ DOMAIN q = 1..(Len(b) + 1) /\ q[Len(b) + 1] = m /\ \A k \in 1..Len(b) : q[k] = b[k]
  OBVIOUS
<1> HIDE DEF q
<1>2. \A s \in 1..4, k \in Nat : \A c, i : GfIn(a, q, s, k, c, i) <=> GfIn(a, b, s, k, c, i)
  <2> SUFFICES ASSUME NEW s \in 1..4, NEW k \in Nat, NEW c, NEW i
               PROVE  GfIn(a, q, s, k, c, i) <=> GfIn(a, b, s, k, c, i)
    OBVIOUS
  <2> QED BY <1>1 DEF GfIn
<1>3. GfOrdered(a, b) => GfOrdered(a, q)
  <2> SUFFICES ASSUME GfOrdered(a, b),
                      NEW s \in 1..4, NEW t \in 1..4, NEW k \in Nat, NEW l \in Nat,
                      NEW c \in Nat, NEW i \in Nat, NEW j \in Nat,
                      i <= j, GfIn(a, q, s, k, c, i), GfIn(a, q, t, l, c, j)
               PROVE  ~GfBehind(s, k, t, l)
    BY DEF GfOrdered
  <2> QED BY <1>2, GfInOrder
<1>4. \A c, i : GfHas(a, q, c, i) <=> GfHas(a, b, c, i)
  BY <1>2 DEF GfHas
<1> QED BY <1>3, <1>4 DEF q

(* An item without an answer is on its way, and only then *)
GfPending(c, i) == GfNames(c, i) /\ cmds[c].results[i] = "pending"

GfItems ==
  /\ GfOrdered(api, inbox)
  /\ \A c, i \in Nat : GfHas(api, inbox, c, i) <=> GfPending(c, i)

(* A command is answered with its last item, unless that is a resume which *)
(* failed.  The others are done by then, if it was not for want of an      *)
(* hwId; and what is told of them is what became of them.                  *)
GfAnswered(cmd) ==
  LET n == Len(cmd.gs) IN
  /\ cmd.answers = IF cmd.results[n] = "pending"
                        \/ (cmd.op = "resume" /\ cmd.results[n] = "failure") THEN 0 ELSE 1
  /\ cmd.results[n] \notin {"pending", "unknown"} =>
       \A i \in DOMAIN cmd.gs : cmd.results[i] # "pending"
  /\ cmd.op \in {"add", "remove", "pause"} /\ cmd.results[n] # "unknown" =>
       \A i \in DOMAIN cmd.gs : cmd.results[i] # "pending" => cmd.errs[i] = cmd.results[i]

GfAnswers == \A c \in DOMAIN cmds : GfAnswered(cmds[c])

LEMMA GfQueueTypes ==
  ASSUME GfTyped
  PROVE  /\ api \in Seq(GfQueued) /\ inbox \in Seq(GfArrived) /\ cmds \in Seq(Command)
         /\ \A k \in DOMAIN api : GfQueuedOK(api[k])
         /\ \A k \in DOMAIN inbox : GfArrivedOK(inbox[k])
         /\ GfCommandsOK /\ TypeOK
  BY GfTypesOfParts DEF GfApiTypes, GfInboxTypes, GfTyped

LEMMA GfNamesNat ==
  ASSUME GfTyped, NEW c, NEW i, GfNames(c, i)
  PROVE  c \in Nat /\ i \in Nat /\ cmds[c] \in Command /\ cmds[c].gs \in Seq(Geofence)
<1>1. cmds \in Seq(Command) /\ c \in DOMAIN cmds /\ i \in DOMAIN cmds[c].gs
  BY GfQueueTypes DEF GfNames
<1>2. cmds[c] \in Command /\ c \in Nat
  BY <1>1
<1>3. cmds[c].gs \in Seq(Geofence)
  BY <1>2 DEF Command
<1> QED BY <1>1, <1>2, <1>3

LEMMA GfHasNames ==
  ASSUME GfTyped, NEW c, NEW i, GfHas(api, inbox, c, i)
  PROVE  GfNames(c, i)
<1>1. PICK s \in 1..4, k \in Nat : GfIn(api, inbox, s, k, c, i)
  BY DEF GfHas
<1>2. CASE s = 1
  BY <1>1, <1>2, GfQueueTypes, GfRecords DEF GfIn, GfTurnOf, GfQueuedOK, GfCallOK
<1>3. CASE s = 2
  BY <1>1, <1>3, GfQueueTypes, GfRecords DEF GfIn, GfTurnOf, GfArrivedOK
<1>4. CASE s = 3
  BY <1>1, <1>4, GfQueueTypes, GfRecords DEF GfIn, GfCallFor, GfQueuedOK, GfCallOK
<1>5. CASE s = 4
  BY <1>1, <1>5, GfQueueTypes, GfRecords DEF GfIn, GfReplyFor, GfCallFor, GfArrivedOK, GfCallOK
<1> QED BY <1>1, <1>2, <1>3, <1>4, <1>5

(* Items where nothing was recorded *)
LEMMA GfItemsSame ==
  ASSUME GfItems, UNCHANGED cmds,
         GfOrdered(api, inbox) => GfOrdered(api', inbox'),
         \A c, i \in Nat : GfHas(api', inbox', c, i) <=> GfHas(api, inbox, c, i)
  PROVE  GfItems'
  BY DEF GfPending, GfNames, GfItems

(* An item's results *)
LEMMA GfPendingRecord ==
  ASSUME GfTyped, NEW c \in DOMAIN cmds, NEW i \in DOMAIN cmds[c].gs,
         NEW err \in Err, NEW result \in Result, NEW answer \in BOOLEAN,
         Record(c, i, err, result, answer), GfPending(c, i)
  PROVE  \A d, j : GfPending(d, j)' <=>
           GfPending(d, j) /\ (d # c \/ j # i \/ result = "pending")
<1>0. TypeOK /\ GfCommandsOK /\ cmds \in Seq(Command)
  BY GfQueueTypes
<1>1. /\ GfCmdsGo /\ Len(cmds') = Len(cmds)
      /\ \A d \in DOMAIN cmds : d # c => cmds'[d] = cmds[d]
      /\ cmds'[c].errs = IF cmds[c].answers > 0 THEN cmds[c].errs
                         ELSE [cmds[c].errs EXCEPT ![i] = err]
      /\ cmds'[c].results = [cmds[c].results EXCEPT ![i] = result]
      /\ cmds'[c].answers = IF answer THEN cmds[c].answers + 1 ELSE cmds[c].answers
  BY <1>0, GfRecordFacts
<1>3. \A d, j : GfNames(d, j)' <=> GfNames(d, j)
  BY <1>0, <1>1 DEF GfNames, GfCmdsGo
<1> SUFFICES ASSUME NEW d, NEW j
             PROVE  GfPending(d, j)' <=>
                      GfPending(d, j) /\ (d # c \/ j # i \/ result = "pending")
  OBVIOUS
<1>6. CASE GfNames(d, j) /\ d = c
  BY <1>0, <1>1, <1>3, <1>6 DEF GfPending, GfNames, GfCommandsOK
<1>7. CASE GfNames(d, j) /\ d # c
  BY <1>1, <1>3, <1>7 DEF GfPending, GfNames
<1>8. CASE ~GfNames(d, j)
  BY <1>3, <1>8 DEF GfPending
<1> QED BY <1>6, <1>7, <1>8

LEMMA GfAnswersRecord ==
  ASSUME GfTyped, GfAnswers, NEW c \in DOMAIN cmds, NEW i \in DOMAIN cmds[c].gs,
         NEW err \in Err, NEW result \in Result, NEW answer \in BOOLEAN,
         Record(c, i, err, result, answer), GfPending(c, i),
         cmds[c].op \in {"add", "remove", "pause"} /\ result # "pending" => err = result,
         answer <=> /\ IsLast(c, i) /\ result # "pending"
                    /\ ~(cmds[c].op = "resume" /\ result = "failure"),
         IsLast(c, i) /\ result \notin {"pending", "unknown"} =>
           \A j \in DOMAIN cmds[c].gs : j # i => ~GfPending(c, j)
  PROVE  GfAnswers'
<1>0. TypeOK /\ GfCommandsOK /\ cmds \in Seq(Command)
  BY GfQueueTypes
<1>1. /\ GfCmdsGo /\ Len(cmds') = Len(cmds)
      /\ \A d \in DOMAIN cmds : d # c => cmds'[d] = cmds[d]
      /\ cmds'[c].errs = IF cmds[c].answers > 0 THEN cmds[c].errs
                         ELSE [cmds[c].errs EXCEPT ![i] = err]
      /\ cmds'[c].results = [cmds[c].results EXCEPT ![i] = result]
      /\ cmds'[c].answers = IF answer THEN cmds[c].answers + 1 ELSE cmds[c].answers
  BY <1>0, GfRecordFacts
<1>2. /\ DOMAIN cmds' = DOMAIN cmds /\ cmds'[c].gs = cmds[c].gs /\ cmds'[c].op = cmds[c].op
      /\ DOMAIN cmds[c].results = DOMAIN cmds[c].gs /\ DOMAIN cmds[c].errs = DOMAIN cmds[c].gs
      /\ GfAnswered(cmds[c])
  BY <1>0, <1>1 DEF GfCmdsGo, GfCommandsOK, GfAnswers
<1> DEFINE gs == cmds[c].gs
           n == Len(gs)
           op == cmds[c].op
           results == cmds[c].results
           errs == cmds[c].errs
           answers == cmds[c].answers
           new == cmds'[c].results
           told == cmds'[c].errs
           sent == cmds'[c].answers
<1>3. cmds[c] \in Command /\ gs \in Seq(Geofence) /\ gs # <<>>
  <2>1. cmds[c] \in Command /\ gs # <<>>
    BY <1>0 DEF GfCommandsOK
  <2> QED BY <2>1 DEF Command
<1>4. n \in DOMAIN gs
  BY <1>3
<1>5. /\ \A j \in DOMAIN gs : new[j] = IF j = i THEN result ELSE results[j]
      /\ \A j \in DOMAIN gs : told[j] = IF j = i /\ ~(answers > 0) THEN err ELSE errs[j]
      /\ sent = IF answer THEN answers + 1 ELSE answers
      /\ results[i] = "pending" /\ IsLast(c, i) = (i = n)
  BY <1>1, <1>2 DEF GfPending, IsLast
<1>6. /\ answers = IF results[n] = "pending" \/ (op = "resume" /\ results[n] = "failure")
                   THEN 0 ELSE 1
      /\ results[n] \notin {"pending", "unknown"} => \A j \in DOMAIN gs : results[j] # "pending"
      /\ op \in {"add", "remove", "pause"} /\ results[n] # "unknown" =>
           \A j \in DOMAIN gs : results[j] # "pending" => errs[j] = results[j]
  BY <1>2 DEF GfAnswered
<1>7. \A j \in DOMAIN gs : i = n /\ result \notin {"pending", "unknown"} /\ j # i =>
        results[j] # "pending"
  BY <1>5 DEF GfPending, GfNames
<1>8. answer <=> i = n /\ result # "pending" /\ ~(op = "resume" /\ result = "failure")
  BY <1>5
<1>9. op \in {"add", "remove", "pause"} /\ result # "pending" => err = result
  OBVIOUS
<1> HIDE DEF gs, n, op, results, errs, answers, new, told, sent
<1>10. sent = IF new[n] = "pending" \/ (op = "resume" /\ new[n] = "failure") THEN 0 ELSE 1
  <2>1. CASE i = n
    BY <1>4, <1>5, <1>6, <1>8, <2>1
  <2>2. CASE i # n
    BY <1>4, <1>5, <1>6, <1>8, <2>2
  <2> QED BY <2>1, <2>2
<1>11. new[n] \notin {"pending", "unknown"} => \A j \in DOMAIN gs : new[j] # "pending"
  BY <1>4, <1>5, <1>6, <1>7 DEF gs
<1>12. ASSUME op \in {"add", "remove", "pause"}, new[n] # "unknown",
              NEW j \in DOMAIN gs, new[j] # "pending"
       PROVE  told[j] = new[j]
  BY <1>4, <1>5, <1>6, <1>9, <1>12 DEF gs
<1>13. GfAnswered(cmds'[c])
  BY <1>2, <1>10, <1>11, <1>12 DEF GfAnswered, gs, n, op, new, told, sent
<1> QED BY <1>1, <1>2, <1>13 DEF GfAnswers

LEMMA GfNewCallKind ==
  ASSUME NEW op, NEW g, NEW h, NEW why
  PROVE  NewCall(op, g, h, why).kind = "call" /\ NewCall(op, g, h, why).why = why
  BY DEF NewCall

(* Calls that are no client's join api *)
LEMMA GfStrangersJoin ==
  ASSUME GfTyped, NEW S, IsFiniteSet(S), NEW order \in Orders(S), NEW f,
         f = [j \in DOMAIN order |-> f[j]],
         \A j \in DOMAIN order : f[j].kind = "call" /\ f[j].why # "client"
  PROVE  \E T : /\ api \in Seq(T) /\ f \in Seq(T)
                /\ \A j \in DOMAIN f : \A c, i : ~GfCallFor(f[j], c, i) /\ ~GfTurnOf(f[j], c, i)
<1>1. Len(order) \in Nat /\ DOMAIN order = 1..Len(order)
  BY GfOrder
<1>2. PICK T : T = GfQueued \cup {f[j] : j \in DOMAIN order}
  OBVIOUS
<1>5. api \in Seq(T)
  BY <1>2, GfQueueTypes, SequenceOfFunction
<1> QED BY <1>1, <1>2, <1>5, SequenceOfFunction DEF GfCallFor, GfTurnOf

LEMMA GfItemsStrangers ==
  ASSUME GfTyped, GfItems, NEW S, IsFiniteSet(S), NEW order \in Orders(S), NEW f,
         f = [j \in DOMAIN order |-> f[j]],
         \A j \in DOMAIN order : f[j].kind = "call" /\ f[j].why # "client",
         api' = api \o f, UNCHANGED <<inbox, cmds>>
  PROVE  GfItems'
<1>1. PICK T : /\ api \in Seq(T) /\ f \in Seq(T)
               /\ \A j \in DOMAIN f : \A c, i : ~GfCallFor(f[j], c, i) /\ ~GfTurnOf(f[j], c, i)
  BY GfStrangersJoin
<1>2. inbox \in Seq(GfArrived) /\ cmds \in Seq(Command)
  BY GfQueueTypes
<1>3. PICK d \in Nat : d = 0
  OBVIOUS
<1>5. \A i : ~GfHas(api, inbox, d, i)
  BY <1>2, <1>3, GfHasNames DEF GfNames
<1>4. /\ GfOrdered(api, inbox) => GfOrdered(api \o f, inbox)
      /\ \A c, i : GfHas(api \o f, inbox, c, i) <=>
           GfHas(api, inbox, c, i) \/ \E j \in DOMAIN f : GfTurnOf(f[j], c, i)
  <2>3. GfJoined(api, f, inbox)
    BY <1>1, <1>2, <1>5, GfJoins DEF GfJoinable
  <2> QED BY <2>3 DEF GfJoined
<1> QED BY <1>1, <1>4, GfItemsSame

LEMMA GfItemsEnvironment ==
  ASSUME GfTyped, GfTyped', GfItems, GfEnvironment
  PROVE  GfItems'
<1>0. /\ inbox \in Seq(GfArrived) /\ inbox' \in Seq(GfArrived) /\ api \in Seq(GfQueued)
      /\ IsFiniteSet(Geofence)
  BY GfQueueTypes, GfTypesOfPartsNext, FiniteAssumption DEF GfInboxTypes
<1>1. ASSUME NEW client \in Client, StopClientSessions(client)
      PROVE  GfItems'
  <2> DEFINE mine == {g \in Geofence : Owner[g] = client /\ ids[g] # None}
  <2>1. PICK order \in Orders(mine) :
          api' = api \o [i \in DOMAIN order |->
                          NewCall("remove", order[i], ids[order[i]], "gone")]
    BY <1>1 DEF StopClientSessions
  <2>2. IsFiniteSet(mine)
    BY <1>0, FS_Subset
  <2> HIDE DEF mine
  <2>3. PICK f : f = [i \in DOMAIN order |-> NewCall("remove", order[i], ids[order[i]], "gone")]
    OBVIOUS
  <2>7. UNCHANGED <<inbox, cmds>>
    BY <1>1 DEF StopClientSessions
  <2> QED BY <2>1, <2>2, <2>3, <2>7, GfItemsStrangers, GfNewCallKind
<1>2. ASSUME NEW suspend \in BOOLEAN, UpdateSystemPowerState(suspend)
      PROVE  GfItems'
  <2> DEFINE kept == {g \in Geofence : ids[g] # None}
             op == IF suspend THEN "pause" ELSE "resume"
  <2>1. PICK order \in Orders(kept) :
          api' = api \o [i \in DOMAIN order |-> NewCall(op, order[i], ids[order[i]], "power")]
    BY <1>2 DEF UpdateSystemPowerState
  <2>2. IsFiniteSet(kept)
    BY <1>0, FS_Subset
  <2> HIDE DEF kept, op
  <2>3. PICK f : f = [i \in DOMAIN order |-> NewCall(op, order[i], ids[order[i]], "power")]
    OBVIOUS
  <2> QED BY <1>2, <2>1, <2>2, <2>3, GfItemsStrangers, GfNewCallKind DEF UpdateSystemPowerState
<1>3. CASE ModemDown
  BY <1>3, GfItemsSame DEF ModemDown
<1>4. ASSUME NEW m, m.kind \in {"up", "breach"}, inbox' = Append(inbox, m), UNCHANGED <<api, cmds>>
      PROVE  GfItems'
  BY <1>0, <1>4, GfItemsSame, GfOthers DEF GfTurnOf, GfReplyFor
<1>5. CASE ModemUp
  BY <1>4, <1>5 DEF ModemUp, EngineUp
<1>6. ASSUME NEW h \in HwId, GeofenceBreachEvent(h)
      PROVE  GfItems'
  <2>1. PICK m : m = [kind |-> "breach", h |-> h, g |-> engine[h].g]
    OBVIOUS
  <2> QED BY <1>4, <1>6, <2>1 DEF GeofenceBreachEvent
<1> QED BY <1>1, <1>2, <1>3, <1>5, <1>6 DEF GfEnvironment

LEMMA GfItemsApi ==
  ASSUME GfTyped, GfTyped', GfItems, ApiNext
  PROVE  GfItems'
<1>0. /\ inbox \in Seq(GfArrived) /\ inbox' \in Seq(GfArrived) /\ api \in Seq(GfQueued)
  BY GfQueueTypes, GfTypesOfPartsNext DEF GfInboxTypes
<1>1. /\ api # <<>> /\ api' = Tail(api) /\ UNCHANGED cmds
  BY DEF ApiNext, ApiTurn, ApiCall, ApiFail, Answer
<1>2. PICK m : /\ inbox' = Append(inbox, m)
               /\ \/ m = api[1] /\ m.kind = "turn"
                  \/ m.kind = "reply" /\ m.call = api[1] /\ api[1].kind = "call"
  <2>1. Head(api) = api[1]
    BY <1>0, <1>1
  <2>2. CASE ApiTurn
    BY <2>1, <2>2 DEF ApiTurn
  <2>3. CASE ApiCall \/ ApiFail
    <3>1. PICK ok, h : Answer(ok, h) /\ api[1].kind = "call"
      BY <2>1, <2>3 DEF ApiCall, ApiFail
    <3>2. PICK r : r = [kind |-> "reply", call |-> api[1], ok |-> ok, h |-> h]
      OBVIOUS
    <3> QED BY <2>1, <3>1, <3>2 DEF Answer
  <2> QED BY <2>2, <2>3 DEF ApiNext
<1>3. m \in GfArrived
  BY <1>0, <1>2
<1> QED BY <1>0, <1>1, <1>2, <1>3, GfItemsSame, GfMoves DEF GfTurnOf, GfReplyFor, GfCallFor

(* A new command's turns *)
LEMMA GfItemsIssue ==
  ASSUME GfTyped, GfItems, NEW op \in Operation, NEW gs \in Batches, NEW opt \in Option,
         Issue(op, gs, opt)
  PROVE  GfItems'
<1>1. /\ \A c \in DOMAIN cmds : cmds'[c] = cmds[c]
      /\ cmds'[Len(cmds) + 1] = GfNewCommand(op, gs, opt)
      /\ Turns(Len(cmds) + 1, Len(gs)) \in Seq(GfQueued)
      /\ gs \in Seq(Geofence) /\ Len(cmds') = Len(cmds) + 1 /\ cmds' \in Seq(Command)
  BY GfIssueTyped DEF GfCmdsGo
<1>2. /\ api \in Seq(GfQueued) /\ inbox \in Seq(GfArrived) /\ cmds \in Seq(Command)
  BY GfQueueTypes
<1>3. PICK d, f : d = Len(cmds) + 1 /\ f = Turns(Len(cmds) + 1, Len(gs))
  OBVIOUS
<1>4. /\ d \in Nat /\ d \notin DOMAIN cmds /\ cmds'[d] = GfNewCommand(op, gs, opt)
      /\ DOMAIN cmds' = DOMAIN cmds \cup {d} /\ f \in Seq(GfQueued) /\ f = Turns(d, Len(gs))
  BY <1>1, <1>2, <1>3
<1>6. /\ DOMAIN f = DOMAIN gs
      /\ \A j \in DOMAIN f : f[j].kind = "turn" /\ f[j].cmd = d /\ f[j].i = j
  BY <1>1, <1>4 DEF Turns
<1>9. /\ GfOrdered(api, inbox) => GfOrdered(api \o f, inbox)
      /\ \A c, i : GfHas(api \o f, inbox, c, i) <=>
           GfHas(api, inbox, c, i) \/ \E j \in DOMAIN f : GfTurnOf(f[j], c, i)
  <2>1. GfJoinable(api, f, inbox, d)
    BY <1>4, <1>6, GfHasNames DEF GfJoinable, GfCallFor, GfTurnOf, GfNames
  <2> QED BY <1>2, <1>4, <2>1, GfJoins DEF GfJoined
<1>11. \A c, i : (\E j \in DOMAIN f : GfTurnOf(f[j], c, i)) <=> c = d /\ i \in DOMAIN gs
  BY <1>6 DEF GfTurnOf
<1>12. \A c, i : GfPending(c, i)' <=> GfPending(c, i) \/ (c = d /\ i \in DOMAIN gs)
  <2>3. ASSUME NEW c \in DOMAIN cmds, NEW i PROVE GfPending(c, i)' <=> GfPending(c, i)
    BY <1>1, <1>4 DEF GfPending, GfNames
  <2>4. ASSUME NEW i PROVE GfPending(d, i)' <=> i \in DOMAIN gs
    BY <1>4 DEF GfPending, GfNames, GfNewCommand
  <2>5. ASSUME NEW c, c \notin DOMAIN cmds, NEW i PROVE ~GfPending(c, i)
    BY <2>5 DEF GfPending, GfNames
  <2>6. ASSUME NEW c, c \notin DOMAIN cmds, c # d, NEW i PROVE ~GfPending(c, i)'
    BY <1>4, <2>6 DEF GfPending, GfNames
  <2> QED BY <1>4, <2>3, <2>4, <2>5, <2>6
<1> QED BY <1>3, <1>9, <1>11, <1>12 DEF GfItems, Issue

(* A record that leaves the item pending, or answers it *)
LEMMA GfItemsRecord ==
  ASSUME GfTyped, GfItems, NEW c \in DOMAIN cmds, NEW i \in DOMAIN cmds[c].gs,
         NEW err \in Err, NEW result \in Result, NEW answer \in BOOLEAN,
         Record(c, i, err, result, answer), GfPending(c, i),
         GfOrdered(api, inbox) => GfOrdered(api', inbox'),
         \A d, j \in Nat : GfHas(api', inbox', d, j) <=>
           GfHas(api, inbox, d, j) /\ (d # c \/ j # i \/ result = "pending")
  PROVE  GfItems'
  BY GfPendingRecord DEF GfItems

(* An item at the head of the inbox is nowhere else *)
LEMMA GfHeadOnce ==
  ASSUME GfTyped, GfOrdered(api, inbox), NEW c, NEW i, 1 \in DOMAIN inbox,
         GfTurnOf(inbox[1], c, i) \/ GfReplyFor(inbox[1], c, i)
  PROVE  /\ c \in Nat /\ i \in Nat /\ GfNames(c, i) /\ GfHas(api, inbox, c, i)
         /\ \A s \in 1..4, k \in Nat :
              GfIn(api, inbox, s, k, c, i) => s \in {2, 4} /\ k = 1
         /\ GfReplyFor(inbox[1], c, i) => \A j \in Nat : j < i => ~GfHas(api, inbox, c, j)
<1>1. PICK t \in 1..4 : /\ t \in {2, 4} /\ GfIn(api, inbox, t, 1, c, i)
                        /\ GfReplyFor(inbox[1], c, i) => t = 4
  BY DEF GfIn, GfTurnOf, GfReplyFor
<1>2. GfHas(api, inbox, c, i)
  BY <1>1 DEF GfHas
<1>3. c \in Nat /\ i \in Nat /\ GfNames(c, i)
  BY <1>2, GfHasNames, GfNamesNat
<1>o. 1 \in Nat /\ i <= i
  BY <1>3
<1>4. ASSUME NEW s \in 1..4, NEW k \in Nat, NEW j \in Nat, j <= i, GfIn(api, inbox, s, k, c, j)
      PROVE  ~GfBehind(s, k, t, 1) /\ k >= 1
  <2>3. k >= 1
    BY <1>4, GfQueueTypes DEF GfIn
  <2> QED BY <1>o, <1>1, <1>3, <1>4, <2>3 DEF GfOrdered
<1>5. ASSUME NEW s \in 1..4, NEW k \in Nat, GfIn(api, inbox, s, k, c, i)
      PROVE  s = t /\ k = 1
  <2>2. ~GfBehind(t, 1, s, k)
    BY <1>1, <1>3, <1>o, <1>5 DEF GfOrdered
  <2> QED BY <1>3, <1>4, <1>5, <2>2 DEF GfBehind
<1>6. ASSUME GfReplyFor(inbox[1], c, i), NEW j \in Nat, j < i, GfHas(api, inbox, c, j)
      PROVE  FALSE
  <2>2. PICK s \in 1..4, k \in Nat : GfIn(api, inbox, s, k, c, j)
    BY <1>6 DEF GfHas
  <2> QED BY <1>1, <1>3, <1>4, <1>6, <2>2 DEF GfReplyFor, GfCallFor, GfIn, GfBehind
<1> QED BY <1>1, <1>2, <1>3, <1>5, <1>6


(* The item at the head of the inbox is handled, and makes no call *)
LEMMA GfItemTaken ==
  ASSUME GfTyped, GfItems, inbox # <<>>, NEW c, NEW i,
         GfTurnOf(inbox[1], c, i) \/ GfReplyFor(inbox[1], c, i),
         api' = api, inbox' = Tail(inbox)
  PROVE  /\ GfOrdered(api, inbox) => GfOrdered(api', inbox')
         /\ \A d, j \in Nat : GfHas(api', inbox', d, j) <=>
              GfHas(api, inbox, d, j) /\ (d # c \/ j # i)
<1>1. api \in Seq(GfQueued) /\ inbox \in Seq(GfArrived)
  BY GfQueueTypes
<1>2. PICK f \in Seq(GfQueued) : f = <<>>
  BY SequencesOf
<1>3. DOMAIN f = {} /\ Len(f) = 0 /\ api \o f = api
  BY <1>1, <1>2
<1>5. GfTaken(api, f, inbox)
  BY <1>1, <1>3, GfTakes DEF GfTakeable
<1>6. /\ GfOrdered(api, inbox) => GfOrdered(api', inbox')
      /\ \A d, j : GfHas(api', inbox', d, j) =>
           \E s \in 1..4, k \in Nat : /\ GfIn(api, inbox, s, k, d, j)
                                      /\ ~(s \in {2, 4} /\ k = 1)
      /\ \A d, j : GfHas(api, inbox, d, j) =>
           \/ GfHas(api', inbox', d, j)
           \/ GfTurnOf(inbox[1], d, j) \/ GfReplyFor(inbox[1], d, j)
  BY <1>3, <1>5 DEF GfTaken
<1>9. ASSUME NEW d \in Nat, NEW j \in Nat
      PROVE  GfHas(api', inbox', d, j) <=> GfHas(api, inbox, d, j) /\ (d # c \/ j # i)
  <2>2. ~GfHas(api', inbox', c, i)
    BY <1>6, GfTake, GfHeadOnce DEF GfItems
  <2> QED BY <1>6, <2>2 DEF GfHas, GfTurnOf, GfReplyFor, GfCallFor
<1> QED BY <1>6, <1>9

(* Something else is handled, and makes no client's calls *)
LEMMA GfOtherTaken ==
  ASSUME GfTyped, GfItems, UNCHANGED cmds, inbox # <<>>, NEW T, NEW f \in Seq(T), api \in Seq(T),
         \A c, i : ~GfTurnOf(inbox[1], c, i) /\ ~GfReplyFor(inbox[1], c, i),
         \A j \in DOMAIN f : \A c, i : ~GfCallFor(f[j], c, i) /\ ~GfTurnOf(f[j], c, i),
         api' = api \o f, inbox' = Tail(inbox)
  PROVE  GfItems'
<1>3. GfTaken(api, f, inbox)
  BY GfTakes, GfQueueTypes DEF GfTakeable
<1> QED BY <1>3, GfItemsSame DEF GfTaken, GfHas

LEMMA GfItemsTurn ==
  ASSUME GfTyped, GfTyped', GfItems, HandleTurn
  PROVE  GfItems' /\ (GfAnswers => GfAnswers')
<1>1. PICK c, i : c = Head(inbox).cmd /\ i = Head(inbox).i
  OBVIOUS
<1>2. /\ Head(inbox) \in Turn /\ GfNames(c, i) /\ inbox # <<>> /\ inbox' = Tail(inbox)
      /\ Head(inbox) = inbox[1] /\ 1 \in DOMAIN inbox /\ inbox[1].kind = "turn"
  BY <1>1, GfTurn, GfRecords
<1>3. GfTurnOf(inbox[1], c, i)
  BY <1>1, <1>2 DEF GfTurnOf
<1>4. GfPending(c, i) /\ c \in DOMAIN cmds /\ i \in DOMAIN cmds[c].gs
  BY <1>2, <1>3, GfHeadOnce DEF GfItems, GfNames
<1>5. /\ "success" \in Err /\ "unknown" \in Err /\ "pending" \in Result /\ "unknown" \in Result
      /\ IsLast(c, i) \in BOOLEAN
  BY DEF Err, Result, IsLast
<1>7. CASE api' = api /\ Record(c, i, "unknown", "unknown", IsLast(c, i))
  <2>1. /\ GfOrdered(api, inbox) => GfOrdered(api', inbox')
        /\ \A d, j \in Nat : GfHas(api', inbox', d, j) <=>
             GfHas(api, inbox, d, j) /\ (d # c \/ j # i)
    BY <1>2, <1>3, <1>7, GfItemTaken
  <2> QED BY <1>4, <1>5, <1>7, <2>1, GfAnswersRecord, GfItemsRecord
<1>8. CASE /\ api' = Append(api, GfTurnCall(c, i))
           /\ cmds' = cmds \/ Record(c, i, "success", "pending", FALSE)
  <2>1. PICK x : x = GfTurnCall(c, i)
    OBVIOUS
  <2>2. x.kind = "call" /\ x.why = "client" /\ x.cmd = c /\ x.i = i
    BY <2>1 DEF GfTurnCall, ClientCall
  <2>3. api \in Seq(GfQueued) /\ inbox \in Seq(GfArrived) /\ api' \in Seq(GfQueued)
    BY GfQueueTypes, GfTypesOfPartsNext DEF GfApiTypes
  <2>4. x \in GfQueued
    BY <1>8, <2>1, <2>3
  <2>5. PICK f \in Seq(GfQueued) : f = <<x>>
    <3>1. <<x>> \in Seq(GfQueued)
      BY <2>4
    <3> QED BY <3>1
  <2>6. DOMAIN f = {1} /\ Len(f) = 1 /\ f[1] = x /\ api' = api \o f
    BY <1>8, <2>1, <2>3, <2>4, <2>5
  <2>7. \A d, j : GfCallFor(f[1], d, j) <=> GfTurnOf(inbox[1], d, j)
    BY <1>2, <1>3, <2>2, <2>6 DEF GfCallFor, GfTurnOf
  <2>10. GfTaken(api, f, inbox)
    BY <1>2, <2>2, <2>3, <2>6, <2>7, GfTakes DEF GfTakeable, GfTurnOf
  <2>12. GfOrdered(api, inbox) => GfOrdered(api', inbox')
    BY <1>2, <2>6, <2>10 DEF GfTaken
  <2>13. \A d, j : GfHas(api', inbox', d, j) => GfHas(api, inbox, d, j)
    BY <1>2, <2>6, <2>10 DEF GfTaken, GfHas
  <2>14. \A d, j : GfHas(api, inbox, d, j) => GfHas(api', inbox', d, j)
    BY <1>2, <2>6, <2>7, <2>10 DEF GfTaken, GfReplyFor
  <2>15. CASE cmds' = cmds
    BY <2>12, <2>13, <2>14, <2>15, GfItemsSame DEF GfAnswers
  <2>16. CASE Record(c, i, "success", "pending", FALSE)
    <3>1. GfItems'
      BY <1>4, <1>5, <2>12, <2>13, <2>14, <2>16, GfItemsRecord
    <3> QED BY <1>4, <1>5, <2>16, <3>1, GfAnswersRecord
  <2> QED BY <1>8, <2>15, <2>16
<1> QED BY <1>1, <1>7, <1>8, GfTurnTyped


LEMMA GfItemsReply ==
  ASSUME GfTyped, GfItems, HandleClientReply
  PROVE  GfItems' /\ (GfAnswers => GfAnswers')
<1>1. PICK call, ok : call = Head(inbox).call /\ ok = Head(inbox).ok
  OBVIOUS
<1>2. TakeReply({"client"}) /\ UNCHANGED api
  BY DEF HandleClientReply
<1>3. /\ GfCallOK(call) /\ call.why = "client" /\ ok \in BOOLEAN /\ call.kind = "call"
      /\ inbox # <<>> /\ inbox' = Tail(inbox) /\ Head(inbox) = inbox[1] /\ 1 \in DOMAIN inbox
      /\ inbox[1].kind = "reply" /\ inbox[1].call = call
  BY <1>1, <1>2, GfReply, GfRecords
<1>4. PICK c, i : c = call.cmd /\ i = call.i
  OBVIOUS
<1>5. GfReplyFor(inbox[1], c, i)
  BY <1>3, <1>4 DEF GfReplyFor, GfCallFor
<1>6. /\ c \in Nat /\ i \in Nat /\ GfNames(c, i) /\ GfHas(api, inbox, c, i)
      /\ \A j \in Nat : j < i => ~GfHas(api, inbox, c, j)
  BY <1>3, <1>5, GfHeadOnce DEF GfItems
<1>7. GfPending(c, i) /\ c \in DOMAIN cmds /\ i \in DOMAIN cmds[c].gs
  BY <1>6 DEF GfItems, GfNames
<1>8. PICK err, result, answer :
        /\ err = (IF call.op \in {"modify", "resume"} /\ ~ok THEN "success"
                  ELSE IF ok THEN "success" ELSE "failure")
        /\ result = (IF ok THEN "success" ELSE "failure")
        /\ answer = (IsLast(c, i) /\ (ok \/ call.op # "resume"))
  OBVIOUS
<1>9. Record(c, i, err, result, answer)
  BY <1>1, <1>4, <1>8 DEF HandleClientReply
<1>10. err \in Err /\ result \in Result /\ answer \in BOOLEAN
  BY <1>8 DEF Err, Result, IsLast
<1>11. call.op = cmds[c].op
  BY <1>3, <1>4 DEF GfCallOK
<1>12. /\ GfOrdered(api, inbox) => GfOrdered(api', inbox')
       /\ \A d, j \in Nat : GfHas(api', inbox', d, j) <=>
            GfHas(api, inbox, d, j) /\ (d # c \/ j # i)
  BY <1>2, <1>3, <1>5, GfItemTaken
<1>13. result # "pending"
  BY <1>8
<1>14. GfItems'
  BY <1>7, <1>9, <1>10, <1>12, <1>13, GfItemsRecord
<1>15. cmds[c].op \in {"add", "remove", "pause"} /\ result # "pending" => err = result
  BY <1>8, <1>11
<1>16. answer <=> /\ IsLast(c, i) /\ result # "pending"
                  /\ ~(cmds[c].op = "resume" /\ result = "failure")
  BY <1>3, <1>8, <1>11
<1>17. IsLast(c, i) /\ result \notin {"pending", "unknown"} =>
         \A j \in DOMAIN cmds[c].gs : j # i => ~GfPending(c, j)
  <2> SUFFICES ASSUME IsLast(c, i), NEW j \in DOMAIN cmds[c].gs, j # i
               PROVE  ~GfPending(c, j)
    OBVIOUS
  <2> QED BY <1>6, GfNamesNat DEF GfItems, IsLast
<1>18. GfAnswers => GfAnswers'
  BY <1>7, <1>9, <1>10, <1>15, <1>16, <1>17, GfAnswersRecord
<1> QED BY <1>14, <1>18

LEMMA GfItemsOtherReply ==
  ASSUME GfTyped, GfTyped', GfItems, HandleGoneReply \/ HandlePowerReply \/ HandleRestartReply
  PROVE  GfItems' /\ UNCHANGED cmds
<1>1. /\ TakeReply({"gone"}) \/ TakeReply({"power", "repause"}) \/ TakeReply({"restart"})
      /\ UNCHANGED cmds
  BY DEF HandleGoneReply, HandlePowerReply, HandleRestartReply
<1>2. /\ inbox # <<>> /\ inbox' = Tail(inbox) /\ Head(inbox) = inbox[1]
      /\ inbox[1].kind = "reply" /\ inbox[1].call.why # "client"
  BY <1>1, GfReply, GfRecords
<1>3. \A c, i : ~GfTurnOf(inbox[1], c, i) /\ ~GfReplyFor(inbox[1], c, i)
  BY <1>2 DEF GfTurnOf, GfReplyFor, GfCallFor
<1>4. api \in Seq(GfQueued) /\ api' \in Seq(GfQueued)
  BY GfQueueTypes, GfTypesOfPartsNext DEF GfApiTypes
<1>5. \/ api' = api
      \/ \E x : x.kind = "call" /\ x.why = "repause" /\ api' = Append(api, x)
  <2>2. ASSUME HandleRestartReply
        PROVE  \/ api' = api
               \/ \E x : x.kind = "call" /\ x.why = "repause" /\ api' = Append(api, x)
    BY <2>2, GfNewCallKind DEF HandleRestartReply
  <2> QED BY <2>2 DEF HandleGoneReply, HandlePowerReply
<1>6. CASE api' = api
  <2>1. PICK f \in Seq(GfQueued) : f = <<>>
    BY SequencesOf
  <2>2. DOMAIN f = {} /\ api' = api \o f
    BY <1>4, <1>6, <2>1
  <2> QED BY <1>1, <1>2, <1>3, <1>4, <2>2, GfOtherTaken
<1>7. CASE \E x : x.kind = "call" /\ x.why = "repause" /\ api' = Append(api, x)
  <2>1. PICK x : x.kind = "call" /\ x.why = "repause" /\ api' = Append(api, x)
    BY <1>7
  <2>2. x \in GfQueued
    BY <1>4, <2>1
  <2>3. PICK f \in Seq(GfQueued) : f = <<x>>
    <3>1. <<x>> \in Seq(GfQueued)
      BY <2>2
    <3> QED BY <3>1
  <2>4. DOMAIN f = {1} /\ f[1] = x /\ api' = api \o f
    BY <1>4, <2>1, <2>2, <2>3
  <2>5. \A j \in DOMAIN f : \A c, i : ~GfCallFor(f[j], c, i) /\ ~GfTurnOf(f[j], c, i)
    BY <2>1, <2>4 DEF GfCallFor, GfTurnOf
  <2> QED BY <1>1, <1>2, <1>3, <1>4, <2>4, <2>5, GfOtherTaken
<1> QED BY <1>1, <1>5, <1>6, <1>7

LEMMA GfItemsUp ==
  ASSUME GfTyped, GfTyped', GfItems, HandleEngineUp \/ HandleBreach
  PROVE  GfItems' /\ UNCHANGED cmds
<1>1. /\ inbox # <<>> /\ inbox' = Tail(inbox) /\ Head(inbox) = inbox[1] /\ UNCHANGED cmds
      /\ inbox[1].kind \in {"up", "breach"}
  BY GfTake, GfRecords DEF HandleEngineUp, HandleBreach
<1>2. \A c, i : ~GfTurnOf(inbox[1], c, i) /\ ~GfReplyFor(inbox[1], c, i)
  BY <1>1 DEF GfTurnOf, GfReplyFor
<1>3. api \in Seq(GfQueued)
  BY GfQueueTypes
<1>4. CASE api' = api
  <2>1. PICK f \in Seq(GfQueued) : f = <<>>
    BY SequencesOf
  <2>2. DOMAIN f = {} /\ api' = api \o f
    BY <1>3, <1>4, <2>1
  <2> QED BY <1>1, <1>2, <1>3, <2>2, GfOtherTaken
<1>5. CASE \E order \in Orders(GfKept) :
             api' = api \o [k \in DOMAIN order |-> RestartCall(order[k])]
  <2>1. PICK order \in Orders(GfKept) :
          api' = api \o [k \in DOMAIN order |-> RestartCall(order[k])]
    BY <1>5
  <2>3. PICK f : f = [k \in DOMAIN order |-> RestartCall(order[k])]
    OBVIOUS
  <2>6. \A k \in DOMAIN order : f[k].kind = "call" /\ f[k].why # "client"
    BY <2>3 DEF RestartCall
  <2>7. f = [k \in DOMAIN order |-> f[k]] /\ api' = api \o f
    BY <2>1, <2>3
  <2>8. PICK T : /\ api \in Seq(T) /\ f \in Seq(T)
                 /\ \A j \in DOMAIN f : \A c, i : ~GfCallFor(f[j], c, i) /\ ~GfTurnOf(f[j], c, i)
    BY <2>6, <2>7, GfStrangersJoin, FiniteAssumption, FS_Subset DEF GfKept
  <2> QED BY <1>1, <1>2, <2>7, <2>8, GfOtherTaken
<1> QED BY <1>1, <1>4, <1>5, GfUpTyped DEF HandleBreach

(* A new command has no answers *)
LEMMA GfAnswersIssue ==
  ASSUME GfTyped, GfAnswers, NEW op \in Operation, NEW gs \in Batches, NEW opt \in Option,
         Issue(op, gs, opt)
  PROVE  GfAnswers'
<1>1. /\ \A c \in DOMAIN cmds : cmds'[c] = cmds[c]
      /\ cmds'[Len(cmds) + 1] = GfNewCommand(op, gs, opt)
      /\ gs \in Seq(Geofence) /\ gs # <<>> /\ Len(cmds') = Len(cmds) + 1 /\ cmds' \in Seq(Command)
  BY GfIssueTyped DEF GfCmdsGo
<1>4. GfAnswered(GfNewCommand(op, gs, opt))
  <2>1. PICK cmd : cmd = GfNewCommand(op, gs, opt)
    OBVIOUS
  <2> QED BY <1>1, <2>1 DEF GfAnswered, GfNewCommand
<1> QED BY <1>1, <1>4, GfQueueTypes DEF GfAnswers

LEMMA GfItemsStep ==
  ASSUME GfTyped, GfTyped', GfItems, GfAnswers, [Next]_vars
  PROVE  GfItems' /\ GfAnswers'
<1>1. UNCHANGED cmds => GfAnswers'
  BY DEF GfAnswers
<1>2. CASE \E op \in Operation, gs \in Batches, opt \in Option : Issue(op, gs, opt)
  BY <1>2, GfItemsIssue, GfAnswersIssue
<1>3. CASE GfEnvironment
  <2>1. UNCHANGED cmds
    BY <1>3 DEF GfEnvironment, StopClientSessions, UpdateSystemPowerState, ModemDown, ModemUp,
                GeofenceBreachEvent
  <2> QED BY <1>1, <1>3, <2>1, GfItemsEnvironment
<1>4. CASE ApiNext
  BY <1>1, <1>4, GfItemsApi DEF ApiNext, ApiTurn, ApiCall, ApiFail
<1>5. CASE HandleTurn
  BY <1>5, GfItemsTurn
<1>6. CASE HandleClientReply
  BY <1>6, GfItemsReply
<1>7. CASE HandleGoneReply \/ HandlePowerReply \/ HandleRestartReply
  BY <1>1, <1>7, GfItemsOtherReply
<1>8. CASE HandleEngineUp \/ HandleBreach
  BY <1>1, <1>8, GfItemsUp
<1>9. CASE UNCHANGED vars
  BY <1>1, <1>9, GfItemsSame DEF vars
<1> QED BY <1>2, <1>3, <1>4, <1>5, <1>6, <1>7, <1>8, <1>9, GfActions DEF GfHandleReply

LEMMA GfItemsInit == Init => GfItems /\ GfAnswers
<1> SUFFICES ASSUME Init PROVE GfItems /\ GfAnswers
  OBVIOUS
<1>1. DOMAIN api = {} /\ DOMAIN inbox = {} /\ DOMAIN cmds = {}
  BY DEF Init
<1>3. \A c, i : ~GfPending(c, i)
  BY <1>1 DEF GfPending, GfNames
<1> QED BY <1>1, <1>3 DEF GfAnswers, GfItems, GfOrdered, GfHas, GfIn

LEMMA GfCommandsAnswered ==
  GfTyped /\ GfItems /\ GfAnswers => CommandsAreAnswered
<1> SUFFICES ASSUME GfTyped, GfItems, GfAnswers PROVE CommandsAreAnswered
  OBVIOUS
<1>1. cmds \in Seq(Command) /\ GfCommandsOK
  BY GfQueueTypes
<1>3. ASSUME NEW c \in DOMAIN cmds
      PROVE  /\ cmds[c] \in Command /\ cmds[c].gs \in Seq(Geofence) /\ c \in Nat
             /\ Len(cmds[c].gs) \in DOMAIN cmds[c].gs /\ Len(cmds[c].gs) \in Nat
             /\ DOMAIN cmds[c].errs = DOMAIN cmds[c].gs
             /\ DOMAIN cmds[c].results = DOMAIN cmds[c].gs
             /\ cmds[c].errs \in Seq(Err) /\ cmds[c].results \in Seq(Result)
             /\ GfAnswered(cmds[c])
  <2>1. cmds[c] \in Command /\ c \in Nat
    BY <1>1
  <2> QED BY <1>1, <2>1 DEF GfCommandsOK, GfAnswers, Command
<1>4. ASSUME NEW c \in DOMAIN cmds PROVE cmds[c].answers <= 1
  BY <1>3 DEF GfAnswered
<1>5. ASSUME NEW c \in DOMAIN cmds, Answered(c), cmds[c].op \in {"add", "remove", "pause"},
             cmds[c].results[Len(cmds[c].gs)] # "unknown"
      PROVE  cmds[c].errs = cmds[c].results
  BY <1>3, <1>5 DEF GfAnswered, Answered
<1>6. ASSUME Quiet, NEW c \in DOMAIN cmds
      PROVE  \/ Answered(c)
             \/ cmds[c].op = "resume" /\ cmds[c].results[Len(cmds[c].gs)] = "failure"
  <2>2. ~GfPending(c, Len(cmds[c].gs))
    BY <1>3, <1>6 DEF GfItems, GfHas, Quiet, GfIn
  <2> QED BY <1>3, <2>2 DEF GfAnswered, Answered, GfPending, GfNames
<1> QED BY <1>1, <1>4, <1>5, <1>6 DEF CommandsAreAnswered, AnsweredOnce, EveryCommandAnswered,
  AnswersAreTrue


-----------------------------------------------------------------------------
(* Geofences: the maps and the modem.  W[i] is what mGeofences will be once *)
(* the first i messages on their way are handled.                           *)

(* What the entry e of h becomes when m is handled *)
FkThen(m, h, e) ==
  IF m = EngineUp THEN None
  ELSE IF m.kind # "reply" THEN e
  ELSE IF ~m.ok THEN e
  ELSE IF m.call.op = "add"
       THEN IF h = m.h THEN [g |-> m.call.g, opt |-> m.call.opt, paused |-> FALSE] ELSE e
  ELSE IF h # m.call.h \/ e = None \/ m.call.why = "repause" THEN e
  ELSE CASE m.call.op = "remove" -> None
         [] m.call.op = "pause" -> [e EXCEPT !.paused = TRUE]
         [] m.call.op = "resume" -> [e EXCEPT !.paused = FALSE]
         [] m.call.op = "modify" -> [e EXCEPT !.opt = m.call.opt]

FkSaves(m, h) == m.kind = "reply" /\ m.ok /\ m.call.op = "add" /\ m.h = h

FkMap == [HwId -> GfEntry]
FkOf(e, g) == e # None /\ e.g = g

(* The maps follow the messages of q, and the modem takes free ids *)
FkFollows(q, W, f) ==
  /\ W \in [0..Len(q) -> FkMap] /\ W[0] = f
  /\ \A i \in 1..Len(q), h \in HwId :
       W[i][h] = FkThen(q[i], h, W[i - 1][h]) /\ (FkSaves(q[i], h) => W[i - 1][h] = None)

(* g is added once at the most, and has one id as long as it is there *)
FkOnce(n, W, g) ==
  \A i, j \in 0..n : \A h, k \in HwId :
    i <= j /\ FkOf(W[i][h], g) /\ FkOf(W[j][k], g) =>
      h = k /\ \A l \in i..j : FkOf(W[l][h], g)
FkNowhere(n, W, g) == \A i \in 0..n, h \in HwId : ~FkOf(W[i][h], g)

FkMore(n, W, new) == [i \in 0..(n + 1) |-> IF i = n + 1 THEN new ELSE W[i]]
FkLess(n, W) == [i \in 0..(n - 1) |-> W[i + 1]]

LEMMA FkFollowsMore ==
  ASSUME NEW T, NEW q \in Seq(T), NEW m \in T, NEW W, NEW f, FkFollows(q, W, f),
         NEW new \in FkMap,
         \A h \in HwId : /\ new[h] = FkThen(m, h, W[Len(q)][h])
                         /\ FkSaves(m, h) => W[Len(q)][h] = None
  PROVE  FkFollows(Append(q, m), FkMore(Len(q), W, new), f)
<1> DEFINE p == Append(q, m)
           V == FkMore(Len(q), W, new)
<1>1. PICK n : n = Len(q)
  OBVIOUS
<1>2. n \in Nat /\ Len(p) = n + 1 /\ p[n + 1] = m /\ \A i \in 1..n : p[i] = q[i]
  BY <1>1
<1>3. W \in [0..n -> FkMap] /\ W[0] = f
  BY <1>1 DEF FkFollows
<1>4. /\ V \in [0..(n + 1) -> FkMap] /\ V[n + 1] = new
      /\ \A i \in 0..n : V[i] = W[i]
  BY <1>1, <1>2, <1>3 DEF FkMore
<1> HIDE DEF V, p
<1>5. ASSUME NEW i \in 1..(n + 1), NEW h \in HwId
      PROVE  /\ V[i][h] = FkThen(p[i], h, V[i - 1][h])
             /\ FkSaves(p[i], h) => V[i - 1][h] = None
  <2>1. CASE i = n + 1
    BY <1>1, <1>2, <1>4, <2>1
  <2>2. CASE i \in 1..n
    <3>1. V[i] = W[i] /\ p[i] = q[i] /\ V[i - 1] = W[i - 1]
      BY <1>2, <1>4, <2>2
    <3> QED BY <1>1, <2>2, <3>1 DEF FkFollows
  <2> QED BY <1>2, <2>1, <2>2
<1> QED BY <1>2, <1>3, <1>4, <1>5 DEF V, p, FkFollows

LEMMA FkFollowsLess ==
  ASSUME NEW T, NEW q \in Seq(T), q # <<>>, NEW W, NEW f, FkFollows(q, W, f)
  PROVE  FkFollows(Tail(q), FkLess(Len(q), W), W[1])
<1> DEFINE p == Tail(q)
           V == FkLess(Len(q), W)
<1>1. PICK n : n = Len(q)
  OBVIOUS
<1>2. n \in Nat /\ n > 0 /\ Len(p) = n - 1 /\ \A i \in 1..(n - 1) : p[i] = q[i + 1]
  BY <1>1
<1>4. V \in [0..(n - 1) -> FkMap] /\ \A i \in 0..(n - 1) : V[i] = W[i + 1]
  BY <1>1, <1>2 DEF FkLess, FkFollows
<1> HIDE DEF V, p
<1>5. ASSUME NEW i \in 1..(n - 1), NEW h \in HwId
      PROVE  /\ V[i][h] = FkThen(p[i], h, V[i - 1][h])
             /\ FkSaves(p[i], h) => V[i - 1][h] = None
  BY <1>1, <1>2, <1>4 DEF FkFollows
<1> QED BY <1>2, <1>4, <1>5 DEF V, p, FkFollows

LEMMA FkOnceMore ==
  ASSUME NEW n \in Nat, NEW W, NEW new, NEW g
  PROVE  /\ FkOnce(n, W, g) /\ (\A h \in HwId : FkOf(new[h], g) => FkOf(W[n][h], g))
              => FkOnce(n + 1, FkMore(n, W, new), g)
         /\ FkNowhere(n, W, g) /\ (\A h, k \in HwId : FkOf(new[h], g) /\ FkOf(new[k], g) => h = k)
              => FkOnce(n + 1, FkMore(n, W, new), g)
         /\ FkNowhere(n, W, g) /\ (\A h \in HwId : ~FkOf(new[h], g))
              => FkNowhere(n + 1, FkMore(n, W, new), g)
<1> DEFINE V == FkMore(n, W, new)
<1>1. V[n + 1] = new /\ \A i \in 0..n : V[i] = W[i]
  BY DEF FkMore
<1> HIDE DEF V
<1>2. ASSUME FkOnce(n, W, g), \A h \in HwId : FkOf(new[h], g) => FkOf(W[n][h], g)
      PROVE  FkOnce(n + 1, V, g)
  <2> SUFFICES ASSUME NEW i \in 0..(n + 1), NEW j \in 0..(n + 1), NEW h \in HwId, NEW k \in HwId,
                      i <= j, FkOf(V[i][h], g), FkOf(V[j][k], g)
               PROVE  h = k /\ \A l \in i..j : FkOf(V[l][h], g)
    BY DEF FkOnce
  <2>1. CASE j <= n
    BY <1>1, <1>2, <2>1 DEF FkOnce
  <2>2. CASE i <= n /\ j = n + 1
    BY <1>1, <1>2, <2>2 DEF FkOnce
  <2>3. CASE i = n + 1
    BY <1>1, <1>2, <2>3 DEF FkOnce
  <2> QED BY <2>1, <2>2, <2>3
<1>3. ASSUME FkNowhere(n, W, g), \A h, k \in HwId : FkOf(new[h], g) /\ FkOf(new[k], g) => h = k
      PROVE  FkOnce(n + 1, V, g)
  <2> SUFFICES ASSUME NEW i \in 0..(n + 1), NEW j \in 0..(n + 1), NEW h \in HwId, NEW k \in HwId,
                      i <= j, FkOf(V[i][h], g), FkOf(V[j][k], g)
               PROVE  h = k /\ \A l \in i..j : FkOf(V[l][h], g)
    BY DEF FkOnce
  <2> QED BY <1>1, <1>3 DEF FkNowhere
<1>4. ASSUME FkNowhere(n, W, g), \A h \in HwId : ~FkOf(new[h], g)
      PROVE  FkNowhere(n + 1, V, g)
  BY <1>1, <1>4 DEF FkNowhere
<1> QED BY <1>2, <1>3, <1>4 DEF V

LEMMA FkOnceLess ==
  ASSUME NEW n \in Nat, n > 0, NEW W, NEW g
  PROVE  /\ FkOnce(n, W, g) => FkOnce(n - 1, FkLess(n, W), g)
         /\ FkNowhere(n, W, g) => FkNowhere(n - 1, FkLess(n, W), g)
<1> DEFINE V == FkLess(n, W)
<1>1. \A i \in 0..(n - 1) : V[i] = W[i + 1] /\ i + 1 \in 0..n
  BY DEF FkLess
<1> HIDE DEF V
<1>2. ASSUME FkOnce(n, W, g)
      PROVE  FkOnce(n - 1, V, g)
  <2> SUFFICES ASSUME NEW i \in 0..(n - 1), NEW j \in 0..(n - 1), NEW h \in HwId, NEW k \in HwId,
                      i <= j, FkOf(V[i][h], g), FkOf(V[j][k], g)
               PROVE  h = k /\ \A l \in i..j : FkOf(V[l][h], g)
    BY DEF FkOnce
  <2> QED BY <1>1, <1>2 DEF FkOnce
<1>3. ASSUME FkNowhere(n, W, g)
      PROVE  FkNowhere(n - 1, V, g)
  BY <1>1, <1>3 DEF FkNowhere
<1> QED BY <1>2, <1>3 DEF V

(* What of two queues belongs to P: at most one message *)
FkSome(a, b, P) == (\E k \in DOMAIN a : a[k] \in P) \/ (\E k \in DOMAIN b : b[k] \in P)
FkOne(a, b, P) ==
  /\ \A k, l \in DOMAIN a : a[k] \in P /\ a[l] \in P => k = l
  /\ \A k, l \in DOMAIN b : b[k] \in P /\ b[l] \in P => k = l
  /\ ~((\E k \in DOMAIN a : a[k] \in P) /\ (\E k \in DOMAIN b : b[k] \in P))

LEMMA FkTurned ==
  ASSUME NEW a, NEW b, NEW P
  PROVE  (FkOne(a, b, P) <=> FkOne(b, a, P)) /\ (FkSome(a, b, P) <=> FkSome(b, a, P))
  BY DEF FkOne, FkSome

LEMMA FkTakes ==
  ASSUME NEW T, NEW a \in Seq(T), a # <<>>, NEW b, NEW P, FkOne(a, b, P)
  PROVE  /\ FkOne(Tail(a), b, P)
         /\ FkSome(Tail(a), b, P) => FkSome(a, b, P) /\ Head(a) \notin P
         /\ Head(a) \in P => FkSome(a, b, P)
<1> DEFINE p == Tail(a)
<1>1. PICK n : n = Len(a)
  OBVIOUS
<1>2. /\ n \in Nat /\ n > 0 /\ DOMAIN a = 1..n /\ DOMAIN p = 1..(n - 1) /\ Head(a) = a[1]
      /\ \A k \in DOMAIN p : p[k] = a[k + 1] /\ k + 1 \in DOMAIN a /\ k + 1 # 1
      /\ 1 \in DOMAIN a
  BY <1>1
<1> HIDE DEF p
<1>3. FkOne(p, b, P)
  <2>1. ASSUME NEW k \in DOMAIN p, NEW l \in DOMAIN p, p[k] \in P, p[l] \in P
        PROVE  k = l
    BY <1>2, <2>1 DEF FkOne
  <2> QED BY <1>2, <2>1 DEF FkOne
<1>4. ASSUME FkSome(p, b, P) PROVE FkSome(a, b, P) /\ a[1] \notin P
  <2>1. CASE \E k \in DOMAIN p : p[k] \in P
    BY <1>2, <2>1 DEF FkSome, FkOne
  <2>2. CASE \E k \in DOMAIN b : b[k] \in P
    BY <1>2, <2>2 DEF FkSome, FkOne
  <2> QED BY <1>4, <2>1, <2>2 DEF FkSome
<1> QED BY <1>2, <1>3, <1>4 DEF p, FkSome

LEMMA FkJoins ==
  ASSUME NEW T, NEW a \in Seq(T), NEW f \in Seq(T), NEW b, NEW P, FkOne(a, b, P),
         \/ \A k \in DOMAIN f : f[k] \notin P
         \/ ~FkSome(a, b, P) /\ \A k, l \in DOMAIN f : f[k] \in P /\ f[l] \in P => k = l
  PROVE  /\ FkOne(a \o f, b, P)
         /\ FkSome(a \o f, b, P) => FkSome(a, b, P) \/ \E k \in DOMAIN f : f[k] \in P
<1> DEFINE p == a \o f
<1>1. PICK n : n = Len(a)
  OBVIOUS
<1>2. /\ n \in Nat /\ DOMAIN a \subseteq Nat /\ DOMAIN p \subseteq Nat
      /\ \A k \in DOMAIN p : (k \in DOMAIN a /\ p[k] = a[k])
                              \/ (k - n \in DOMAIN f /\ p[k] = f[k - n])
  BY <1>1
<1> HIDE DEF p
<1>3. ASSUME NEW k \in DOMAIN p, NEW l \in DOMAIN p, p[k] \in P, p[l] \in P
      PROVE  k = l
  <2>1. CASE \A i \in DOMAIN f : f[i] \notin P
    BY <1>2, <1>3, <2>1 DEF FkOne
  <2>2. CASE ~FkSome(a, b, P) /\ \A i, j \in DOMAIN f : f[i] \in P /\ f[j] \in P => i = j
    BY <1>2, <1>3, <2>2 DEF FkSome
  <2> QED BY <2>1, <2>2
<1>4. ASSUME FkSome(p, b, P)
      PROVE  FkSome(a, b, P) \/ \E k \in DOMAIN f : f[k] \in P
  BY <1>2, <1>4 DEF FkSome
<1>5. ~((\E k \in DOMAIN p : p[k] \in P) /\ (\E k \in DOMAIN b : b[k] \in P))
  <2> SUFFICES ASSUME NEW k \in DOMAIN p, p[k] \in P, NEW l \in DOMAIN b, b[l] \in P
               PROVE  FALSE
    OBVIOUS
  <2> QED BY <1>2 DEF FkOne, FkSome
<1> QED BY <1>3, <1>4, <1>5 DEF FkOne, p

(* One message more *)
LEMMA FkAppends ==
  ASSUME NEW T, NEW a \in Seq(T), NEW m \in T, NEW b, NEW P, FkOne(a, b, P),
         m \in P => ~FkSome(a, b, P)
  PROVE  /\ FkOne(Append(a, m), b, P)
         /\ FkSome(Append(a, m), b, P) => FkSome(a, b, P) \/ m \in P
<1> DEFINE f == <<m>>
<1>1. f \in Seq(T) /\ Append(a, m) = a \o f /\ DOMAIN f = {1} /\ f[1] = m
  OBVIOUS
<1> HIDE DEF f
<1> QED BY <1>1, FkJoins

LEMMA FkAgrees ==
  ASSUME NEW a, NEW b, NEW P, NEW Q, \A k \in DOMAIN a : a[k] \in P <=> a[k] \in Q,
         \A k \in DOMAIN b : b[k] \in P <=> b[k] \in Q
  PROVE  (FkOne(a, b, P) <=> FkOne(a, b, Q)) /\ (FkSome(a, b, P) <=> FkSome(a, b, Q))
  BY DEF FkOne, FkSome

(* What will add g to the modem: a turn of its command, or a call *)
FkAdding(g) ==
  {m \in GfQueued :
     \/ m.kind = "call" /\ m.op = "add" /\ m.g = g
     \/ /\ m.kind = "turn" /\ GfNames(m.cmd, m.i)
        /\ cmds[m.cmd].op = "add" /\ cmds[m.cmd].gs[m.i] = g}
FkComes(g) == FkSome(api, inbox, FkAdding(g))

(* The entry f says of a geofence what the modem has, e *)
FkLike(f, e) ==
  /\ f = None <=> e = None
  /\ f # None => f.g = e.g /\ f.opt = e.opt /\ (ssrs = 0 => f.paused = e.paused)

(* The messages on their way lead the maps to what the modem has *)
FkFuture(W) ==
  /\ FkFollows(inbox, W, fences)
  /\ up => \A h \in HwId : FkLike(W[Len(inbox)][h], engine[h])
  /\ \A g \in Geofence : /\ FkOnce(Len(inbox), W, g)
                         /\ FkComes(g) \/ g \notin Named => FkNowhere(Len(inbox), W, g)
FkFutures == \E W : FkFuture(W)

(* Nothing is about to add a geofence twice *)
FkTokens ==
  \A g \in Geofence : FkOne(api, inbox, FkAdding(g)) /\ (FkComes(g) => g \in Named)

FkPaired == \A g \in Geofence, h \in HwId : ids[g] = h <=> FkOf(fences[h], g)

(* Who has not restarted has no restart under way, who is not suspended ... *)
FkOrderly ==
  /\ powers = 0 => ~suspended
  /\ \A k \in DOMAIN api : api[k].kind = "call" =>
       api[k].why # "gone" /\ (ssrs = 0 => api[k].why # "repause" /\ api[k].why # "restart")
  /\ \A k \in DOMAIN inbox : inbox[k].kind = "reply" =>
       /\ inbox[k].call.why # "gone"
       /\ ssrs = 0 => inbox[k].call.why # "repause" /\ inbox[k].call.why # "restart"
  /\ ssrs = 0 => up /\ \A k \in DOMAIN inbox : inbox[k] # EngineUp

FkInv == Settled => FkFutures /\ FkTokens /\ FkPaired /\ FkOrderly

LEMMA FkNamedGrows ==
  ASSUME GfTyped, GfCmdsGo
  PROVE  /\ Named \subseteq Named'
         /\ \A c, i : GfNames(c, i) => cmds[c].gs[i] \in Named
<1>1. /\ DOMAIN cmds = 1..Len(cmds) /\ DOMAIN cmds' = 1..Len(cmds')
      /\ Len(cmds) \in Nat /\ Len(cmds') \in Nat /\ Len(cmds) <= Len(cmds')
  BY GfTypesOfParts DEF GfCmdsGo
<1> QED BY <1>1 DEF GfNames, Named, Members, GfCmdsGo

(* What comes is the same in the commands of the next state *)
LEMMA FkComesStays ==
  ASSUME GfTyped, GfCmdsGo, NEW g, NEW Q, Q = FkAdding(g)'
  PROVE  /\ FkOne(api, inbox, FkAdding(g)) <=> FkOne(api, inbox, Q)
         /\ FkComes(g) <=> FkSome(api, inbox, Q)
<1>1. PICK P : P = FkAdding(g)
  OBVIOUS
<1>3. ASSUME NEW m, m \in Turn => GfNames(m.cmd, m.i)
      PROVE  m \in P <=> m \in Q
  BY <1>1, <1>3, GfRecords, GfTypesOfParts DEF FkAdding, GfQueued, GfNames, GfCmdsGo
<1>5. \A k \in DOMAIN inbox : inbox[k] \in P <=> inbox[k] \in Q
  BY <1>3, GfTypesOfParts, GfRecords DEF GfInboxTypes, GfArrivedOK
<1> QED BY <1>1, <1>3, <1>5, FkAgrees, GfTypesOfParts, GfRecords DEF FkComes, GfApiTypes,
  GfQueuedOK, GfCallOK

LEMMA FkThenTyped ==
  ASSUME NEW m, GfArrivedOK(m), NEW h \in HwId, NEW e \in GfEntry
  PROVE  FkThen(m, h, e) \in GfEntry
<1>1. CASE m.kind # "reply" \/ ~m.ok
  BY <1>1 DEF FkThen, GfEntry
<1>2. CASE m.kind = "reply" /\ m.ok
  <2>1. PICK call : call = m.call
    OBVIOUS
  <2> QED BY <1>2, <2>1, GfFences, GfRecords DEF FkThen, GfEntry, Operation, GfCallOK,
    GfArrivedOK, EngineUp
<1> QED BY <1>1, <1>2

LEMMA FkQueues ==
  ASSUME GfTyped
  PROVE  /\ api \in Seq(GfQueued \cup GfArrived) /\ inbox \in Seq(GfQueued \cup GfArrived)
         /\ inbox \in Seq(GfArrived) /\ Len(inbox) \in Nat /\ DOMAIN inbox = 1..Len(inbox)
         /\ api \in Seq(GfQueued)
  BY GfTypesOfParts DEF GfApiTypes, GfInboxTypes

(* A message comes that changes what the maps will be to new *)
LEMMA FkFutureMore ==
  ASSUME GfTyped, GfTyped', GfCmdsGo, FkTokens, NEW W, FkFuture(W),
         NEW m, GfArrivedOK(m), inbox' = Append(inbox, m), UNCHANGED fences, NEW new \in FkMap,
         \A h \in HwId : /\ new[h] = FkThen(m, h, W[Len(inbox)][h])
                         /\ FkSaves(m, h) => W[Len(inbox)][h] = None,
         up' => \A h \in HwId : FkLike(new[h], engine[h])',
         \A g \in Geofence : FkComes(g)' => FkComes(g),
         \A g \in Geofence :
           \/ \A h \in HwId : FkOf(new[h], g) => FkOf(W[Len(inbox)][h], g)
           \/ /\ FkComes(g) /\ ~FkComes(g)'
              /\ \A h, k \in HwId : FkOf(new[h], g) /\ FkOf(new[k], g) => h = k
  PROVE  FkFutures'
<1>1. PICK n, V : n = Len(inbox) /\ V = FkMore(n, W, new)
  OBVIOUS
<1>2. n \in Nat /\ Len(inbox') = n + 1 /\ inbox \in Seq(GfArrived) /\ m \in GfArrived
      /\ n \in 0..n
  BY <1>1, FkQueues DEF GfArrivedOK, GfArrived
<1>5. ASSUME NEW g \in Geofence
      PROVE  /\ FkOnce(Len(inbox), V, g)'
             /\ FkComes(g)' \/ g \notin Named' => FkNowhere(Len(inbox), V, g)'
  <2>1. FkOnce(n, W, g) /\ (FkComes(g) \/ g \notin Named => FkNowhere(n, W, g))
    BY <1>1 DEF FkFuture
  <2>4. CASE \A h \in HwId : FkOf(new[h], g) => FkOf(W[n][h], g)
    BY <1>1, <1>2, <2>1, <2>4, FkOnceMore, FkNamedGrows DEF FkNowhere
  <2>5. CASE /\ FkComes(g) /\ ~FkComes(g)'
             /\ \A h, k \in HwId : FkOf(new[h], g) /\ FkOf(new[k], g) => h = k
    BY <1>1, <1>2, <2>1, <2>5, FkOnceMore, FkNamedGrows DEF FkTokens
  <2> QED BY <1>1, <2>4, <2>5
<1> QED BY <1>1, <1>2, <1>5, FkFollowsMore DEF FkFuture, FkFutures, FkMore

(* The head of the inbox is handled *)
LEMMA FkFutureLess ==
  ASSUME GfTyped, GfTyped', GfCmdsGo, FkTokens, NEW W, FkFuture(W),
         inbox # <<>>, inbox' = Tail(inbox), UNCHANGED <<engine, up, ssrs>>,
         \A h \in HwId : fences'[h] = FkThen(Head(inbox), h, fences[h]),
         \A g \in Geofence : FkComes(g)' =>
           FkComes(g) \/ FkNowhere(Len(inbox) - 1, FkLess(Len(inbox), W), g)
  PROVE  FkFutures'
<1>1. PICK n, V : n = Len(inbox) /\ V = FkLess(n, W)
  OBVIOUS
<1>2. n \in Nat /\ n > 0 /\ Len(inbox') = n - 1 /\ inbox \in Seq(GfArrived)
      /\ Head(inbox) = inbox[1] /\ 1 \in 1..n
  BY <1>1, FkQueues
<1>4. W[1] = fences'
  <2>1. W[1] \in FkMap /\ W[0] = fences /\ \A h \in HwId : W[1][h] = FkThen(inbox[1], h, W[0][h])
    BY <1>1, <1>2 DEF FkFuture, FkFollows
  <2> QED BY <1>2, <2>1, GfTypesOfPartsNext DEF FkMap, GfMapTypes
<1>5. up' => \A h \in HwId : FkLike(V[Len(inbox)][h], engine[h])'
  BY <1>1, <1>2 DEF FkLess, FkFuture, FkLike
<1>6. ASSUME NEW g \in Geofence
      PROVE  /\ FkOnce(Len(inbox), V, g)'
             /\ FkComes(g)' \/ g \notin Named' => FkNowhere(Len(inbox), V, g)'
  BY <1>1, <1>2, FkNamedGrows, FkOnceLess DEF FkFuture
<1> QED BY <1>1, <1>2, <1>4, <1>5, <1>6, FkFollowsLess DEF FkFuture, FkFutures

(* Nothing arrives or is handled *)
LEMMA FkFutureSame ==
  ASSUME GfTyped, GfTyped', GfCmdsGo, FkFutures, UNCHANGED <<inbox, fences>>,
         up' => up /\ UNCHANGED <<engine, ssrs>>,
         \A g \in Geofence : FkComes(g)' => FkComes(g) \/ g \notin Named
  PROVE  FkFutures'
<1>1. PICK W : FkFuture(W)
  BY DEF FkFutures
<1>4. ASSUME NEW g \in Geofence
      PROVE  /\ FkOnce(Len(inbox), W, g)'
             /\ FkComes(g)' \/ g \notin Named' => FkNowhere(Len(inbox), W, g)'
  BY <1>1, FkNamedGrows DEF FkFuture
<1> QED BY <1>1, <1>4 DEF FkFuture, FkFutures, FkLike

FkStill ==
  \A g \in Geofence :
    FkOne(api, inbox, FkAdding(g))' /\ (FkComes(g)' => FkComes(g))

LEMMA FkStillNext ==
  ASSUME GfTyped, GfCmdsGo, NEW g \in Geofence, NEW Q, Q = FkAdding(g)',
         FkOne(api', inbox', Q), FkSome(api', inbox', Q) => FkSome(api, inbox, Q)
  PROVE  FkOne(api, inbox, FkAdding(g))' /\ (FkComes(g)' => FkComes(g))
  BY FkComesStays DEF FkComes

LEMMA FkStillTokens ==
  ASSUME GfTyped, GfCmdsGo, FkTokens, FkStill
  PROVE  FkTokens'
  BY FkNamedGrows DEF FkTokens, FkStill

(* Calls that add nothing are queued *)
LEMMA FkStillJoins ==
  ASSUME GfTyped, GfCmdsGo, FkTokens, NEW f \in Seq(GfQueued),
         \A k \in DOMAIN f : f[k].kind = "call" /\ f[k].op # "add",
         api' = api \o f, UNCHANGED inbox
  PROVE  FkStill
<1> SUFFICES ASSUME NEW g \in Geofence
             PROVE  FkOne(api, inbox, FkAdding(g))' /\ (FkComes(g)' => FkComes(g))
  BY DEF FkStill
<1>1. PICK Q : Q = FkAdding(g)'
  OBVIOUS
<1>3. \A k \in DOMAIN f : f[k] \notin Q
  BY <1>1 DEF FkAdding
<1>4. PICK p : p = api \o f
  OBVIOUS
<1> QED BY <1>1, <1>3, <1>4, FkStillNext, FkQueues, FkJoins, FkComesStays DEF FkTokens

(* A message that adds nothing arrives, or is answered *)
LEMMA FkStillArrives ==
  ASSUME GfTyped, GfCmdsGo, FkTokens, NEW m, GfArrivedOK(m), m.kind # "turn", m.kind # "call",
         inbox' = Append(inbox, m), UNCHANGED api \/ (api # <<>> /\ api' = Tail(api))
  PROVE  /\ FkStill
         /\ api # <<>> /\ api' = Tail(api) =>
              \A g \in Geofence : Head(api) \in FkAdding(g)' => FkComes(g) /\ ~FkComes(g)'
<1> SUFFICES ASSUME NEW g \in Geofence
             PROVE  /\ FkOne(api, inbox, FkAdding(g))' /\ (FkComes(g)' => FkComes(g))
                    /\ api # <<>> /\ api' = Tail(api) =>
                         (Head(api) \in FkAdding(g)' => FkComes(g) /\ ~FkComes(g)')
  BY DEF FkStill
<1>1. PICK Q : Q = FkAdding(g)'
  OBVIOUS
<1>2. PICK p : p = api'
  OBVIOUS
<1>3. FkOne(api, inbox, Q) /\ (FkComes(g) <=> FkSome(api, inbox, Q))
  BY <1>1, FkComesStays DEF FkTokens
<1>4. m \notin Q /\ m \in GfQueued \cup GfArrived
  BY <1>1 DEF FkAdding, GfArrivedOK, GfArrived
<1>5. /\ FkOne(p, inbox, Q) /\ (FkSome(p, inbox, Q) => FkSome(api, inbox, Q))
      /\ p # api => (Head(api) \in Q => FkSome(api, inbox, Q) /\ ~FkSome(p, inbox, Q))
  <2>1. CASE p = api
    BY <1>3, <2>1
  <2>2. CASE api # <<>> /\ p = Tail(api)
    BY <1>3, <2>2, FkQueues, FkTakes
  <2> QED BY <1>2, <2>1, <2>2
<1>7. PICK b : b = Append(inbox, m)
  OBVIOUS
<1>9. FkOne(p, b, Q) /\ (FkSome(p, b, Q) => FkSome(p, inbox, Q))
  BY <1>4, <1>5, <1>7, FkTurned, FkQueues, FkAppends
<1>11. api # <<>> /\ api' = Tail(api) => p # api
  <2>1. PICK n : n = Len(api)
    OBVIOUS
  <2> QED BY <1>2, <2>1, FkQueues
<1> QED BY <1>1, <1>2, <1>3, <1>5, <1>7, <1>9, <1>11, FkStillNext DEF FkComes

LEMMA FkStillTurns ==
  ASSUME GfTyped, FkTokens, ApiTurn
  PROVE  FkStill
<1>1. /\ api # <<>> /\ inbox' = Append(inbox, Head(api)) /\ api' = Tail(api) /\ UNCHANGED cmds
      /\ GfCmdsGo /\ Head(api) \in GfQueued \cup GfArrived
  BY FkQueues, GfCmdsStay, GfUnqueue DEF ApiTurn, GfQueuedOK, GfQueued, GfCallOK
<1> SUFFICES ASSUME NEW g \in Geofence
             PROVE  FkOne(api, inbox, FkAdding(g))' /\ (FkComes(g)' => FkComes(g))
  BY DEF FkStill
<1>2. PICK Q, m, p, b : Q = FkAdding(g)' /\ m = Head(api) /\ p = Tail(api) /\ b = Append(inbox, m)
  OBVIOUS
<1> QED BY <1>1, <1>2, FkStillNext, FkTurned, FkQueues, FkAppends, FkTakes, FkComesStays
  DEF FkTokens

(* A message is handled; the call that may follow adds what it would *)
LEMMA FkStillTaken ==
  ASSUME GfTyped, GfCmdsGo, FkTokens, inbox # <<>>, inbox' = Tail(inbox), NEW m,
         \/ UNCHANGED api
         \/ /\ api' = Append(api, m) /\ m \in GfQueued
            /\ \A g \in Geofence : m \in FkAdding(g)' => Head(inbox) \in FkAdding(g)'
  PROVE  FkStill
<1> SUFFICES ASSUME NEW g \in Geofence
             PROVE  FkOne(api, inbox, FkAdding(g))' /\ (FkComes(g)' => FkComes(g))
  BY DEF FkStill
<1>1. PICK Q, b, p : Q = FkAdding(g)' /\ b = Tail(inbox) /\ p = Append(api, m)
  OBVIOUS
<1>3. FkOne(inbox, api, Q) /\ (FkSome(inbox, api, Q) <=> FkSome(api, inbox, Q))
  BY <1>1, FkTurned, FkComesStays DEF FkTokens
<1>4. /\ FkOne(b, api, Q)
      /\ FkSome(b, api, Q) => FkSome(inbox, api, Q) /\ Head(inbox) \notin Q
      /\ Head(inbox) \in Q => FkSome(inbox, api, Q)
  BY <1>1, <1>3, FkQueues, FkTakes
<1>5. FkOne(api, b, Q) /\ (FkSome(api, b, Q) <=> FkSome(b, api, Q))
  BY <1>4, FkTurned
<1>6. CASE UNCHANGED api
  BY <1>1, <1>3, <1>4, <1>5, <1>6, FkStillNext
<1>7. CASE api' = Append(api, m) /\ m \in GfQueued /\ (m \in Q => Head(inbox) \in Q)
  BY <1>1, <1>3, <1>4, <1>5, <1>7, FkQueues, FkAppends, FkStillNext
<1> QED BY <1>1, <1>6, <1>7

FkNow == FkFutures /\ FkTokens /\ FkPaired /\ FkOrderly

LEMMA FkStillStays ==
  ASSUME GfTyped, GfCmdsGo, FkTokens, UNCHANGED <<api, inbox>>
  PROVE  FkStill
  BY FkComesStays, FkStillNext DEF FkStill, FkTokens

LEMMA FkSettled ==
  ASSUME GfTyped, [Next]_vars, Settled'
  PROVE  Settled
<1>1. powers \in Nat /\ ssrs \in Nat /\ clients \in SUBSET Client
  BY GfTypesOfParts
<1>2. CASE \E client \in Client : StopClientSessions(client)
  BY <1>1, <1>2 DEF StopClientSessions, Settled
<1>3. CASE \/ \E suspend \in BOOLEAN : UpdateSystemPowerState(suspend)
           \/ ModemDown
  BY <1>1, <1>3 DEF UpdateSystemPowerState, ModemDown, Settled
<1>4. ASSUME UNCHANGED <<clients, powers, ssrs>> PROVE Settled
  BY <1>4 DEF Settled
<1>5. CASE \E op \in Operation, gs \in Batches, opt \in Option : Issue(op, gs, opt)
  BY <1>4, <1>5 DEF Issue, counters
<1>6. CASE ModemUp \/ (\E h \in HwId : GeofenceBreachEvent(h)) \/ ApiNext
  BY <1>4, <1>6 DEF ModemUp, GeofenceBreachEvent, ApiNext, ApiTurn, ApiCall, ApiFail, counters
<1>7. CASE HandleTurn \/ GfHandleReply \/ HandleEngineUp \/ HandleBreach
  BY <1>4, <1>7 DEF HandleTurn, GfHandleReply, HandleEngineUp, HandleBreach, HandleClientReply,
    HandleGoneReply, HandlePowerReply, HandleRestartReply, counters
<1>8. CASE UNCHANGED vars
  BY <1>4, <1>8 DEF vars, counters
<1> QED BY <1>2, <1>3, <1>5, <1>6, <1>7, <1>8, GfActions DEF GfEnvironment

(* The entries once all messages on their way are handled *)
LEMMA FkLast ==
  ASSUME GfTyped, NEW W, FkFuture(W)
  PROVE  W[Len(inbox)] \in FkMap
  BY FkQueues DEF FkFuture, FkFollows

LEMMA FkPowerChanges ==
  ASSUME GfTyped, GfTyped', GfCmdsGo, FkNow, Settled',
         NEW suspend \in BOOLEAN, UpdateSystemPowerState(suspend)
  PROVE  FkNow'
<1> DEFINE op == IF suspend THEN "pause" ELSE "resume"
           S == {g \in Geofence : ids[g] # None}
<1>1. PICK order \in Orders(S) :
        api' = api \o [i \in DOMAIN order |-> NewCall(op, order[i], ids[order[i]], "power")]
  BY DEF UpdateSystemPowerState
<1>2. UNCHANGED <<maps, clients, cmds, inbox, modem, ssrs>> /\ powers' = powers + 1
  BY DEF UpdateSystemPowerState
<1>4. order \in Seq(S) /\ DOMAIN order = 1..Len(order) /\ Len(order) \in Nat
  BY <1>1, GfOrder, FiniteAssumption, FS_Subset
<1>5. ASSUME NEW g \in S
      PROVE  /\ NewCall(op, g, ids[g], "power") \in GfQueued
             /\ NewCall(op, g, ids[g], "power").kind = "call"
             /\ NewCall(op, g, ids[g], "power").op # "add"
             /\ NewCall(op, g, ids[g], "power").why = "power"
  <2>1. ids[g] \in HwId /\ g \in Geofence
    BY GfTypesOfParts DEF GfMapTypes
  <2>2. op \in {"pause", "resume"}
    OBVIOUS
  <2> HIDE DEF op, S
  <2>3. PICK m : m = NewCall(op, g, ids[g], "power")
    OBVIOUS
  <2> QED BY <2>1, <2>2, <2>3, GfRecords, GfNewCall DEF GfQueued, Operation
<1> HIDE DEF S, op
<1>6. PICK f : f = [i \in DOMAIN order |-> NewCall(op, order[i], ids[order[i]], "power")]
  OBVIOUS
<1>7. /\ f \in [1..Len(order) -> GfQueued] /\ DOMAIN f = 1..Len(order)
      /\ \A k \in DOMAIN f : f[k].kind = "call" /\ f[k].op # "add" /\ f[k].why = "power"
  BY <1>4, <1>5, <1>6
<1>8. f \in Seq(GfQueued)
  BY <1>4, <1>7, SequenceOfFunction
<1>9. FkStill
  BY <1>1, <1>2, <1>6, <1>7, <1>8, FkStillJoins DEF FkNow
<1>12. FkOrderly'
  <2>1. powers \in Nat /\ powers' # 0
    BY <1>2, GfTypesOfParts
  <2>2. api' = api \o f /\ api \in Seq(GfQueued)
    BY <1>1, <1>6, FkQueues
  <2>3. FkOrderly
    BY DEF FkNow
  <2>4. \A k \in DOMAIN api' : \/ k \in DOMAIN api /\ api'[k] = api[k]
                             \/ \E j \in DOMAIN f : api'[k] = f[j]
    BY <1>8, <2>2, GfConcat
  <2> QED BY <1>2, <1>7, <2>1, <2>3, <2>4 DEF FkOrderly, modem
<1> QED BY <1>2, <1>9, <1>12, FkStillTokens, FkFutureSame DEF FkNow, FkStill, maps, modem,
  FkPaired

LEMMA FkModemChanges ==
  ASSUME GfTyped, GfTyped', GfCmdsGo, FkNow, Settled',
         ModemDown \/ ModemUp \/ \E h \in HwId : GeofenceBreachEvent(h)
  PROVE  FkNow'
<1>0. /\ UNCHANGED <<maps, suspended, clients, cmds, api, powers>>
      /\ ssrs \in Nat /\ up \in BOOLEAN /\ \A h \in HwId : ~up => engine[h] = None
  BY GfTypesOfParts DEF ModemDown, ModemUp, GeofenceBreachEvent, modem, counters, GfModemTypes
<1>p. FkPaired'
  BY <1>0 DEF FkPaired, FkNow, maps
<1>1. CASE ModemDown
  BY <1>p, <1>0, <1>1, FkStillStays, FkFutureSame, FkStillTokens DEF ModemDown, FkNow, FkStill,
    maps, FkOrderly
<1>2. ASSUME NEW m, GfArrivedOK(m), m.kind \notin {"turn", "call", "reply"},
             inbox' = Append(inbox, m), m = EngineUp => ~up, m # EngineUp => up,
             up', UNCHANGED <<engine, ssrs>>
      PROVE  FkNow'
  <2>1. FkStill
    BY <1>0, <1>2, FkStillArrives DEF FkNow
  <2>2. PICK W : FkFuture(W)
    BY DEF FkNow, FkFutures
  <2>3. PICK last : last = W[Len(inbox)]
    OBVIOUS
  <2>4. PICK new : new = [h \in HwId |-> IF m = EngineUp THEN None ELSE last[h]]
    OBVIOUS
  <2>5. last \in FkMap /\ new \in FkMap
    BY <2>2, <2>3, <2>4, FkLast DEF FkMap, GfEntry
  <2>6. \A h \in HwId : /\ new[h] = FkThen(m, h, last[h]) /\ ~FkSaves(m, h)
                        /\ (new[h] = last[h] \/ new[h] = None)
    BY <1>2, <2>4 DEF FkThen, FkSaves
  <2>7. \A h \in HwId : FkLike(new[h], engine[h])'
    BY <1>0, <1>2, <2>2, <2>3, <2>4 DEF FkLike, FkFuture
  <2>8. \A g, h : FkOf(new[h], g) /\ h \in HwId => FkOf(last[h], g)
    BY <2>6 DEF FkOf
  <2>9. FkFutures'
    BY <1>0, <1>2, <2>1, <2>2, <2>3, <2>5, <2>6, <2>7, <2>8, FkFutureMore DEF FkNow, FkStill, maps
  <2> QED BY <1>p, <1>0, <1>2, <2>1, <2>9, FkStillTokens, FkQueues DEF FkNow, FkOrderly
<1>3. CASE ModemUp
  BY <1>2, <1>3 DEF ModemUp, counters, EngineUp, GfArrivedOK
<1>4. ASSUME NEW h \in HwId, GeofenceBreachEvent(h)
      PROVE  FkNow'
  <2>1. PICK m : m = [kind |-> "breach", h |-> h, g |-> engine[h].g]
    OBVIOUS
  <2>2. m \in Breach /\ m.kind = "breach" /\ m # EngineUp
    BY <1>4, <2>1, GfTypesOfParts, GfRecords DEF GeofenceBreachEvent, GfModemTypes, GfEntry,
      Breach
  <2> QED BY <1>2, <1>4, <2>1, <2>2 DEF GeofenceBreachEvent, modem, counters, GfArrivedOK
<1> QED BY <1>1, <1>3, <1>4

(* What a call leaves of an entry, and of what the modem has *)
LEMMA FkEdits ==
  ASSUME NEW e \in Fence
  PROVE  /\ \A b \in BOOLEAN : LET f == [e EXCEPT !.paused = b] IN
              f \in Fence /\ f.g = e.g /\ f.opt = e.opt /\ f.paused = b
         /\ \A opt \in Option : LET f == [e EXCEPT !.opt = opt] IN
              f \in Fence /\ f.g = e.g /\ f.opt = opt /\ f.paused = e.paused
  BY DEF Fence

(* The modem did what it was asked, and not to add *)
FkEdited(call, e) ==
  CASE call.op = "remove" -> None
    [] call.op = "pause" -> [e EXCEPT !.paused = TRUE]
    [] call.op = "resume" -> [e EXCEPT !.paused = FALSE]
    [] call.op = "modify" -> [e EXCEPT !.opt = call.opt]

LEMMA FkDone ==
  ASSUME NEW m, NEW call, m.kind = "reply", m.call = call, m.ok, m # EngineUp,
         GfCallOK(call), call.op # "add", NEW d \in GfEntry, NEW e \in Fence, FkLike(d, e),
         ssrs = 0 => call.why # "repause", NEW e2,
         e2 = FkEdited(call, e)
  PROVE  /\ FkLike(FkThen(m, call.h, d), e2)
         /\ \A g : FkOf(FkThen(m, call.h, d), g) => FkOf(d, g)
<1>1. /\ call.op \in Operation /\ (call.op = "modify" => call.opt \in Option)
      /\ call.why = "repause" => call.op = "pause"
  BY GfRecords DEF GfCallOK
<1>2. d \in Fence /\ d # None /\ e # None /\ d.g = e.g /\ d.opt = e.opt
      /\ (ssrs = 0 => d.paused = e.paused)
  BY GfRecords DEF FkLike, GfEntry
<1>3. CASE call.op = "remove"
  BY <1>1, <1>2, <1>3 DEF FkThen, FkLike, FkOf, FkEdited
<1>4. ASSUME NEW b \in BOOLEAN, call.op = IF b THEN "pause" ELSE "resume"
      PROVE  /\ FkLike(FkThen(m, call.h, d), e2)
             /\ \A g : FkOf(FkThen(m, call.h, d), g) => FkOf(d, g)
  <2>1. PICK f, f2 : f = [d EXCEPT !.paused = b] /\ f2 = [e EXCEPT !.paused = b]
    OBVIOUS
  <2>3. e2 = f2
    BY <1>4, <2>1 DEF FkEdited
  <2>4. FkThen(m, call.h, d) = IF call.why = "repause" THEN d ELSE f
    BY <1>2, <1>4, <2>1 DEF FkThen
  <2> QED BY <1>2, <2>1, <2>3, <2>4, FkEdits, GfRecords DEF FkLike, FkOf
<1>5. CASE call.op = "modify"
  <2>1. PICK f, f2 : f = [d EXCEPT !.opt = call.opt] /\ f2 = [e EXCEPT !.opt = call.opt]
    OBVIOUS
  <2>3. e2 = f2 /\ FkThen(m, call.h, d) = f
    BY <1>1, <1>2, <1>5, <2>1 DEF FkThen, FkEdited
  <2> QED BY <1>1, <1>2, <1>5, <2>1, <2>3, FkEdits, GfRecords DEF FkLike, FkOf
<1> QED BY <1>1, <1>3, <1>4, <1>5 DEF Operation

LEMMA FkApi ==
  ASSUME GfTyped, GfTyped', GfCmdsGo, FkNow, ApiNext
  PROVE  FkNow'
<1>0. /\ UNCHANGED <<maps, suspended, clients, cmds, powers, ssrs, up>>
      /\ api # <<>> /\ api' = Tail(api) /\ GfModemTypes
  BY GfTypesOfParts DEF ApiNext, ApiTurn, ApiCall, ApiFail, modem, counters, Answer
<1>1. PICK W : FkFuture(W)
  BY DEF FkNow, FkFutures
<1>2. PICK n, last, head : n = Len(inbox) /\ last = W[n] /\ head = Head(api)
  OBVIOUS
<1>3. last \in FkMap /\ n \in Nat /\ (up => \A h \in HwId : FkLike(last[h], engine[h]))
  BY <1>1, <1>2, FkLast, FkQueues DEF FkFuture
<1>4. GfQueuedOK(head) /\ head = api[1] /\ 1 \in DOMAIN api
  BY <1>0, <1>2, GfUnqueue
<1>6. ASSUME NEW m, GfArrivedOK(m), inbox' = Append(inbox, m), FkStill,
             m \in Turn \/ (m.kind = "reply" /\ m.call = head /\ head.kind = "call"),
             FkFutures'
      PROVE  FkNow'
  BY <1>0, <1>2, <1>4, <1>6, FkQueues, GfRecords, FkStillTokens DEF FkPaired, FkNow, maps,
    EngineUp, FkOrderly
<1>12. ASSUME NEW m, GfArrivedOK(m), inbox' = Append(inbox, m), FkStill, NEW new \in FkMap,
              \A h \in HwId : /\ new[h] = FkThen(m, h, last[h])
                              /\ FkSaves(m, h) => last[h] = None,
              up' => \A h \in HwId : FkLike(new[h], engine[h])',
              \A g \in Geofence :
                \/ \A h \in HwId : FkOf(new[h], g) => FkOf(last[h], g)
                \/ /\ FkComes(g) /\ ~FkComes(g)'
                   /\ \A h, k \in HwId : FkOf(new[h], g) /\ FkOf(new[k], g) => h = k
       PROVE  FkFutures'
  <2> HIDE <1>0, <1>2
  <2> QED BY <1>0, <1>1, <1>2, <1>12, FkFutureMore DEF maps, FkNow, FkStill
<1>7. ASSUME NEW m, GfArrivedOK(m), inbox' = Append(inbox, m), FkStill,
             m.kind = "turn" \/ (m.kind = "reply" /\ ~m.ok), UNCHANGED engine
      PROVE  FkFutures'
  <2>1. m # EngineUp
    BY <1>7 DEF EngineUp
  <2> QED BY <1>0, <1>3, <1>7, <1>12, <2>1 DEF FkThen, FkSaves, FkLike
<1>8. CASE ApiTurn
  BY <1>2, <1>4, <1>6, <1>7, <1>8, GfRecords, FkStillTurns DEF ApiTurn, GfQueuedOK, GfArrivedOK,
    GfCallOK, modem, FkNow
<1>9. ASSUME NEW ok \in BOOLEAN, NEW h \in HwId \cup {None}, Answer(ok, h),
             ok => h \in HwId /\ (head.op # "add" => h = head.h), head.kind = "call"
      PROVE  \E m : /\ m.kind = "reply" /\ m.call = head /\ m.ok = ok /\ m.h = h
                    /\ GfArrivedOK(m) /\ inbox' = Append(inbox, m) /\ FkStill
                    /\ \A g \in Geofence :
                         head \in FkAdding(g)' => FkComes(g) /\ ~FkComes(g)'
  <2>1. PICK m : m = [kind |-> "reply", call |-> head, ok |-> ok, h |-> h]
    OBVIOUS
  <2> QED BY <1>0, <1>2, <1>4, <1>9, <2>1, FkStillArrives, GfRecords DEF FkNow, Answer, Reply,
    GfArrivedOK, GfQueuedOK, GfCallOK
<1>10. CASE ApiFail
  <2>1. head.kind = "call" /\ Answer(FALSE, None) /\ UNCHANGED engine
    BY <1>2, <1>10 DEF ApiFail, modem
  <2>2. PICK m : /\ m.kind = "reply" /\ m.call = head /\ m.ok = FALSE
                 /\ GfArrivedOK(m) /\ inbox' = Append(inbox, m) /\ FkStill
    BY <1>9, <2>1
  <2> QED BY <1>6, <1>7, <2>1, <2>2
<1>11. CASE ApiCall
  <2>1. up /\ head.kind = "call" /\ GfCallOK(head)
    BY <1>2, <1>4, <1>11, GfRecords DEF ApiCall, GfQueuedOK
  <2>2. /\ head.op \in Operation /\ head.g \in Geofence
        /\ head.op # "add" => head.h \in HwId
        /\ head.op = "add" => head.opt \in Option
        /\ ssrs = 0 => head.why # "repause"
    BY <1>4, <2>1, GfRecords DEF GfCallOK, FkNow, FkOrderly
  <2>3. CASE head.op = "add"
    <3>1. PICK x \in HwId : /\ engine[x] = None /\ Answer(TRUE, x)
                            /\ engine' = [engine EXCEPT ![x] =
                                 [g |-> head.g, opt |-> head.opt, paused |-> FALSE]]
      BY <1>2, <1>11, <2>3 DEF ApiCall
    <3>2. PICK m : /\ m.kind = "reply" /\ m.call = head /\ m.ok = TRUE /\ m.h = x
                   /\ GfArrivedOK(m) /\ inbox' = Append(inbox, m) /\ FkStill
                   /\ \A g \in Geofence : head \in FkAdding(g)' => FkComes(g) /\ ~FkComes(g)'
      BY <1>9, <2>1, <2>3, <3>1
    <3>3. PICK f, new : /\ f = [g |-> head.g, opt |-> head.opt, paused |-> FALSE]
                        /\ new = [last EXCEPT ![x] = f]
      OBVIOUS
    <3>4. f \in Fence /\ f.g = head.g /\ f.opt = head.opt /\ f.paused = FALSE /\ f # None
      BY <2>2, <2>3, <3>3, GfFences, GfRecords
    <3>5. /\ new \in FkMap /\ new[x] = f /\ last[x] = None
          /\ \A h \in HwId \ {x} : new[h] = last[h]
      BY <1>3, <2>1, <3>1, <3>3, <3>4 DEF FkMap, GfEntry, FkLike
    <3>7. \A h \in HwId : /\ new[h] = FkThen(m, h, last[h])
                          /\ FkSaves(m, h) => last[h] = None
      BY <2>3, <3>2, <3>3, <3>5 DEF FkThen, FkSaves, EngineUp
    <3>8. /\ engine'[x] = f /\ \A h \in HwId \ {x} : engine'[h] = engine[h]
      BY <1>0, <3>1, <3>3 DEF GfModemTypes
    <3>9. \A h \in HwId : FkLike(new[h], engine[h])'
      BY <1>0, <1>3, <2>1, <3>5, <3>8 DEF FkLike
    <3>11. ASSUME NEW g \in Geofence
           PROVE  \/ \A h \in HwId : FkOf(new[h], g) => FkOf(last[h], g)
                  \/ /\ FkComes(g) /\ ~FkComes(g)'
                     /\ \A h, k \in HwId : FkOf(new[h], g) /\ FkOf(new[k], g) => h = k
      <4>1. CASE g # head.g
        BY <3>4, <3>5, <4>1 DEF FkOf
      <4>2. CASE g = head.g
        BY <1>1, <1>2, <1>3, <2>1, <2>3, <3>2, <3>5, <4>2 DEF FkAdding, GfQueued, GfCallOK,
          FkFuture, FkNowhere
      <4> QED BY <4>1, <4>2
    <3> QED BY <1>6, <1>12, <2>1, <3>2, <3>5, <3>7, <3>9, <3>11
  <2>4. CASE head.op # "add"
    <3>1. PICK h, e, e2 :
            /\ h = head.h /\ e = engine[h] /\ e2 = FkEdited(head, e)
            /\ engine' = [engine EXCEPT ![h] = e2] /\ Answer(TRUE, h) /\ e # None
      BY <1>2, <1>11, <2>4 DEF ApiCall, FkEdited
    <3>2. PICK m : /\ m.kind = "reply" /\ m.call = head /\ m.ok = TRUE /\ m.h = h
                   /\ GfArrivedOK(m) /\ inbox' = Append(inbox, m) /\ FkStill
      BY <1>9, <2>1, <2>2, <2>4, <3>1
    <3>3. PICK new : new = [x \in HwId |-> FkThen(m, x, last[x])]
      OBVIOUS
    <3>4. m # EngineUp
      BY <3>2 DEF EngineUp
    <3>6. \A x \in HwId \ {h} : new[x] = last[x] /\ engine'[x] = engine[x]
      BY <1>0, <2>4, <3>1, <3>2, <3>3, <3>4 DEF FkThen, GfModemTypes
    <3>7. h \in HwId /\ e \in Fence /\ engine'[h] = e2
      BY <1>0, <2>2, <2>4, <3>1 DEF GfModemTypes, GfEntry
    <3>8. PICK d : d = last[h] /\ d \in GfEntry /\ FkLike(d, e) /\ new[h] = FkThen(m, h, d)
      BY <1>3, <2>1, <3>1, <3>3, <3>7 DEF FkMap
    <3>9. FkLike(new[h], e2) /\ \A g : FkOf(new[h], g) => FkOf(d, g)
      <4>1. ssrs = 0 => head.why # "repause"
        BY <2>2
      <4>2. FkLike(FkThen(m, head.h, d), e2) /\ \A g : FkOf(FkThen(m, head.h, d), g) => FkOf(d, g)
        BY <2>1, <2>4, <3>1, <3>2, <3>4, <3>7, <3>8, <4>1, FkDone
      <4> QED BY <3>1, <3>8, <4>2
    <3>10. \A x \in HwId : FkLike(new[x], engine[x])'
      BY <1>0, <1>3, <2>1, <3>6, <3>7, <3>9 DEF FkLike
    <3>11. \A x \in HwId : /\ new[x] = FkThen(m, x, last[x]) /\ ~FkSaves(m, x)
                           /\ \A g : FkOf(new[x], g) => FkOf(last[x], g)
      BY <2>4, <3>2, <3>3, <3>6, <3>8, <3>9 DEF FkSaves
    <3>12. FkFutures'
      BY <1>3, <1>12, <3>2, <3>3, <3>10, <3>11, FkThenTyped DEF FkMap
    <3> QED BY <1>6, <2>1, <3>2, <3>12
  <2> QED BY <2>3, <2>4
<1> QED BY <1>8, <1>10, <1>11 DEF ApiNext

(* A message is handled as the maps would have it *)
LEMMA FkHandled ==
  ASSUME GfTyped, GfTyped', GfCmdsGo, FkNow, FkStill, FkPaired', inbox # <<>>, inbox' = Tail(inbox),
         UNCHANGED <<suspended, engine, up, powers, ssrs>>, NEW m,
         \A h \in HwId : fences'[h] = FkThen(Head(inbox), h, fences[h]),
         \/ UNCHANGED api
         \/ api' = Append(api, m) /\ m.why # "gone"
            /\ (ssrs = 0 => m.why # "repause" /\ m.why # "restart")
  PROVE  FkNow'
<1>1. PICK W : FkFuture(W)
  BY DEF FkNow, FkFutures
<1>3. \A k \in DOMAIN inbox' : k + 1 \in DOMAIN inbox /\ inbox'[k] = inbox[k + 1]
  BY FkQueues
<1>5. FkOrderly'
  BY <1>3, FkQueues DEF FkNow, FkOrderly
<1> QED BY <1>1, <1>5, FkStillTokens, FkFutureLess DEF FkNow, FkStill

LEMMA FkHandlesTurn ==
  ASSUME GfTyped, GfTyped', GfCmdsGo, FkNow, HandleTurn
  PROVE  FkNow'
<1>1. PICK head, c, i : head = Head(inbox) /\ c = head.cmd /\ i = head.i
  OBVIOUS
<1>2. /\ head \in Turn /\ GfNames(c, i) /\ inbox # <<>> /\ inbox' = Tail(inbox)
      /\ UNCHANGED <<maps, suspended, engine, up, powers, ssrs>>
  BY <1>1, GfTurn DEF HandleTurn, modem, counters
<1>3. PICK m : m = GfTurnCall(c, i)
  OBVIOUS
<1>4. UNCHANGED api \/ api' = Append(api, m)
  BY <1>1, <1>3, GfTurnTyped
<1>5. m.kind = "call" /\ m.why = "client" /\ m.op = cmds[c].op /\ m.g = cmds[c].gs[i]
  BY <1>3 DEF GfTurnCall, ClientCall
<1>6. head \in GfQueued /\ head.kind = "turn" /\ head # EngineUp
  BY <1>2, GfRecords DEF GfQueued
<1>7. ASSUME NEW g \in Geofence, m \in FkAdding(g)' PROVE head \in FkAdding(g)'
  BY <1>1, <1>2, <1>5, <1>6, <1>7, GfTypesOfParts DEF GfNames, GfCmdsGo, FkAdding
<1>8. api' = Append(api, m) => m \in GfQueued
  <2>1. ASSUME api' = Append(api, m) PROVE m \in GfQueued
    BY <2>1, FkQueues, GfTypesOfPartsNext DEF GfApiTypes
  <2> QED BY <2>1
<1>9. FkStill
  BY <1>1, <1>2, <1>4, <1>7, <1>8, FkStillTaken DEF FkNow
<1> QED BY <1>1, <1>2, <1>4, <1>5, <1>6, <1>9, FkHandled DEF FkPaired, FkThen, FkNow, maps

(* What the answer to an addition saves is new to the maps *)
LEMMA FkSavesNew ==
  ASSUME GfTyped, FkNow, inbox # <<>>, NEW m, m = Head(inbox), m.kind = "reply", m.ok,
         GfCallOK(m.call), m.call.op = "add", m.h \in HwId
  PROVE  fences[m.h] = None /\ \A k \in HwId : ~FkOf(fences[k], m.call.g)
<1>1. PICK W : FkFuture(W)
  BY DEF FkNow, FkFutures
<1>2. PICK n, g, h, f : /\ n = Len(inbox) /\ g = m.call.g /\ h = m.h
                        /\ f = [g |-> m.call.g, opt |-> m.call.opt, paused |-> FALSE]
  OBVIOUS
<1>3. /\ n \in Nat /\ m = inbox[1] /\ 1 \in 1..n /\ 0 \in 0..n /\ 1 \in 0..n /\ 1 - 1 = 0
      /\ 0 \in 0..1 /\ 1 \in 0..1
  BY <1>2, FkQueues
<1>4. g \in Geofence /\ f \in Fence /\ f.g = g /\ f # None /\ m # EngineUp
  BY <1>2, GfRecords, GfFences DEF GfCallOK, EngineUp
<1>5. W[0] = fences /\ W[1][h] = f /\ fences[h] = None
  BY <1>1, <1>2, <1>3, <1>4 DEF FkFuture, FkFollows, FkThen, FkSaves
<1>6. ASSUME NEW k \in HwId, FkOf(fences[k], g) PROVE FALSE
  BY <1>1, <1>2, <1>3, <1>4, <1>5, <1>6 DEF FkOf, FkFuture, FkOnce
<1> QED BY <1>2, <1>5, <1>6

(* The maps follow an answer *)
LEMMA FkApplied ==
  ASSUME GfMapTypes, FkPaired, NEW m, NEW call, call = m.call, m.kind = "reply", m.ok,
         NEW h \in HwId, h = m.h, GfCallOK(call), call.op # "add" => h = call.h,
         call.op = "add" => fences[h] = None /\ \A k \in HwId : ~FkOf(fences[k], call.g),
         call.why # "repause", Apply(call, h)
  PROVE  FkPaired' /\ \A x \in HwId : fences'[x] = FkThen(m, x, fences[x])
<1>1. /\ call.g \in Geofence /\ call.op \in Operation /\ m # EngineUp
      /\ (call.op \in {"add", "modify"} => call.opt \in Option)
  BY GfRecords DEF GfCallOK, EngineUp
<1>2. /\ fences \in [HwId -> GfEntry] /\ ids \in [Geofence -> HwId \cup {None}]
  BY DEF GfMapTypes
<1>3. PICK e : e = fences[h] /\ e \in GfEntry
  BY <1>2
<1>4. CASE call.op = "add"
  <2>1. PICK f : f = [g |-> call.g, opt |-> call.opt, paused |-> FALSE]
    OBVIOUS
  <2>2. f.g = call.g /\ f # None
    BY <1>1, <1>4, <2>1, GfFences, GfRecords
  <2>3. fences' = [fences EXCEPT ![h] = f] /\ ids' = [ids EXCEPT ![call.g] = h]
    BY <1>4, <2>1 DEF Apply, Save
  <2>4. \A x \in HwId : fences'[x] = FkThen(m, x, fences[x])
    BY <1>1, <1>2, <1>4, <2>1, <2>3 DEF FkThen
  <2>5. ASSUME NEW g \in Geofence, NEW x \in HwId
        PROVE  ids'[g] = x <=> FkOf(fences'[x], g)
    BY <1>1, <1>2, <1>4, <2>2, <2>3 DEF FkPaired, FkOf
  <2> QED BY <2>4, <2>5 DEF FkPaired
<1>5. CASE call.op = "remove"
  <2>1. RemoveItem(h) /\ h = call.h
    BY <1>5 DEF Apply
  <2>2. CASE e = None
    BY <1>1, <1>3, <1>5, <2>1, <2>2 DEF RemoveItem, FkThen, FkPaired, maps
  <2>3. CASE e # None
    <3>1. e.g \in Geofence /\ ids[e.g] = h /\ h # None
      BY <1>3, <2>3, GfRecords DEF GfEntry, FkPaired, FkOf
    <3>2. fences' = [fences EXCEPT ![h] = None] /\ ids' = [ids EXCEPT ![e.g] = None]
      BY <1>3, <2>1, <2>3, <3>1 DEF RemoveItem
    <3>4. ASSUME NEW g \in Geofence, NEW x \in HwId
          PROVE  ids'[g] = x <=> FkOf(fences'[x], g)
      BY <1>2, <1>3, <3>1, <3>2, GfRecords DEF FkPaired, FkOf
    <3> QED BY <1>1, <1>2, <1>5, <2>1, <3>2, <3>4 DEF FkPaired, FkThen
  <2> QED BY <2>2, <2>3
<1>6. ASSUME NEW f, f = FkEdited(call, e), call.op \in {"pause", "resume", "modify"}
      PROVE  FkPaired' /\ \A x \in HwId : fences'[x] = FkThen(m, x, fences[x])
  <2>1. UNCHANGED ids /\ h = call.h /\ (e = None => UNCHANGED fences)
        /\ (e # None => fences' = [fences EXCEPT ![h] = f])
    BY <1>3, <1>6 DEF FkEdited, Apply, SetPaused, ModifyItem
  <2>2. ASSUME e # None PROVE f # None /\ f.g = e.g
    <3>1. e \in Fence
      BY <1>3, <2>2 DEF GfEntry
    <3>2. ASSUME NEW b \in BOOLEAN, f = [e EXCEPT !.paused = b]
          PROVE  f # None /\ f.g = e.g
      BY <3>1, <3>2, FkEdits, GfRecords
    <3>3. CASE call.op = "modify"
      <4>1. f = [e EXCEPT !.opt = call.opt] /\ call.opt \in Option
        BY <1>1, <1>6, <3>3 DEF FkEdited
      <4> QED BY <3>1, <4>1, FkEdits, GfRecords
    <3>4. CASE call.op = "pause"
      BY <1>6, <3>2, <3>4 DEF FkEdited
    <3>5. CASE call.op = "resume"
      BY <1>6, <3>2, <3>5 DEF FkEdited
    <3> QED BY <1>6, <3>3, <3>4, <3>5
  <2>3. e # None => FkThen(m, h, e) = f
    BY <1>1, <1>6, <2>1 DEF FkThen, FkEdited
  <2>4. \A x \in HwId : fences'[x] = FkThen(m, x, fences[x])
    <3>1. \A x \in HwId \ {h} : FkThen(m, x, fences[x]) = fences[x]
      BY <1>1, <1>6, <2>1 DEF FkThen
    <3>2. e = None => FkThen(m, h, e) = e
      BY <1>1, <1>6 DEF FkThen
    <3> QED BY <1>2, <1>3, <2>1, <2>3, <3>1, <3>2
  <2>5. ASSUME NEW g \in Geofence, NEW x \in HwId
        PROVE  ids'[g] = x <=> FkOf(fences'[x], g)
    BY <1>2, <1>3, <2>1, <2>2 DEF FkPaired, FkOf
  <2> QED BY <2>4, <2>5 DEF FkPaired
<1> QED BY <1>1, <1>4, <1>5, <1>6 DEF Operation

LEMMA FkReplies ==
  ASSUME GfTyped, GfTyped', GfCmdsGo, FkNow, GfHandleReply
  PROVE  FkNow'
<1>1. PICK m, call, h : m = Head(inbox) /\ call = m.call /\ h = m.h
  OBVIOUS
<1>2. /\ inbox # <<>> /\ inbox' = Tail(inbox) /\ m \in Reply /\ GfCallOK(call)
      /\ m.ok => h \in HwId /\ (call.op # "add" => h = call.h)
      /\ m = inbox[1] /\ 1 \in DOMAIN inbox
      /\ UNCHANGED <<suspended, engine, up, powers, ssrs>>
  BY <1>1, GfReply DEF GfHandleReply, HandleClientReply, HandleGoneReply, HandlePowerReply,
    HandleRestartReply, modem, counters
<1>3. /\ m.kind = "reply" /\ m # EngineUp /\ m.ok \in BOOLEAN /\ call.g \in Geofence
      /\ GfMapTypes /\ FkPaired
  BY <1>2, GfRecords, GfTypesOfParts DEF EngineUp, GfCallOK, FkNow
<1>4. call.why # "gone" /\ (call.why = "restart" => ssrs # 0)
  BY <1>1, <1>2, <1>3 DEF FkNow, FkOrderly
<1>6. ASSUME UNCHANGED maps, ~m.ok \/ call.why = "repause"
      PROVE  FkPaired' /\ \A x \in HwId : fences'[x] = FkThen(m, x, fences[x])
  BY <1>1, <1>2, <1>3, <1>6 DEF FkPaired, FkThen, maps, GfCallOK
<1>7. ASSUME Apply(call, h), m.ok, call.why # "repause"
      PROVE  FkPaired' /\ \A x \in HwId : fences'[x] = FkThen(m, x, fences[x])
  BY <1>1, <1>2, <1>3, <1>7, FkApplied, FkSavesNew
<1>8. ASSUME UNCHANGED api, FkPaired', \A x \in HwId : fences'[x] = FkThen(m, x, fences[x])
      PROVE  FkNow'
  BY <1>1, <1>2, <1>8, FkStillTaken, FkHandled DEF FkNow
<1>9. CASE HandleClientReply
  BY <1>1, <1>3, <1>6, <1>7, <1>8, <1>9 DEF HandleClientReply, TakeReply
<1>10. CASE HandlePowerReply
  <2>1. /\ UNCHANGED api /\ call.why \in {"power", "repause"}
        /\ IF m.ok /\ call.why = "power" THEN SetPaused(call.h, call.op = "pause")
           ELSE UNCHANGED maps
    BY <1>1, <1>10 DEF HandlePowerReply, TakeReply
  <2>2. CASE m.ok /\ call.why = "power"
    BY <1>2, <1>7, <1>8, <2>1, <2>2 DEF GfCallOK, Apply
  <2>3. CASE ~(m.ok /\ call.why = "power")
    BY <1>6, <1>8, <2>1, <2>3
  <2> QED BY <2>2, <2>3
<1>11. CASE HandleRestartReply
  <2>1. TakeReply({"restart"}) /\ call.why = "restart" /\ call.op = "add" /\ ssrs # 0
    BY <1>1, <1>2, <1>4, <1>11 DEF HandleRestartReply, TakeReply, GfCallOK
  <2>2. CASE ~m.ok
    BY <1>1, <1>6, <1>8, <1>11, <2>2 DEF HandleRestartReply
  <2>3. CASE m.ok
    <3>1. PICK p : p = NewCall("pause", call.g, h, "repause")
      OBVIOUS
    <3>2. Save(call.g, h, call.opt) /\ (UNCHANGED api \/ api' = Append(api, p))
      BY <1>1, <1>11, <2>3, <3>1 DEF HandleRestartReply
    <3>3. FkPaired' /\ \A x \in HwId : fences'[x] = FkThen(m, x, fences[x])
      BY <1>7, <2>1, <2>3, <3>2 DEF Apply
    <3>4. p \in GfQueued /\ p.op = "pause" /\ p.why = "repause" /\ p.kind = "call"
      BY <1>2, <1>3, <2>3, <3>1, GfNewCall, GfRecords DEF GfQueued, Operation
    <3> QED BY <1>1, <1>2, <2>1, <3>2, <3>3, <3>4, FkHandled, FkStillTaken DEF FkNow, FkAdding
  <2> QED BY <1>3, <2>2, <2>3
<1>12. CASE HandleGoneReply
  BY <1>1, <1>4, <1>12 DEF HandleGoneReply, TakeReply
<1> QED BY <1>9, <1>10, <1>11, <1>12 DEF GfHandleReply

LEMMA FkHandlesBreach ==
  ASSUME GfTyped, GfTyped', GfCmdsGo, FkNow, HandleBreach
  PROVE  FkNow'
<1>1. PICK m : m = Head(inbox) /\ m.kind = "breach"
  BY DEF HandleBreach
<1>2. /\ inbox # <<>> /\ inbox' = Tail(inbox) /\ UNCHANGED api
      /\ UNCHANGED <<maps, suspended, engine, up, powers, ssrs>>
  BY DEF HandleBreach, modem, counters
<1> QED BY <1>1, <1>2, FkHandled, FkStillTaken DEF FkPaired, FkThen, FkNow, maps, EngineUp

LEMMA FkIssues ==
  ASSUME GfTyped, FkNow, NEW op \in Operation, NEW gs \in Batches, NEW opt \in Option,
         Issue(op, gs, opt)
  PROVE  FkNow'
<1>1. PICK n, f : n = Len(cmds) + 1 /\ f = Turns(Len(cmds) + 1, Len(gs))
  OBVIOUS
<1>2. /\ GfTyped' /\ GfCmdsGo /\ Len(cmds') = n /\ cmds'[n] = GfNewCommand(op, gs, opt)
      /\ f \in Seq(GfQueued) /\ gs \in Seq(Geofence)
  BY <1>1, GfIssueTyped
<1>3. /\ UNCHANGED <<maps, suspended, inbox, engine, up, powers, ssrs>> /\ api' = api \o f
      /\ \A g \in Members(gs) : op = "add" <=> g \notin Named
      /\ op = "add" => \A i, j \in DOMAIN gs : gs[i] = gs[j] => i = j
  BY <1>1 DEF Issue, modem, counters
<1>4. \A k \in DOMAIN f : f[k].kind = "turn" /\ f[k].cmd = n /\ f[k].i = k /\ k \in DOMAIN gs
  BY <1>1, <1>2 DEF Turns
<1>5. cmds'[n].op = op /\ cmds'[n].gs = gs
  BY <1>2 DEF GfNewCommand
<1>6. ASSUME NEW g \in Geofence
      PROVE  /\ FkOne(api, inbox, FkAdding(g))'
             /\ FkComes(g)' => FkComes(g) \/ (g \notin Named /\ g \in Named')
  <2>1. PICK Q : Q = FkAdding(g)'
    OBVIOUS
  <2>3. ASSUME NEW k \in DOMAIN f, f[k] \in Q
        PROVE  op = "add" /\ gs[k] = g /\ k \in DOMAIN gs /\ g \notin Named /\ g \in Named'
    <3>1. op = "add" /\ gs[k] = g /\ k \in DOMAIN gs
      BY <1>4, <1>5, <2>1, <2>3 DEF FkAdding
    <3>2. g \in Members(gs)
      BY <3>1 DEF Members
    <3> QED BY <1>1, <1>2, <1>3, <1>5, <3>1, <3>2, GfTypesOfParts DEF Named
  <2>5. PICK p : p = api \o f
    OBVIOUS
  <2> QED BY <1>2, <1>3, <2>1, <2>3, <2>5, FkQueues, FkJoins, FkComesStays DEF FkComes, FkNow,
    FkTokens
<1>10. FkOrderly'
  <2>1. \A k \in DOMAIN api' : (k \in DOMAIN api /\ api'[k] = api[k])
                                \/ \E l \in DOMAIN f : api'[k] = f[l]
    BY <1>2, <1>3, FkQueues, GfConcat
  <2> QED BY <1>3, <1>4, <2>1 DEF FkOrderly, FkNow
<1> QED BY <1>2, <1>3, <1>6, <1>10, FkFutureSame, FkNamedGrows DEF FkNow, maps, FkTokens,
  FkPaired

(* A restarted modem is given every geofence again, once *)
LEMMA FkHandlesUp ==
  ASSUME GfTyped, GfTyped', GfCmdsGo, FkNow, Settled', HandleEngineUp
  PROVE  FkNow'
<1>1. /\ inbox # <<>> /\ inbox' = Tail(inbox) /\ Head(inbox) = EngineUp
      /\ UNCHANGED <<suspended, engine, up, cmds, clients, powers, ssrs>>
  BY DEF HandleEngineUp, modem, counters
<1>2. Head(inbox) = inbox[1] /\ 1 \in DOMAIN inbox
  BY <1>1, GfTake
<1>3. ssrs # 0 /\ ~suspended
  BY <1>1, <1>2 DEF Settled, FkNow, FkOrderly
<1>4. GfMapTypes /\ \A h \in HwId : FkThen(EngineUp, h, fences[h]) = None
  BY GfTypesOfParts DEF FkThen
<1>5. CASE UNCHANGED <<maps, api>> /\ GfKept = {}
  BY <1>1, <1>4, <1>5, FkStillTaken, FkHandled DEF GfKept, maps, FkNow, FkPaired
<1>6. ASSUME fences' = [h \in HwId |-> None], ids' = [g \in Geofence |-> None],
             NEW order \in Orders(GfKept),
             api' = api \o [i \in DOMAIN order |-> RestartCall(order[i])]
      PROVE  FkNow'
  <2>1. IsFiniteSet(GfKept)
    BY FiniteAssumption, FS_Subset DEF GfKept
  <2>2. /\ order \in Seq(GfKept) /\ DOMAIN order = 1..Len(order) /\ Len(order) \in Nat
        /\ \A k, l \in DOMAIN order : order[k] = order[l] => k = l
    <3>1. PICK n, K : n = Cardinality(K) /\ K = GfKept
      OBVIOUS
    <3>2. /\ n \in Nat /\ order \in [1..n -> K] /\ {order[i] : i \in DOMAIN order} = K
      BY <1>6, <2>1, <3>1, FS_CardinalityType DEF Orders, Members
    <3>4. IsFiniteSet(1..n) /\ Cardinality(1..n) = n
      <4>1. 1 \in Int /\ n \in Int
        BY <3>2
      <4>2. IsFiniteSet(1..n) /\ Cardinality(1..n) = IF 1 > n THEN 0 ELSE n - 1 + 1
        BY <4>1, FS_Interval
      <4> QED BY <3>2, <4>2
    <3> QED BY <2>1, <3>1, <3>2, <3>4, GfOrder, FS_Surjection DEF Injection, IsInjective,
      Surjection
  <2>3. PICK f : f = [i \in DOMAIN order |-> RestartCall(order[i])]
    OBVIOUS
  <2>4. /\ DOMAIN f = DOMAIN order
        /\ \A k \in DOMAIN f : f[k].kind = "call" /\ f[k].why = "restart"
                               /\ f[k].g = fences[order[k]].g /\ order[k] \in GfKept
    BY <2>2, <2>3 DEF RestartCall
  <2>5. f \in Seq(GfQueued)
    <3>1. ASSUME NEW h \in GfKept PROVE RestartCall(h) \in GfQueued
      <4>1. PICK e : e = fences[h]
        OBVIOUS
      <4>2. e.g \in Geofence /\ e.opt \in Option /\ e.paused \in BOOLEAN
        BY <1>4, <4>1, GfRecords DEF GfKept, GfMapTypes, GfEntry
      <4> QED BY <4>1, <4>2 DEF RestartCall, Call, Operation, GfQueued
    <3> QED BY <2>2, <2>3, <3>1, SequenceOfFunction
  <2>6. PICK W, n : FkFuture(W) /\ n = Len(inbox)
    BY DEF FkNow, FkFutures
  <2>7. /\ n \in Nat /\ 0 \in 0..n /\ 1 \in 0..n /\ 1 \in 1..n /\ 1 - 1 = 0
        /\ W[0] = fences /\ inbox[1] = EngineUp
    BY <1>1, <1>2, <2>6, FkQueues DEF FkFuture, FkFollows
  <2>8. \A h \in HwId : W[1][h] = None
    BY <2>6, <2>7 DEF FkFuture, FkFollows, FkThen
  <2>9. ASSUME NEW g \in Geofence, NEW k \in DOMAIN f, f[k].g = g
        PROVE  /\ ~FkComes(g) /\ g \in Named /\ ids[g] = order[k]
               /\ FkNowhere(n - 1, FkLess(n, W), g)
    <3>1. PICK h : h = order[k] /\ h \in HwId /\ FkOf(W[0][h], g)
      BY <2>4, <2>7, <2>9 DEF GfKept, FkOf
    <3>2. FkOnce(n, W, g) /\ ~FkNowhere(n, W, g)
      BY <2>6, <2>7, <3>1 DEF FkFuture, FkNowhere
    <3>5. ASSUME NEW i \in 0..(n - 1), NEW x \in HwId, FkOf(FkLess(n, W)[i][x], g)
          PROVE  FALSE
      BY <2>7, <2>8, <3>1, <3>2, <3>5 DEF FkLess, FkOnce, FkOf
    <3> QED BY <2>6, <2>7, <3>1, <3>2, <3>5 DEF FkNowhere, FkFuture, FkNow, FkPaired
  <2>10. GfCmdsGo /\ FkTokens
    BY <1>1, GfCmdsStay DEF FkNow
  <2>11. ASSUME NEW g \in Geofence
         PROVE  /\ FkOne(api, inbox, FkAdding(g))'
                /\ FkComes(g)' => g \in Named' /\
                                  (FkComes(g) \/ FkNowhere(n - 1, FkLess(n, W), g))
    <3>1. PICK Q, b, p : Q = FkAdding(g)' /\ b = Tail(inbox) /\ p = api \o f
      OBVIOUS
    <3>5. FkOne(api, b, Q) /\ (FkSome(api, b, Q) => FkComes(g))
      BY <1>1, <2>10, <3>1, FkTurned, FkQueues, FkTakes, FkComesStays DEF FkTokens
    <3>6. \A k \in DOMAIN f : f[k] \in Q => f[k].g = g
      BY <2>4, <3>1 DEF FkAdding
    <3>7. /\ FkOne(p, b, Q)
          /\ FkSome(p, b, Q) => FkComes(g) \/ \E k \in DOMAIN f : f[k].g = g
      <4>1. CASE \A k \in DOMAIN f : f[k].g # g
        BY <2>5, <3>1, <3>5, <3>6, <4>1, FkQueues, FkJoins
      <4>2. CASE \E k \in DOMAIN f : f[k].g = g
        <5>2. \A k, l \in DOMAIN f : f[k] \in Q /\ f[l] \in Q => k = l
          BY <2>2, <2>4, <2>9, <3>6
        <5> QED BY <2>5, <2>9, <3>1, <3>5, <4>2, <5>2, FkQueues, FkJoins
      <4> QED BY <4>1, <4>2
    <3> QED BY <1>1, <1>6, <2>3, <2>9, <2>10, <3>1, <3>7, FkNamedGrows DEF FkComes, FkTokens
  <2>13. FkFutures'
    BY <1>1, <1>4, <1>6, <2>6, <2>10, <2>11, FkFutureLess
  <2>15. FkOrderly'
    <3>1. \A k \in DOMAIN api' : (k \in DOMAIN api /\ api'[k] = api[k])
                                  \/ \E l \in DOMAIN f : api'[k] = f[l]
      BY <1>6, <2>3, <2>5, FkQueues, GfConcat
    <3> QED BY <1>1, <1>3, <2>4, <3>1, FkQueues DEF FkOrderly, FkNow
  <2> QED BY <1>6, <2>11, <2>13, <2>15, GfRecords DEF FkNow, FkTokens, FkPaired, FkOf
<1> QED BY <1>3, <1>5, <1>6, GfUpTyped

LEMMA FkStep ==
  ASSUME GfTyped, FkInv, [Next]_vars
  PROVE  FkInv'
<1>1. GfTyped' /\ GfCmdsGo
  BY GfTypedStep
<1> SUFFICES ASSUME Settled' PROVE FkNow'
  BY DEF FkInv, FkNow
<1>2. FkNow
  BY FkSettled DEF FkInv, FkNow
<1>3. CASE \E op \in Operation, gs \in Batches, opt \in Option : Issue(op, gs, opt)
  BY <1>2, <1>3, FkIssues
<1>4. CASE GfEnvironment
  <2>1. ASSUME NEW client \in Client, StopClientSessions(client) PROVE FALSE
    BY <2>1 DEF StopClientSessions, Settled
  <2> QED BY <1>1, <1>2, <1>4, <2>1, FkPowerChanges, FkModemChanges DEF GfEnvironment
<1>5. CASE UNCHANGED vars
  <2>2. UNCHANGED <<inbox, fences, ids, api, engine, up, ssrs, powers, suspended>>
    BY <1>5 DEF vars, maps, modem, counters
  <2> QED BY <1>1, <1>2, <1>5, <2>2, FkStillTokens, FkFutureSame, FkStillStays DEF FkNow,
    FkPaired, FkOrderly, FkStill, vars
<1> QED BY <1>1, <1>2, <1>3, <1>4, <1>5, GfActions, FkApi, FkHandlesTurn, FkReplies, FkHandlesUp,
           FkHandlesBreach

LEMMA FkInit == Init => FkInv
<1> SUFFICES ASSUME Init PROVE FkNow
  BY DEF FkInv, FkNow
<1>1. PICK W : W = [i \in 0..0 |-> fences]
  OBVIOUS
<1>2. /\ Len(inbox) = 0 /\ DOMAIN inbox = {} /\ DOMAIN api = {} /\ fences \in FkMap
      /\ \A h \in HwId : fences[h] = None /\ engine[h] = None
  BY DEF Init, FkMap, GfEntry
<1>3. W \in [0..0 -> FkMap] /\ W[0] = fences /\ \A i \in 0..0 : i = 0
  BY <1>1, <1>2
<1>4. FkFollows(inbox, W, fences)
  BY <1>2, <1>3 DEF FkFollows
<1>6. FkFutures
  BY <1>2, <1>3, <1>4 DEF FkFutures, FkFuture, FkLike, FkNowhere, FkOnce, FkOf
<1>7. FkTokens
  BY <1>2 DEF FkTokens, FkComes, FkSome, FkOne
<1> QED BY <1>2, <1>6, <1>7, GfRecords DEF FkNow, FkPaired, FkOrderly, FkOf, Init

LEMMA FkKept ==
  ASSUME GfTyped, FkInv
  PROVE  FencesAreKept
<1>1. ASSUME Settled PROVE FkNow
  BY <1>1 DEF FkInv, FkNow
<1>2. MapAgreesWithModem
  <2> SUFFICES ASSUME Quiet, Settled, NEW h \in HwId PROVE FkLike(fences[h], engine[h])
    BY DEF MapAgreesWithModem, FkLike
  <2>1. PICK W : FkFuture(W)
    BY <1>1 DEF FkNow, FkFutures
  <2> QED BY <2>1 DEF FkFuture, FkFollows, Quiet
<1> QED BY <1>1, <1>2, GfTypesOfParts DEF FencesAreKept, IdsLeadToFences, FkNow, FkPaired, FkOf,
  GfMapTypes

-----------------------------------------------------------------------------
(* The three parts side by side *)

LEMMA StreamPart == FencesSpec => [](NtInv /\ (part = "stream" => NtTypeOK))
<1>1. FencesInit => NtInv
  BY NtInvInit DEF FencesInit
<1>2. NtInv /\ [FencesNext]_fencesVars => NtInv'
  <2> SUFFICES ASSUME NtInv, [FencesNext]_fencesVars PROVE NtInv'
    OBVIOUS
  <2> QED BY NtInvStep DEF FencesNext, FenceStep, StreamStep, ReportsStep, fencesVars
<1>3. NtInv => (part = "stream" => NtTypeOK)
  BY DEF NtInv
<1> QED BY <1>1, <1>2, <1>3, PTL DEF FencesSpec

(* However often the XTRA and DGNSS daemons end and start, and whatever    *)
(* changes while their requests wait for the message thread: a daemon      *)
(* whose last request was answered knows the lock, the networks and its    *)
(* registration as they are, and runs the stream that was started last and *)
(* not stopped (XtraSystemStatusObserver.cpp:105-119, GnssAdapter.cpp:     *)
(* 3222, 4070-4073, 4231, 4289, 8913-8933).                                *)
THEOREM DaemonsAlwaysFollow == FencesSpec => []DaemonsFollow
<1>1. NtInv => DaemonsFollow
  BY NtInvFollows
<1> QED BY <1>1, StreamPart, PTL

(* A stream that is enabled while somebody tracks and the system is awake  *)
(* is started, or waits for a position that it needs and may be sent: but  *)
(* where nobody looks (GnssAdapter.cpp:8840-8935; the exceptions at :3720, *)
(* :9037 and GnssAdapter.h:834).                                           *)
THEOREM WantedStreamAlwaysComes == FencesSpec => []WantedStreamComes
<1>1. NtInv => WantedStreamComes
  BY NtInvFollows
<1> QED BY <1>1, StreamPart, PTL

LEMMA ReportsPart == FencesSpec => []GrInv
<1>1. FencesInit => GrInv
  BY GrInvInit DEF FencesInit
<1>2. GrInv /\ [FencesNext]_fencesVars => GrInv'
  <2> SUFFICES ASSUME GrInv, [FencesNext]_fencesVars PROVE GrInv'
    OBVIOUS
  <2> QED BY GrInvStep DEF FencesNext, FenceStep, StreamStep, ReportsStep, fencesVars
<1> QED BY <1>1, <1>2, PTL DEF FencesSpec

(* Whatever the modem's and the engine hub's report of a position meet on  *)
(* their ways, each client whose session wants the position is told of it  *)
(* on each of its callbacks, and once; the flags of satellites are those   *)
(* of the position before them; and the modem reports what clients, the    *)
(* precise engines and the engine hub need, but for what the write of a    *)
(* mask read before takes away (GnssAdapter.cpp:3049-3176, 4403-4431,      *)
(* 4781-4798, 4872-4939, 4960-5108, 8490-8512).                            *)
THEOREM ReportsAlwaysReach == FencesSpec => []ReportsReachTheirClients
<1>1. GrInv => ReportsReachTheirClients
  BY GrInvReaches
<1> QED BY <1>1, ReportsPart, PTL

GfInv == GfTyped /\ GfBreaches /\ GfItems /\ GfAnswers

LEMMA FencePart == FencesSpec => []GfInv
<1>1. FencesInit => GfInv
  BY GfInit, GfBreachesInit, GfItemsInit DEF FencesInit, GfInv
<1>2. GfInv /\ [FencesNext]_fencesVars => GfInv'
  <2> SUFFICES ASSUME GfTyped, GfBreaches, GfItems, GfAnswers, [FencesNext]_fencesVars
               PROVE  GfInv'
    BY DEF GfInv
  <2>1. [Next]_vars
    BY DEF FencesNext, FenceStep, StreamStep, ReportsStep, fencesVars
  <2> QED BY <2>1, GfItemsStep, GfBreachesStep, GfTypedStep DEF GfInv
<1> QED BY <1>1, <1>2, PTL DEF FencesSpec

LEMMA FkPart == FencesSpec => []FkInv
<1>1. FencesInit => FkInv
  BY FkInit DEF FencesInit
<1>2. GfInv /\ FkInv /\ [FencesNext]_fencesVars => FkInv'
  <2> SUFFICES ASSUME GfTyped, FkInv, [FencesNext]_fencesVars
               PROVE  FkInv'
    BY DEF GfInv
  <2> QED BY FkStep DEF FencesNext, FenceStep, StreamStep, ReportsStep, fencesVars
<1> QED BY <1>1, <1>2, FencePart, PTL DEF FencesSpec

(* The state of each of the three models keeps its type, for any number of *)
(* geofences, clients, streams and reports.                                *)
THEOREM FencesTypesCorrect == FencesSpec => []FencesTypesOK
<1>1. /\ NtInv /\ (part = "stream" => NtTypeOK)
      /\ GrInv
      /\ GfInv
      => FencesTypesOK
  BY DEF FencesTypesOK, GfInv, GfTyped, GrInv, GrTyped
<1> QED BY <1>1, StreamPart, ReportsPart, FencePart, PTL

(* Though the modem gives the ids of removed geofences, and all ids after  *)
(* a restart, to other geofences, while the answers that will tell of it   *)
(* wait behind the reports of breaches: a breach is reported as that of    *)
(* the geofence that was breached, or not at all (GeofenceAdapter.cpp:     *)
(* 118-127, 159-196, 667-710, 752-843).                                    *)
THEOREM BreachesAlwaysReach == FencesSpec => []BreachesReachTheirOwner
<1>1. GfInv => BreachesReachTheirOwner
  BY GfBreachesReach DEF GfInv
<1> QED BY <1>1, FencePart, PTL

(* However many clients, commands, refusals, power events and restarts     *)
(* meet between a command, its turns, its calls and their answers: every   *)
(* command is answered, but for a resume whose last geofence the modem     *)
(* refuses, and once; and the answer to an addition, a removal or a pause  *)
(* whose last geofence is known comes when all its geofences are done and  *)
(* tells of each what became of it (GeofenceAdapter.cpp:198-225, 226-339,  *)
(* 367-405, 446-466, 519-548).                                             *)
THEOREM CommandsAlwaysAnswered == FencesSpec => []CommandsAreAnswered
<1>1. GfInv => CommandsAreAnswered
  BY GfCommandsAnswered DEF GfInv
<1> QED BY <1>1, FencePart, PTL

(* However commands, refusals, power events and restarts meet, and         *)
(* whatever ids the modem gives meanwhile: an id that a client may name    *)
(* leads to its own geofence at every step, and once nothing is under way  *)
(* the maps say of each id of the modem's what the modem has there.  As in *)
(* the property, until a client is removed, and without a power event      *)
(* where the modem restarts (GeofenceAdapter.cpp:118-127, 159-196, 303-339,*)
(* 667-749).                                                               *)
THEOREM FencesAlwaysKept == FencesSpec => []FencesAreKept
<1>1. GfInv /\ FkInv => FencesAreKept
  BY FkKept DEF GfInv
<1> QED BY <1>1, FencePart, FkPart, PTL

=============================================================================
