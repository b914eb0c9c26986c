--------------------------- MODULE NetworkInitiated ---------------------------
(***************************************************************************)
(* Network initiated (NI) requests: somebody in the network asks where     *)
(* the device is, and the modem asks the user's consent through            *)
(* GnssAdapter (gnss/GnssAdapter.cpp, requestNiNotifyEvent,                *)
(* requestNiNotify, niThreadProc, gnssNiResponseCommand).                  *)
(*                                                                         *)
(* There are two sessions, one for emergency requests.  Each request that  *)
(* is shown to the user gets a thread of its own, which waits for the      *)
(* answer or for a timeout, answers the modem and frees the session.  The  *)
(* message thread reads and writes the same session, in part without its   *)
(* lock, so an action is here what one thread does between two points at   *)
(* which the other one may get in: the message thread's writes of one      *)
(* handler are in niTask until they are done.                              *)
(*                                                                         *)
(* Time is left out: a thread that waits may time out at any moment, so    *)
(* respTimeLeft is not a variable.  A modem restart is not an action       *)
(* because nothing happens to the sessions then.                           *)
(***************************************************************************)
EXTENDS Naturals, Sequences

CONSTANTS
  NiRequest,       \* the modem's requests, each of which is made once
  NiNone,          \* no request
  NfwDenies,       \* NFW is locked, and NI_SUPL_DENY_ON_NFW_LOCKED is set
  SuplEsAlways,    \* SUPL_ES: emergency requests outside an emergency call
  CpMtlrEs,        \* CP_MTLR_ES: accept control plane ones in an emergency
  NiUserAnswers,   \* the answers that clients give
  NiKinds,         \* bound: the kinds of request that are made
  MaxNiAnswers,    \* bound: answers of clients
  MaxNiMoves       \* bound: times that the client with the callback changes

NiSlot == {"session", "sessionEs"}
NiType == {"SUPL", "EMERGENCY_SUPL", "CONTROL_PLANE", "VOICE"}
NiResponse == {"ACCEPT", "DENY", "NO_RESPONSE", "IGNORE"}

ASSUME NiAssumption ==
  /\ NiNone \notin NiRequest
  /\ {NfwDenies, SuplEsAlways, CpMtlrEs} \subseteq BOOLEAN
  /\ NiUserAnswers \subseteq NiResponse
  /\ NiKinds \subseteq [type: NiType, override: BOOLEAN, emergency: BOOLEAN]
  /\ MaxNiAnswers \in Nat /\ MaxNiMoves \in Nat

VARIABLES
  niSession,   \* mNiData: the two sessions
  niCounter,   \* reqIDCounter
  niThread,    \* the thread of each request
  niTask,      \* what is left to do of the handler the message thread is in
  niClient,    \* some client has a gnssNiCb
  niArrived,   \* requests that were made
  niTold,      \* the id that the client was told for each request, 0 if none
  niGiven,     \* the answers that were taken under the id of each request
  niBack,      \* what became of each raw request: answers, or "freed"
  niAnswers,   \* bound: answers so far
  niMoves      \* bound: changes of niClient so far

niVars == <<niSession, niCounter, niThread, niTask, niClient, niArrived, niTold,
            niGiven, niBack, niAnswers, niMoves>>

NiWrites == Seq([session: NiSlot, resp: NiResponse])
NiThreadState == {"none", "failed", "created", "waiting", "expired", "clearing",
                  "sending", "ended"}

NiTypeOK ==
  /\ niSession \in [NiSlot -> [raw: NiRequest \union {NiNone}, reqID: Nat,
                               resp: NiResponse, respRecvd: BOOLEAN]]
  /\ niCounter \in Nat
  /\ niThread \in [NiRequest -> [at: NiThreadState, session: NiSlot, resp: NiResponse]]
  /\ niTask \in [request: NiRequest \union {NiNone}, session: NiSlot, writes: NiWrites]
  /\ niClient \in BOOLEAN
  /\ niArrived \subseteq NiRequest
  /\ niTold \in [NiRequest -> Nat]
  /\ niGiven \in [NiRequest -> SUBSET NiResponse]
  /\ niBack \in [NiRequest -> Seq(NiResponse \union {"freed"})]
  /\ niAnswers \in Nat /\ niMoves \in Nat

NiInit ==
  /\ niSession = [s \in NiSlot |-> [raw |-> NiNone, reqID |-> 0,
                                    resp |-> "ACCEPT", respRecvd |-> FALSE]]
  /\ niCounter = 0
  /\ niThread = [r \in NiRequest |-> [at |-> "none", session |-> "session",
                                      resp |-> "ACCEPT"]]
  /\ niTask = [request |-> NiNone, session |-> "session", writes |-> <<>>]
  /\ niClient = TRUE
  /\ niArrived = {}
  /\ niTold = [r \in NiRequest |-> 0]
  /\ niGiven = [r \in NiRequest |-> {}]
  /\ niBack = [r \in NiRequest |-> <<>>]
  /\ niAnswers = 0 /\ niMoves = 0

-----------------------------------------------------------------------------
(* The message thread *)

NiIdle == niTask.request = NiNone /\ niTask.writes = <<>>

(* The locked writes of resp and respRecvd that a handler goes on to do *)
NiGoOn(writes) == niTask' = [niTask EXCEPT !.writes = writes]

(* informNiResponse, or free: the request leaves the adapter *)
NiHandBack(r, how) == niBack' = [niBack EXCEPT ![r] = Append(@, how)]

(* An emergency request that is accepted ends the ordinary one.  Whether   *)
(* there is one is looked up here; the write comes later, under the lock.  *)
NiIgnoreOrdinary ==
  IF niSession["session"].raw = NiNone THEN <<>>
  ELSE <<[session |-> "session", resp |-> "IGNORE"]>>

(* requestNiNotifyEvent: what to do with a request *)
NiDecision(k) ==
  LET supl == k.type \in {"SUPL", "EMERGENCY_SUPL"}
  IN  CASE supl /\ ~k.emergency /\ ~k.override /\ NfwDenies -> "DENY"
        [] supl /\ k.override -> "ACCEPT"
        [] k.type = "EMERGENCY_SUPL" /\ ~k.override /\ ~(k.emergency \/ SuplEsAlways) -> "DENY"
        [] k.type = "CONTROL_PLANE" /\ k.emergency /\ CpMtlrEs -> "ACCEPT"
        [] OTHER -> "notify"

NiSlotOf(k) == IF k.type = "EMERGENCY_SUPL" THEN "sessionEs" ELSE "session"

(* Mutant: an ordinary request only looks at its own session, and an       *)
(* emergency one at the ordinary session                                   *)
MutantNiBusy(k) == niSession["session"].raw # NiNone

NiBusy(k) ==
  \/ niSession["sessionEs"].raw # NiNone
  \/ k.type # "EMERGENCY_SUPL" /\ niSession["session"].raw # NiNone

(* requestNiNotify without a client: an emergency request is accepted,     *)
(* any other is neither answered nor freed                                 *)
NiNotifyNobody(r, k) ==
  /\ \/ /\ k.type = "EMERGENCY_SUPL"
        /\ NiHandBack(r, "ACCEPT")
        /\ NiGoOn(NiIgnoreOrdinary)
     \/ /\ k.type # "EMERGENCY_SUPL"
        /\ UNCHANGED <<niBack, niTask>>
  /\ UNCHANGED <<niSession, niCounter>>

(* requestNiNotify with a client, up to the assignment of reqID *)
NiNotify(r, k) ==
  \/ /\ NiBusy(k)
     /\ NiHandBack(r, "freed")
     /\ UNCHANGED <<niSession, niCounter, niTask>>
  \/ /\ ~NiBusy(k)
     /\ niCounter' = niCounter + 1
     /\ niSession' = [niSession EXCEPT ![NiSlotOf(k)].raw = r,
                                       ![NiSlotOf(k)].reqID = niCounter + 1]
     /\ niTask' = [niTask EXCEPT !.request = r, !.session = NiSlotOf(k)]
     /\ UNCHANGED niBack

RequestNiNotify(r, k) ==
  /\ NiIdle
  /\ r \notin niArrived
  /\ niArrived' = niArrived \union {r}
  /\ \/ /\ NiDecision(k) # "notify"
        /\ NiHandBack(r, NiDecision(k))
        /\ UNCHANGED <<niSession, niCounter, niTask>>
     \/ NiDecision(k) = "notify" /\ ~niClient /\ NiNotifyNobody(r, k)
     \/ NiDecision(k) = "notify" /\ niClient /\ NiNotify(r, k)
  /\ UNCHANGED <<niThread, niClient, niTold, niGiven, niAnswers, niMoves>>

(* The rest of requestNiNotify: the id is read back from the session, the  *)
(* thread is created (a failure is only logged) and the client is told.    *)
NiShowUser(r) ==
  LET s == niTask.session
  IN  /\ niTask.request = r
      /\ \E at \in {"created", "failed"} :
           niThread' = [niThread EXCEPT ![r] = [@ EXCEPT !.at = at, !.session = s]]
      /\ niTold' = [niTold EXCEPT ![r] = niSession[s].reqID]
      /\ niTask' = [niTask EXCEPT !.request = NiNone]
      /\ UNCHANGED <<niSession, niCounter, niClient, niArrived, niGiven, niBack,
                     niAnswers, niMoves>>

(* gnssNiResponseCommand of a client, up to its first lock *)
GnssNiResponse(id, resp) ==
  LET names(s) == niSession[s].reqID = id /\ niSession[s].raw # NiNone
      s == IF names("sessionEs") THEN "sessionEs" ELSE "session"
      known == names("sessionEs") \/ names("session")
  IN  /\ NiIdle /\ niClient
      /\ niAnswers < MaxNiAnswers
      /\ niAnswers' = niAnswers + 1
      /\ niGiven' = [r \in NiRequest |->
                       niGiven[r] \union (IF known /\ niTold[r] = id THEN {resp} ELSE {})]
      /\ NiGoOn(IF ~known THEN <<>>
                ELSE (IF s = "sessionEs" /\ resp = "ACCEPT" THEN NiIgnoreOrdinary ELSE <<>>)
                     \o <<[session |-> s, resp |-> resp]>>)
      /\ UNCHANGED <<niSession, niCounter, niThread, niClient, niArrived, niTold,
                     niBack, niMoves>>

(* pthread_mutex_lock, resp, respRecvd, pthread_cond_signal *)
NiWrite ==
  /\ niTask.writes # <<>>
  /\ LET w == Head(niTask.writes)
     IN  niSession' = [niSession EXCEPT ![w.session].resp = w.resp,
                                        ![w.session].respRecvd = TRUE]
  /\ NiGoOn(Tail(niTask.writes))
  /\ UNCHANGED <<niCounter, niThread, niClient, niArrived, niTold, niGiven, niBack,
                 niAnswers, niMoves>>

(* saveClient or eraseClient of the only client with a gnssNiCb *)
NiClientMoves ==
  /\ NiIdle
  /\ niMoves < MaxNiMoves
  /\ niMoves' = niMoves + 1
  /\ niClient' = ~niClient
  /\ UNCHANGED <<niSession, niCounter, niThread, niTask, niArrived, niTold, niGiven,
                 niBack, niAnswers>>

-----------------------------------------------------------------------------
(* The thread of a request *)

NiThreadGoes(r, at) == niThread' = [niThread EXCEPT ![r].at = at]

(* niThreadProc starts to wait, unless respRecvd is set already *)
NiWait(r) ==
  /\ niThread[r].at = "created"
  /\ ~niSession[niThread[r].session].respRecvd
  /\ NiThreadGoes(r, "waiting")
  /\ UNCHANGED <<niSession, niCounter, niTask, niClient, niArrived, niTold, niGiven,
                 niBack, niAnswers, niMoves>>

(* pthread_cond_timedwait gives up; the lock must still be taken again *)
NiExpire(r) ==
  /\ niThread[r].at = "waiting"
  /\ NiThreadGoes(r, "expired")
  /\ UNCHANGED <<niSession, niCounter, niTask, niClient, niArrived, niTold, niGiven,
                 niBack, niAnswers, niMoves>>

(* Mutant: the session keeps its raw request *)
MutantNiFinish(r) ==
  LET s == niThread[r].session
      resp == IF niThread[r].at = "expired" THEN "NO_RESPONSE" ELSE niSession[s].resp
  IN  /\ \/ niThread[r].at = "expired"
         \/ niThread[r].at \in {"created", "waiting"} /\ niSession[s].respRecvd
      /\ niSession' = [niSession EXCEPT ![s].respRecvd = FALSE, ![s].resp = resp]
      /\ niThread' = [niThread EXCEPT ![r].at = "clearing", ![r].resp = resp]
      /\ UNCHANGED <<niCounter, niTask, niClient, niArrived, niTold, niGiven, niBack,
                     niAnswers, niMoves>>

(* The wait is over: the thread takes the answer and frees the session.  A *)
(* timeout counts even if an answer came before the lock was taken again.  *)
NiFinish(r) ==
  LET s == niThread[r].session
      resp == IF niThread[r].at = "expired" THEN "NO_RESPONSE" ELSE niSession[s].resp
  IN  /\ \/ niThread[r].at = "expired"
         \/ niThread[r].at \in {"created", "waiting"} /\ niSession[s].respRecvd
      /\ niSession' = [niSession EXCEPT ![s].respRecvd = FALSE, ![s].resp = resp,
                                        ![s].raw = NiNone]
      /\ niThread' = [niThread EXCEPT ![r].at = "clearing", ![r].resp = resp]
      /\ \/ resp = "IGNORE" /\ NiHandBack(r, "freed")
         \/ resp # "IGNORE" /\ UNCHANGED niBack
      /\ UNCHANGED <<niCounter, niTask, niClient, niArrived, niTold, niGiven,
                     niAnswers, niMoves>>

(* Mutant: a request that nobody answered is not passed on either *)
MutantNiClear(r) ==
  /\ niThread[r].at = "clearing"
  /\ niSession' = [niSession EXCEPT ![niThread[r].session].reqID = 0]
  /\ NiThreadGoes(r, IF niThread[r].resp \in {"IGNORE", "NO_RESPONSE"}
                     THEN "ended" ELSE "sending")
  /\ UNCHANGED <<niCounter, niTask, niClient, niArrived, niTold, niGiven, niBack,
                 niAnswers, niMoves>>

(* After the unlock: reqID is cleared, whoever has the session by now *)
NiClear(r) ==
  /\ niThread[r].at = "clearing"
  /\ niSession' = [niSession EXCEPT ![niThread[r].session].reqID = 0]
  /\ NiThreadGoes(r, IF niThread[r].resp = "IGNORE" THEN "ended" ELSE "sending")
  /\ UNCHANGED <<niCounter, niTask, niClient, niArrived, niTold, niGiven, niBack,
                 niAnswers, niMoves>>

(* gnssNiResponseCommand of the thread: a message that informs the modem *)
NiInform(r) ==
  /\ niThread[r].at = "sending"
  /\ NiIdle
  /\ NiHandBack(r, niThread[r].resp)
  /\ NiThreadGoes(r, "ended")
  /\ UNCHANGED <<niSession, niCounter, niTask, niClient, niArrived, niTold, niGiven,
                 niAnswers, niMoves>>

NiThreadStep(r) == NiWait(r) \/ NiFinish(r) \/ NiClear(r) \/ NiInform(r)

NiNext ==
  \/ \E r \in NiRequest, k \in NiKinds : RequestNiNotify(r, k)
  \/ \E r \in NiRequest : NiShowUser(r)
  \/ \E id \in {niTold[r] : r \in niArrived}, resp \in NiUserAnswers : GnssNiResponse(id, resp)
  \/ NiWrite
  \/ NiClientMoves
  \/ \E r \in NiRequest : NiWait(r)
  \/ \E r \in NiRequest : NiExpire(r)
  \/ \E r \in NiRequest : NiFinish(r)
  \/ \E r \in NiRequest : NiClear(r)
  \/ \E r \in NiRequest : NiInform(r)

NiSpec == NiInit /\ [][NiNext]_niVars

(* The message thread goes on, threads are scheduled and time passes *)
NiFairness ==
  /\ WF_niVars(NiWrite)
  /\ \A r \in NiRequest :
       /\ WF_niVars(NiShowUser(r))
       /\ WF_niVars(NiThreadStep(r))
       /\ WF_niVars(NiExpire(r))

NiFairSpec == NiSpec /\ NiFairness

-----------------------------------------------------------------------------
(* Safety *)

NiWaits(r) == niThread[r].at \in {"failed", "created", "waiting", "expired"}

(* A session belongs to exactly one thread that has not finished yet, or   *)
(* to the handler that is about to create it: two threads never wait for   *)
(* one answer, and no session is taken without somebody who will free it   *)
(* (GnssAdapter.cpp:5505-5592 against 5444-5502).                          *)
SessionHasThread ==
  \A s \in NiSlot, r \in NiRequest :
    niSession[s].raw = r <=>
      \/ niTask.request = r /\ niTask.session = s
      \/ NiWaits(r) /\ niThread[r].session = s

(* The raw request is given back at most once, answered or freed, and not  *)
(* while a session still holds it (GnssAdapter.cpp:5482-5499, 5537-5555): *)
(* the modem's allocation is neither freed twice nor answered after that.  *)
HandedBackOnce ==
  \A r \in NiRequest :
    /\ Len(niBack[r]) <= 1
    /\ (\E s \in NiSlot : niSession[s].raw = r) => niBack[r] = <<>>

(* However the threads of two requests and the message thread interleave,  *)
(* a request is one thread's to end and the modem's only after that        *)
(* (GnssAdapter.cpp:5444-5502).                                            *)
RequestHasOneOwner == SessionHasThread /\ HandedBackOnce

(* The modem is only told of consent or refusal that the user gave for     *)
(* this very request (GnssAdapter.cpp:5472, "Reset the user response flag  *)
(* for the next session").  An answer that is found valid just before the  *)
(* thread of its request ends is written into the session after that: the  *)
(* next request is answered with it.                                       *)
AnswerIsItsOwn ==
  \A r \in NiRequest :
    niThread[r].at = "ended" /\ niThread[r].resp \in {"ACCEPT", "DENY"}
      => niThread[r].resp \in niGiven[r]

(* Liveness *)

(* A request that got a thread is answered or dropped in the end, whatever *)
(* the user, the other session and other threads do                        *)
(* (GnssAdapter.cpp:5444-5502): the modem is not left without an answer.   *)
NiRequestEnds == \A r \in NiRequest : niThread[r].at = "created" ~> niBack[r] # <<>>

=============================================================================
