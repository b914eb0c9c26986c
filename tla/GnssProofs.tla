----------------------------- MODULE GnssProofs -----------------------------
(***************************************************************************)
(* Proofs about the parts of GnssAdapter that MCGnss runs side by side:    *)
(* network initiated requests and on demand positions, and the safety      *)
(* invariants of all parts for the specification that is model-checked.    *)
(***************************************************************************)
EXTENDS MCGnss, AgpsProofs

-----------------------------------------------------------------------------
(* Network initiated requests: types *)

LEMMA SequenceFacts ==
  ASSUME NEW S
  PROVE  /\ <<>> \in Seq(S)
         /\ \A x \in S : <<x>> \in Seq(S)
         /\ \A u, v \in Seq(S) : u \o v \in Seq(S)
         /\ \A u \in Seq(S) : u # <<>> => Head(u) \in S /\ Tail(u) \in Seq(S)
  OBVIOUS

NiWriteSet == [session: NiSlot, resp: NiResponse]

LEMMA NiWritesType ==
  /\ <<>> \in NiWrites
  /\ NiIgnoreOrdinary \in NiWrites
  /\ \A s \in NiSlot, resp \in NiResponse : <<[session |-> s, resp |-> resp]>> \in NiWrites
  /\ \A u, v \in NiWrites : u \o v \in NiWrites
  /\ \A u \in NiWrites : u # <<>> => /\ Head(u) \in [session: NiSlot, resp: NiResponse]
                                      /\ Tail(u) \in NiWrites
  BY SequenceFacts DEF NiWrites, NiWriteSet, NiSlot, NiResponse, NiIgnoreOrdinary

LEMMA NiMembers ==
  /\ {"DENY", "ACCEPT", "IGNORE", "NO_RESPONSE"} \subseteq NiResponse
  /\ {"none", "failed", "created", "waiting", "expired", "clearing", "sending", "ended"}
       \subseteq NiThreadState
  BY DEF NiResponse, NiThreadState

LEMMA NiHandBackType ==
  ASSUME NiTypeOK, NEW r \in NiRequest, NEW how \in NiResponse \union {"freed"},
         NiHandBack(r, how)
  PROVE  niBack' \in [NiRequest -> Seq(NiResponse \union {"freed"})]
<1> DEFINE S == NiResponse \union {"freed"}
<1> HIDE DEF S
<1> QED BY DEF S, NiHandBack, NiTypeOK

NiSessionSet == [raw: NiRequest \union {NiNone}, reqID: Nat, resp: NiResponse, respRecvd: BOOLEAN]
NiTaskSet == [request: NiRequest \union {NiNone}, session: NiSlot, writes: NiWrites]

(* Records with some fields changed *)
LEMMA NiRecordTypes ==
  /\ \A d \in NiSessionSet, r \in NiRequest \union {NiNone}, n \in Nat :
       [d EXCEPT !.raw = r, !.reqID = n] \in NiSessionSet
  /\ \A d \in NiSessionSet, n \in Nat : [d EXCEPT !.reqID = n] \in NiSessionSet
  /\ \A d \in NiSessionSet, resp \in NiResponse :
       [d EXCEPT !.resp = resp, !.respRecvd = TRUE] \in NiSessionSet
  /\ \A d \in NiSessionSet, resp \in NiResponse :
       [d EXCEPT !.respRecvd = FALSE, !.resp = resp, !.raw = NiNone] \in NiSessionSet
  /\ \A t \in NiTaskSet, r \in NiRequest \union {NiNone}, s \in NiSlot :
       [t EXCEPT !.request = r, !.session = s] \in NiTaskSet
  /\ \A t \in NiTaskSet, r \in NiRequest \union {NiNone} : [t EXCEPT !.request = r] \in NiTaskSet
  /\ \A t \in NiTaskSet, w \in NiWrites : [t EXCEPT !.writes = w] \in NiTaskSet
  BY DEF NiSessionSet, NiTaskSet

LEMMA NiThreadGoesType ==
  ASSUME NiTypeOK, NEW r \in NiRequest, NEW at \in NiThreadState, NiThreadGoes(r, at)
  PROVE  niThread' \in [NiRequest -> [at: NiThreadState, session: NiSlot, resp: NiResponse]]
  BY DEF NiTypeOK, NiThreadGoes

LEMMA NiDecisionType == \A k \in NiKinds : NiDecision(k) \in NiResponse \union {"notify"}
  BY DEF NiDecision, NiResponse

LEMMA NiTypeInit == NiInit => NiTypeOK
  BY NiAssumption, NiWritesType
     DEF NiInit, NiTypeOK, NiSlot, NiResponse, NiThreadState

LEMMA NiTypeStep == NiTypeOK /\ [NiNext]_niVars => NiTypeOK'
<1> SUFFICES ASSUME NiTypeOK, [NiNext]_niVars PROVE NiTypeOK'
  OBVIOUS
<1> USE DEF NiTypeOK
<1>0. "session" \in NiSlot /\ "sessionEs" \in NiSlot /\ \A k \in NiKinds : NiSlotOf(k) \in NiSlot
  BY DEF NiSlot, NiSlotOf
<1> DEFINE S == niSession' \in [NiSlot -> NiSessionSet]
           T == niTask' \in NiTaskSet
<1>s. niSession \in [NiSlot -> NiSessionSet] /\ niTask \in NiTaskSet
  BY DEF NiSessionSet, NiTaskSet
<1>t. /\ S => niSession' \in [NiSlot -> [raw: NiRequest \union {NiNone}, reqID: Nat,
                                          resp: NiResponse, respRecvd: BOOLEAN]]
      /\ T => niTask' \in [request: NiRequest \union {NiNone}, session: NiSlot,
                            writes: NiWrites]
  BY DEF NiSessionSet, NiTaskSet
<1>1. ASSUME NEW r \in NiRequest, NEW k \in NiKinds, RequestNiNotify(r, k)
      PROVE  NiTypeOK'
  <2>1. /\ niArrived' \subseteq NiRequest
        /\ UNCHANGED <<niThread, niClient, niTold, niGiven, niAnswers, niMoves>>
    BY <1>1 DEF RequestNiNotify
  <2>2. CASE NiDecision(k) # "notify" /\ NiHandBack(r, NiDecision(k))
             /\ UNCHANGED <<niSession, niCounter, niTask>>
    BY <2>1, <2>2, NiDecisionType, NiHandBackType
  <2>3. CASE NiNotifyNobody(r, k)
    BY <2>1, <2>3, NiWritesType, NiHandBackType, NiMembers DEF NiNotifyNobody, NiGoOn
  <2>4. CASE NiNotify(r, k)
    <3>1. CASE NiHandBack(r, "freed") /\ UNCHANGED <<niSession, niCounter, niTask>>
      BY <2>1, <3>1, NiHandBackType
    <3>2. CASE ~NiBusy(k)
      <4> DEFINE s == NiSlotOf(k)
      <4>1. s \in NiSlot
        BY <1>0
      <4>2. /\ niSession' = [niSession EXCEPT ![s].raw = r, ![s].reqID = niCounter + 1]
            /\ niTask' = [niTask EXCEPT !.request = r, !.session = s]
            /\ niCounter' = niCounter + 1 /\ UNCHANGED niBack
        BY <2>4, <3>2 DEF NiNotify
      <4> HIDE DEF s
      <4>4. S
        <5>1. niSession[s] \in NiSessionSet /\ niCounter + 1 \in Nat
          BY <1>s, <4>1
        <5> QED BY <1>s, <4>1, <4>2, <5>1, NiRecordTypes
      <4>5. T
        BY <1>s, <4>1, <4>2, NiRecordTypes
      <4> QED BY <1>t, <2>1, <4>2, <4>4, <4>5
    <3> QED BY <2>4, <3>1, <3>2 DEF NiNotify
  <2> QED BY <1>1, <2>2, <2>3, <2>4 DEF RequestNiNotify
<1>2. ASSUME NEW r \in NiRequest, NiShowUser(r)
      PROVE  NiTypeOK'
  <2> DEFINE s == niTask.session
  <2>1. PICK at \in {"created", "failed"} :
          niThread' = [niThread EXCEPT ![r] = [@ EXCEPT !.at = at, !.session = s]]
    BY <1>2 DEF NiShowUser
  <2>3. niThread' \in [NiRequest -> [at: NiThreadState, session: NiSlot, resp: NiResponse]]
    BY <2>1, NiMembers
  <2> QED BY <1>t, <1>s, <1>2, <2>3, NiRecordTypes DEF NiShowUser
<1>3. ASSUME NEW id, NEW resp \in NiUserAnswers, GnssNiResponse(id, resp)
      PROVE  NiTypeOK'
  <2>1. resp \in NiResponse
    BY NiAssumption
  <2>2. niTask' \in [request: NiRequest \union {NiNone}, session: NiSlot, writes: NiWrites]
    BY <1>0, <1>3, <2>1, NiWritesType DEF GnssNiResponse, NiGoOn
  <2> QED BY <1>3, <2>1, <2>2 DEF GnssNiResponse
<1>4. CASE NiWrite
  <2> DEFINE w == Head(niTask.writes)
  <2>1. w \in [session: NiSlot, resp: NiResponse] /\ Tail(niTask.writes) \in NiWrites
    BY <1>4, NiWritesType DEF NiWrite
  <2>2. niSession' = [niSession EXCEPT ![w.session].resp = w.resp, ![w.session].respRecvd = TRUE]
    BY <1>4 DEF NiWrite
  <2>3. niTask' = [niTask EXCEPT !.writes = Tail(niTask.writes)]
    BY <1>4 DEF NiWrite, NiGoOn
  <2> HIDE DEF w
  <2>5. S /\ T
    BY <1>s, <2>1, <2>2, <2>3, NiRecordTypes
  <2> QED BY <1>4, <1>t, <2>5 DEF NiWrite
<1>5. CASE NiClientMoves
  BY <1>5 DEF NiClientMoves
<1>6. ASSUME NEW r \in NiRequest, NiWait(r) \/ NiExpire(r) \/ NiClear(r)
      PROVE  NiTypeOK'
  <2>1. niThread' \in [NiRequest -> [at: NiThreadState, session: NiSlot, resp: NiResponse]]
    BY <1>6, NiThreadGoesType, NiMembers DEF NiWait, NiExpire, NiClear
  <2>2. CASE NiClear(r)
    <3> DEFINE s == niThread[r].session
    <3> HIDE DEF s
    <3> QED BY <1>t, <1>s, <2>1, <2>2, NiRecordTypes DEF NiClear
  <2> QED BY <1>6, <2>1, <2>2 DEF NiWait, NiExpire
<1>7. ASSUME NEW r \in NiRequest, NiFinish(r)
      PROVE  NiTypeOK'
  <2> DEFINE s == niThread[r].session
             resp == IF niThread[r].at = "expired" THEN "NO_RESPONSE" ELSE niSession[s].resp
  <2>1. s \in NiSlot /\ resp \in NiResponse
    BY DEF NiResponse
  <2>2. niSession' = [niSession EXCEPT ![s].respRecvd = FALSE, ![s].resp = resp, ![s].raw = NiNone]
    BY <1>7 DEF NiFinish
  <2>3. niThread' = [niThread EXCEPT ![r].at = "clearing", ![r].resp = resp]
    BY <1>7 DEF NiFinish
  <2> HIDE DEF s, resp
  <2>7. S
    BY <1>s, <2>1, <2>2, NiRecordTypes
  <2>8. niThread' \in [NiRequest -> [at: NiThreadState, session: NiSlot, resp: NiResponse]]
    BY <2>1, <2>3, NiMembers
  <2> QED BY <1>t, <1>7, <2>7, <2>8, NiHandBackType DEF NiFinish
<1>8. ASSUME NEW r \in NiRequest, NiInform(r)
      PROVE  NiTypeOK'
  BY <1>8, NiHandBackType, NiThreadGoesType, NiMembers DEF NiInform
<1>9. CASE UNCHANGED niVars
  BY <1>9 DEF niVars
<1> QED
  BY <1>1, <1>2, <1>3, <1>4, <1>5, <1>6, <1>7, <1>8, <1>9 DEF NiNext

-----------------------------------------------------------------------------
(* Network initiated requests: one owner *)

(* The raw request is still with the adapter, to be handed back *)
NiOpen(r) ==
  \/ niTask.request = r
  \/ NiWaits(r)
  \/ niThread[r].at = "clearing" /\ niThread[r].resp # "IGNORE"
  \/ niThread[r].at = "sending"

(* A request that is new has no thread; one that is with the adapter has   *)
(* not been handed back.                                                   *)
NiNewIsUntouched ==
  \A r \in NiRequest :
    /\ r \notin niArrived => niThread[r].at = "none" /\ niBack[r] = <<>> /\ niTask.request # r
    /\ niTask.request = r => niThread[r].at = "none"

NiOpenIsKept ==
  \A r \in NiRequest : /\ NiOpen(r) => niBack[r] = <<>>
                       /\ Len(niBack[r]) <= 1

NiInv == NiTypeOK /\ SessionHasThread /\ NiNewIsUntouched /\ NiOpenIsKept

LEMMA NiInvImplies == NiInv => RequestHasOneOwner
  BY DEF NiInv, RequestHasOneOwner, HandedBackOnce, SessionHasThread, NiOpenIsKept, NiOpen

LEMMA NiInvInit == NiInit => NiInv
<1> SUFFICES ASSUME NiInit PROVE NiInv
  OBVIOUS
<1>2. SessionHasThread /\ NiNewIsUntouched /\ NiOpenIsKept
  BY NiAssumption DEF NiInit, SessionHasThread, NiNewIsUntouched, NiOpenIsKept, NiOpen, NiWaits
<1> QED BY <1>2, NiTypeInit DEF NiInv

(* What stays as it is when no session changes hands and no thread moves *)
LEMMA NiSameOwners ==
  ASSUME NiInv, NiTypeOK',
         \A s \in NiSlot : niSession'[s].raw = niSession[s].raw,
         niTask'.request = niTask.request, niTask'.session = niTask.session,
         UNCHANGED <<niThread, niArrived, niBack>>
  PROVE  NiInv'
  BY DEF NiInv, SessionHasThread, NiNewIsUntouched, NiOpenIsKept, NiOpen, NiWaits

LEMMA NiHandBackEffect ==
  ASSUME NiTypeOK, NEW r \in NiRequest, NEW how \in NiResponse \union {"freed"},
         NiHandBack(r, how), niBack[r] = <<>>
  PROVE  /\ Len(niBack'[r]) <= 1
         /\ \A q \in NiRequest : q # r => niBack'[q] = niBack[q]
  BY DEF NiHandBack, NiTypeOK

LEMMA NiInvStep == NiInv /\ [NiNext]_niVars => NiInv'
<1> SUFFICES ASSUME NiInv, [NiNext]_niVars PROVE NiInv'
  OBVIOUS
<1>0. NiTypeOK /\ NiTypeOK'
  BY NiTypeStep DEF NiInv
<1> USE DEF NiInv
<1>1. ASSUME NEW r \in NiRequest, NEW k \in NiKinds, RequestNiNotify(r, k)
      PROVE  NiInv'
  <2>1. /\ niThread' = niThread /\ niArrived' = niArrived \union {r}
        /\ niTask.request = NiNone /\ niThread[r].at = "none" /\ niBack[r] = <<>>
        /\ ~NiOpen(r)
    BY <1>1, NiAssumption DEF RequestNiNotify, NiIdle, NiNewIsUntouched, NiOpen, NiWaits
  <2>2. CASE /\ \E how \in NiResponse \union {"freed"} : NiHandBack(r, how)
             /\ niSession' = niSession /\ niTask'.request = NiNone
             /\ niTask'.session = niTask.session
    <3>1. /\ Len(niBack'[r]) <= 1
          /\ \A q \in NiRequest : q # r => niBack'[q] = niBack[q]
      BY <1>0, <2>1, <2>2, NiHandBackEffect
    <3>2. SessionHasThread'
      BY <2>1, <2>2 DEF SessionHasThread, NiWaits
    <3>3. NiNewIsUntouched'
      BY <2>1, <2>2, <3>1, NiAssumption DEF NiNewIsUntouched
    <3>4. NiOpenIsKept'
      BY <2>1, <2>2, <3>1, NiAssumption DEF NiOpenIsKept, NiOpen, NiWaits
    <3> QED BY <1>0, <3>2, <3>3, <3>4
  <2>3. CASE UNCHANGED <<niSession, niTask, niBack>>
    BY <1>0, <2>1, <2>3 DEF SessionHasThread, NiNewIsUntouched, NiOpenIsKept, NiOpen, NiWaits
  <2>4. CASE NiNotify(r, k) /\ ~NiBusy(k)
    <3> DEFINE s == NiSlotOf(k)
    <3>1. /\ s \in NiSlot /\ niSession[s].raw = NiNone
          /\ niTask'.request = r /\ niTask'.session = s /\ niBack' = niBack
          /\ niSession'[s].raw = r
          /\ \A t \in NiSlot : t # s => niSession'[t].raw = niSession[t].raw
      <4>1. s \in NiSlot /\ niSession[s].raw = NiNone
        BY <2>4 DEF NiBusy, NiSlotOf, NiSlot
      <4>2. /\ niSession' = [niSession EXCEPT ![s].raw = r, ![s].reqID = niCounter + 1]
            /\ niTask' = [niTask EXCEPT !.request = r, !.session = s]
            /\ niBack' = niBack
        BY <2>4, <1>1 DEF NiNotify, NiHandBack, RequestNiNotify
      <4> HIDE DEF s
      <4> QED BY <1>0, <4>1, <4>2 DEF NiTypeOK
    <3> HIDE DEF s
    <3>2. SessionHasThread'
      BY <2>1, <3>1, NiAssumption DEF SessionHasThread, NiWaits
    <3>3. NiNewIsUntouched'
      BY <2>1, <3>1 DEF NiNewIsUntouched
    <3>4. NiOpenIsKept'
      BY <2>1, <3>1 DEF NiOpenIsKept, NiOpen, NiWaits
    <3> QED BY <1>0, <3>2, <3>3, <3>4
  <2>5. CASE NiDecision(k) # "notify" /\ NiHandBack(r, NiDecision(k))
             /\ UNCHANGED <<niSession, niCounter, niTask>>
    BY <2>1, <2>2, <2>5, NiDecisionType
  <2>6. CASE NiNotifyNobody(r, k)
    <3>1. CASE k.type = "EMERGENCY_SUPL"
      <4>1. /\ NiHandBack(r, "ACCEPT") /\ niSession' = niSession
            /\ niTask' = [niTask EXCEPT !.writes = NiIgnoreOrdinary]
        BY <2>6, <3>1 DEF NiNotifyNobody, NiGoOn
      <4>2. niTask'.request = NiNone /\ niTask'.session = niTask.session
        BY <1>0, <2>1, <4>1 DEF NiTypeOK
      <4> QED BY <2>2, <4>1, <4>2, NiMembers
    <3>2. CASE k.type # "EMERGENCY_SUPL"
      BY <2>3, <2>6, <3>2 DEF NiNotifyNobody
    <3> QED BY <3>1, <3>2
  <2>7. CASE NiNotify(r, k) /\ NiBusy(k)
    <3>1. NiHandBack(r, "freed") /\ UNCHANGED <<niSession, niTask>>
      BY <2>7 DEF NiNotify
    <3> QED BY <2>1, <2>2, <3>1
  <2> QED BY <1>1, <2>4, <2>5, <2>6, <2>7 DEF RequestNiNotify
<1>2. ASSUME NEW r \in NiRequest, NiShowUser(r)
      PROVE  NiInv'
  <2> DEFINE s == niTask.session
  <2>1. PICK at \in {"created", "failed"} :
          niThread' = [niThread EXCEPT ![r] = [@ EXCEPT !.at = at, !.session = s]]
    BY <1>2 DEF NiShowUser
  <2>2. /\ niTask.request = r /\ niTask' = [niTask EXCEPT !.request = NiNone]
        /\ UNCHANGED <<niSession, niArrived, niBack>>
    BY <1>2 DEF NiShowUser
  <2>3. /\ niThread[r].at = "none" /\ niBack[r] = <<>> /\ r \in niArrived
        /\ \A t \in NiSlot, q \in NiRequest : niSession[t].raw = q <=>
              \/ q = r /\ s = t
              \/ NiWaits(q) /\ niThread[q].session = t
    BY <2>2 DEF NiNewIsUntouched, NiOpenIsKept, NiOpen, SessionHasThread
  <2>4. /\ niThread'[r].at = at /\ niThread'[r].session = s
        /\ \A q \in NiRequest : q # r => niThread'[q] = niThread[q]
        /\ niTask'.request = NiNone
    BY <1>0, <2>1, <2>2 DEF NiTypeOK
  <2>5. SessionHasThread'
    BY <2>2, <2>3, <2>4, NiAssumption DEF SessionHasThread, NiWaits
  <2>6. NiNewIsUntouched'
    BY <2>2, <2>3, <2>4, NiAssumption DEF NiNewIsUntouched
  <2>7. NiOpenIsKept'
    BY <2>2, <2>3, <2>4, NiAssumption DEF NiOpenIsKept, NiOpen, NiWaits
  <2> QED BY <1>0, <2>5, <2>6, <2>7
<1>3. ASSUME NEW id, NEW resp, GnssNiResponse(id, resp)
      PROVE  NiInv'
  <2>1. niTask'.request = niTask.request /\ niTask'.session = niTask.session
    BY <1>0, <1>3 DEF GnssNiResponse, NiGoOn, NiTypeOK
  <2> QED BY <1>0, <1>3, <2>1, NiSameOwners DEF GnssNiResponse
<1>4. CASE NiWrite
  <2> DEFINE w == Head(niTask.writes)
  <2>1. w \in [session: NiSlot, resp: NiResponse]
    BY <1>0, <1>4, NiWritesType DEF NiWrite, NiTypeOK
  <2>2. niSession' = [niSession EXCEPT ![w.session].resp = w.resp, ![w.session].respRecvd = TRUE]
    BY <1>4 DEF NiWrite
  <2>3. niTask'.request = niTask.request /\ niTask'.session = niTask.session
    BY <1>0, <1>4 DEF NiWrite, NiGoOn, NiTypeOK
  <2>4. w.session \in NiSlot
    BY <2>1
  <2>5. niSession' = [niSession EXCEPT ![w.session] =
                       [niSession[w.session] EXCEPT !.resp = w.resp, !.respRecvd = TRUE]]
    BY <2>2, <2>4
  <2> HIDE DEF w
  <2>6. \A s \in NiSlot : niSession'[s].raw = niSession[s].raw
    <3>1. PICK v, x : v = w.session
                      /\ x = [niSession[w.session] EXCEPT !.resp = w.resp, !.respRecvd = TRUE]
      OBVIOUS
    <3>2. x.raw = niSession[v].raw
      BY <1>0, <2>4, <3>1 DEF NiTypeOK
    <3> QED BY <1>0, <2>4, <2>5, <3>1, <3>2 DEF NiTypeOK
  <2> QED BY <1>0, <1>4, <2>3, <2>6, NiSameOwners DEF NiWrite
<1>5. CASE NiClientMoves
  BY <1>0, <1>5, NiSameOwners DEF NiClientMoves
<1>6. ASSUME NEW r \in NiRequest, NiWait(r) \/ NiExpire(r)
      PROVE  NiInv'
  <2>1. PICK at \in {"waiting", "expired"} : NiThreadGoes(r, at)
    BY <1>6 DEF NiWait, NiExpire
  <2>2. /\ niThread[r].at \in {"created", "waiting"}
        /\ UNCHANGED <<niSession, niTask, niArrived, niBack>>
    BY <1>6 DEF NiWait, NiExpire
  <2>3. /\ niThread'[r].at \in {"waiting", "expired"}
        /\ niThread'[r].session = niThread[r].session
        /\ \A q \in NiRequest : q # r => niThread'[q] = niThread[q]
    BY <1>0, <2>1 DEF NiThreadGoes, NiTypeOK
  <2> QED
    BY <1>0, <2>2, <2>3 DEF SessionHasThread, NiNewIsUntouched, NiOpenIsKept, NiOpen, NiWaits
<1>7. ASSUME NEW r \in NiRequest, NiFinish(r)
      PROVE  NiInv'
  <2> DEFINE s == niThread[r].session
             resp == IF niThread[r].at = "expired" THEN "NO_RESPONSE" ELSE niSession[s].resp
  <2>0. niThread[r].at \in {"created", "waiting", "expired"} /\ s \in NiSlot /\ NiWaits(r)
    BY <1>0, <1>7 DEF NiFinish, NiWaits, NiTypeOK
  <2>1. /\ s \in NiSlot /\ NiWaits(r) /\ niSession[s].raw = r /\ niBack[r] = <<>>
        /\ \A t \in NiSlot : t # s => niSession[t].raw # r
        /\ niThread[r].at # "none" /\ r \in niArrived /\ niTask.request # r
    BY <1>0, <2>0
       DEF NiTypeOK, SessionHasThread, NiOpenIsKept, NiOpen, NiNewIsUntouched
  <2>2. /\ niSession' = [niSession EXCEPT ![s].respRecvd = FALSE, ![s].resp = resp,
                                         ![s].raw = NiNone]
        /\ niThread' = [niThread EXCEPT ![r].at = "clearing", ![r].resp = resp]
        /\ UNCHANGED <<niTask, niArrived>>
        /\ \/ resp = "IGNORE" /\ NiHandBack(r, "freed")
           \/ resp # "IGNORE" /\ UNCHANGED niBack
    BY <1>7 DEF NiFinish
  <2> HIDE DEF s, resp
  <2>3. /\ niSession'[s].raw = NiNone
        /\ \A t \in NiSlot : t # s => niSession'[t] = niSession[t]
        /\ niThread'[r].at = "clearing" /\ niThread'[r].resp = resp
        /\ \A q \in NiRequest : q # r => niThread'[q] = niThread[q]
    <3>1. PICK x : x = [niSession[s] EXCEPT !.respRecvd = FALSE, !.resp = resp, !.raw = NiNone]
      OBVIOUS
    <3>2. PICK y : y = [niThread[r] EXCEPT !.at = "clearing", !.resp = resp]
      OBVIOUS
    <3>3. niSession' = [niSession EXCEPT ![s] = x] /\ niThread' = [niThread EXCEPT ![r] = y]
      BY <1>0, <2>1, <2>2, <3>1, <3>2 DEF NiTypeOK
    <3>4. x.raw = NiNone /\ y.at = "clearing" /\ y.resp = resp
      BY <1>0, <2>1, <3>1, <3>2 DEF NiTypeOK
    <3> QED BY <1>0, <2>1, <3>3, <3>4 DEF NiTypeOK
  <2>4. /\ Len(niBack'[r]) <= 1
        /\ resp # "IGNORE" => niBack'[r] = <<>>
        /\ \A q \in NiRequest : q # r => niBack'[q] = niBack[q]
    BY <1>0, <2>1, <2>2, NiHandBackEffect
  <2>5. SessionHasThread'
    <3> SUFFICES ASSUME NEW t \in NiSlot, NEW q \in NiRequest
                 PROVE  niSession'[t].raw = q <=>
                          \/ niTask.request = q /\ niTask.session = t
                          \/ NiWaits(q)' /\ niThread'[q].session = t
      BY <2>2 DEF SessionHasThread
    <3>1. niSession[t].raw = q <=>
            \/ niTask.request = q /\ niTask.session = t
            \/ NiWaits(q) /\ niThread[q].session = t
      BY DEF SessionHasThread
    <3>2. ~NiWaits(r)' /\ (q # r => (NiWaits(q)' <=> NiWaits(q)))
      BY <2>3 DEF NiWaits
    <3>3. CASE q = r
      <4>1. niTask.request # q /\ ~NiWaits(q)'
        BY <2>1, <3>2, <3>3
      <4>2. niSession'[t].raw # q
        BY <2>1, <2>3, <3>3, NiAssumption
      <4> QED BY <4>1, <4>2
    <3>4. CASE q # r
      <4>1. /\ NiWaits(q)' <=> NiWaits(q)
            /\ niThread'[q] = niThread[q]
        BY <2>3, <3>2, <3>4
      <4>2. CASE t = s
        <5>1. niSession'[t].raw # q /\ niSession[t].raw = r
          BY <2>1, <2>3, <4>2, NiAssumption
        <5> QED BY <3>1, <3>4, <4>1, <5>1
      <4>3. CASE t # s
        BY <2>3, <3>1, <4>1, <4>3
      <4> QED BY <4>2, <4>3
    <3> QED BY <3>3, <3>4
  <2>6. NiNewIsUntouched'
    <3>1. r \in niArrived' /\ niTask'.request # r
      BY <2>1, <2>2
    <3>2. ASSUME NEW q \in NiRequest, q # r
          PROVE  /\ q \notin niArrived' => niThread'[q].at = "none" /\ niBack'[q] = <<>>
                                           /\ niTask'.request # q
                 /\ niTask'.request = q => niThread'[q].at = "none"
      BY <2>2, <2>3, <2>4, <3>2 DEF NiNewIsUntouched
    <3> QED BY <3>1, <3>2 DEF NiNewIsUntouched
  <2>7. NiOpenIsKept'
    <3>1. NiOpen(r)' => niBack'[r] = <<>>
      <4>1. niTask'.request # r
        BY <2>1, <2>2
      <4>2. ~NiWaits(r)' /\ niThread'[r].at # "sending" /\ niThread'[r].resp = resp
        BY <2>3 DEF NiWaits
      <4> QED BY <2>4, <4>1, <4>2 DEF NiOpen
    <3>2. ASSUME NEW q \in NiRequest, q # r
          PROVE  (NiOpen(q)' <=> NiOpen(q)) /\ niBack'[q] = niBack[q]
      BY <2>2, <2>3, <2>4, <3>2 DEF NiOpen, NiWaits
    <3> QED BY <1>0, <2>4, <3>1, <3>2 DEF NiOpenIsKept
  <2> QED BY <1>0, <2>5, <2>6, <2>7
<1>8. ASSUME NEW r \in NiRequest, NiClear(r)
      PROVE  NiInv'
  <2> DEFINE s == niThread[r].session
  <2>1. s \in NiSlot /\ niSession' = [niSession EXCEPT ![s].reqID = 0]
    BY <1>0, <1>8 DEF NiClear, NiTypeOK
  <2>2. \A t \in NiSlot : niSession'[t].raw = niSession[t].raw
    BY <1>0, <2>1 DEF NiTypeOK
  <2>3. /\ niThread[r].at = "clearing" /\ niThread'[r].resp = niThread[r].resp
        /\ niThread'[r].at = IF niThread[r].resp = "IGNORE" THEN "ended" ELSE "sending"
        /\ \A q \in NiRequest : q # r => niThread'[q] = niThread[q]
        /\ UNCHANGED <<niTask, niArrived, niBack>>
    BY <1>0, <1>8 DEF NiClear, NiThreadGoes, NiTypeOK
  <2> QED
    BY <1>0, <2>2, <2>3 DEF SessionHasThread, NiNewIsUntouched, NiOpenIsKept, NiOpen, NiWaits
<1>9. ASSUME NEW r \in NiRequest, NiInform(r)
      PROVE  NiInv'
  <2>1. /\ niThread[r].at = "sending" /\ niThread'[r].at = "ended"
        /\ \A q \in NiRequest : q # r => niThread'[q] = niThread[q]
        /\ UNCHANGED <<niSession, niTask, niArrived>>
        /\ NiHandBack(r, niThread[r].resp) /\ niTask.request = NiNone
    BY <1>0, <1>9 DEF NiInform, NiThreadGoes, NiTypeOK, NiIdle
  <2>2. niBack[r] = <<>> /\ niThread[r].resp \in NiResponse
    BY <1>0, <2>1 DEF NiOpenIsKept, NiOpen, NiTypeOK
  <2>3. /\ Len(niBack'[r]) <= 1
        /\ \A q \in NiRequest : q # r => niBack'[q] = niBack[q]
    BY <1>0, <2>1, <2>2, NiHandBackEffect
  <2> QED
    BY <1>0, <2>1, <2>3, NiAssumption
       DEF SessionHasThread, NiNewIsUntouched, NiOpenIsKept, NiOpen, NiWaits
<1>10. CASE UNCHANGED niVars
  BY <1>0, <1>10, NiSameOwners DEF niVars
<1>11. CASE NiNext
  BY <1>1, <1>2, <1>3, <1>4, <1>5, <1>6, <1>7, <1>8, <1>9, <1>11 DEF NiNext
<1> QED BY <1>10, <1>11

(* However the threads of two requests, the message thread and the client  *)
(* interleave, each session belongs to one thread that has not finished,   *)
(* and each raw request is handed back at most once and not while a        *)
(* session holds it (GnssAdapter.cpp:5444-5592).                           *)
THEOREM NetworkRequestsHaveOneOwner == NiSpec => []RequestHasOneOwner
<1>1. NiSpec => []NiInv
  BY NiInvInit, NiInvStep, PTL DEF NiSpec
<1> QED BY <1>1, NiInvImplies, PTL

-----------------------------------------------------------------------------
(* On demand positions: the flag, the timer and what is owed *)

(* The provers treat what is Boolean and what is a number apart *)
OdFlagsOK ==
  /\ odActive \in BOOLEAN /\ odRequest \in BOOLEAN
  /\ odTimerFlag \in BOOLEAN /\ odArmed \in BOOLEAN
  /\ odProvider \in BOOLEAN /\ odSuspended \in BOOLEAN
  /\ odEsStatus \in BOOLEAN /\ odInCall \in BOOLEAN

OdCountsOK ==
  /\ odExpiries \in Nat /\ odRequests \in Nat /\ odEvents \in Nat
  /\ odOthers \subseteq OdPriority
  /\ odOwed \in OdKind

OdInv == OdFlagsOK /\ OdCountsOK /\ RepetitionIsComing

LEMMA OdInvInit == OdInit => OdInv
<1>1. OdInit => OdFlagsOK
  BY Zenon DEF OdInit, OdFlagsOK
<1>3. OdInit => RepetitionIsComing
  BY Zenon DEF OdInit, RepetitionIsComing
<1> QED BY <1>1, <1>3 DEF OdInv, OdInit, OdCountsOK, OdKind

(* What RepetitionIsComing looks at stays as it is *)
LEMMA OdSame ==
  ASSUME RepetitionIsComing,
         UNCHANGED <<odActive, odTimerFlag, odArmed, odExpiries, odOwed, odRequest>>
  PROVE  RepetitionIsComing'
  BY Zenon DEF OdKindOf, RepetitionIsComing

LEMMA OdInvStep == OdInv /\ [OdNext]_odVars => OdInv'
<1> SUFFICES ASSUME OdFlagsOK, OdCountsOK, RepetitionIsComing, [OdNext]_odVars
             PROVE  OdInv'
  BY DEF OdInv
<1>1. CASE OdTimeOut
  <2>1. OdFlagsOK'
    BY <1>1, Zenon DEF OdTimeOut, OdFlagsOK
  <2>2. OdCountsOK' /\ odExpiries' > 0
    BY <1>1 DEF OdTimeOut, OdCountsOK
  <2>4. RepetitionIsComing'
    BY <1>1, <2>2, Zenon DEF OdTimeOut, RepetitionIsComing, OdKindOf
  <2> QED BY <2>1, <2>2, <2>4 DEF OdInv
<1>2. CASE OdcpiTimerExpire
  <2>1. OdFlagsOK'
    BY <1>2, Zenon DEF OdcpiTimerExpire, OdTimerStart, OdTimerStop, OdFlagsOK
  <2>3. OdCountsOK'
    BY <1>2 DEF OdcpiTimerExpire, OdCountsOK, OdFire, OdKind
  <2>4. CASE odActive
    <3>3. RepetitionIsComing'
      BY <1>2, <2>4, Zenon DEF RepetitionIsComing, OdKindOf, OdcpiTimerExpire, OdFire,
        OdTimerStart
    <3> QED BY <2>1, <2>3, <3>3 DEF OdInv
  <2>5. CASE ~odActive
    BY <1>2, <2>1, <2>3, <2>5, Zenon DEF OdcpiTimerExpire, OdTimerStop, RepetitionIsComing,
      OdInv
  <2> QED BY <2>4, <2>5
<1>3. ASSUME NEW emergency \in BOOLEAN, OdcpiStart(emergency)
      PROVE  OdInv'
  <2>1. OdFlagsOK'
    BY <1>3, Zenon DEF OdcpiStart, OdTimerStart, OdFlagsOK
  <2>2. OdKindOf(emergency) \in OdKind /\ odOwed' \in OdKind
    BY <1>3 DEF OdcpiStart, OdFire, OdKindOf, OdKind
  <2>3. OdCountsOK'
    BY <1>3, <2>2 DEF OdcpiStart, OdAsks, OdCountsOK
  <2>4. OdKindOf(odRequest)' = OdKindOf(emergency)
    BY <1>3 DEF OdcpiStart, OdKindOf
  <2>5. CASE OdFiresNow(emergency)
    <3>3. RepetitionIsComing'
      BY <1>3, <2>4, <2>5, Zenon DEF RepetitionIsComing, OdKindOf, OdcpiStart, OdFire,
        OdTimerStart
    <3> QED BY <2>1, <2>3, <3>3 DEF OdInv
  <2>6. CASE ~OdFiresNow(emergency)
    <3>1. /\ odOwed' = "none" \/ odOwed' = OdKindOf(emergency)
          /\ odActive' = TRUE /\ UNCHANGED <<odTimerFlag, odArmed, odExpiries>>
      BY <1>3, <2>6, Zenon DEF OdcpiStart
    <3>3. RepetitionIsComing'
      BY <2>4, <2>6, <3>1, Zenon DEF RepetitionIsComing, OdFiresNow
    <3> QED BY <2>1, <2>3, <3>3 DEF OdInv
  <2> QED BY <2>5, <2>6
<1>4. ASSUME \/ \E emergency \in BOOLEAN : OdcpiStop(emergency)
             \/ OdRestart
      PROVE  OdInv'
  <2>1. OdFlagsOK'
    BY <1>4, Zenon DEF OdcpiStop, OdRestart, OdFlagsOK
  <2>2. OdCountsOK'
    BY <1>4 DEF OdcpiStop, OdRestart, OdAsks, OdHappens, OdCountsOK, OdKind
  <2>3. /\ odActive' => odActive
        /\ odOwed' = "none" /\ UNCHANGED <<odTimerFlag, odArmed, odExpiries>>
    BY <1>4, Zenon DEF OdcpiStop, OdRestart
  <2>4. RepetitionIsComing'
    BY <2>3, Zenon DEF RepetitionIsComing
  <2> QED BY <2>1, <2>2, <2>4 DEF OdInv
<1>5. ASSUME \/ InitOdcpi \/ OdPowerEvent
             \/ \E p \in OdPriority : InitNonEsOdcpi(p) \/ DeRegisterOdcpi(p)
             \/ UNCHANGED odVars
      PROVE  OdInv'
  <2> USE <1>5 DEF InitOdcpi, OdPowerEvent, InitNonEsOdcpi, DeRegisterOdcpi, OdHappens, odVars
  <2>1. OdFlagsOK'
    BY Zenon DEF OdFlagsOK
  <2>3. UNCHANGED <<odActive, odTimerFlag, odArmed, odExpiries, odOwed, odRequest>>
    BY Zenon
  <2> QED BY <2>1, <2>3, OdSame DEF OdInv, OdCountsOK
<1> QED BY <1>1, <1>2, <1>3, <1>4, <1>5 DEF OdNext

(* An active request always has a repetition to come, and the timer's own  *)
(* flag never outlives the LocTimer, whatever starts, stops, restarts and  *)
(* late expiries there are (GnssAdapter.cpp:5933-5964, 6349-6362).         *)
THEOREM RepetitionAlwaysComing == OdSpec => []RepetitionIsComing
<1>1. OdInv => RepetitionIsComing
  BY DEF OdInv
<1> QED BY <1>1, OdInvInit, OdInvStep, PTL DEF OdSpec

-----------------------------------------------------------------------------
(* The three parts together *)

(* AGPS with every trouble is an instance of the module with other         *)
(* constants, so what was proved about the module holds of it.             *)
TP == INSTANCE AgpsProofs WITH Troubles <- Trouble, MaxInbox <- MaxInbox + 1

AgpsInv == Inv /\ TypesProper /\ CommandsProper

LEMMA TroubledInv == TP!Inv /\ TP!TypesProper /\ TP!CommandsProper <=> AgpsInv
  BY Zenon DEF Inv, TP!Inv, UncreatedIsReleased, TP!UncreatedIsReleased,
         ReleasedIffNoSubscribers, TP!ReleasedIffNoSubscribers,
         ConnectionIsWanted, TP!ConnectionIsWanted, SubscribersMatchModem,
         TP!SubscribersMatchModem, StatusMatches, TP!StatusMatches,
         OneSubscriptionPerHandle, TP!OneSubscriptionPerHandle,
         UsedHandlesSubscribe, TP!UsedHandlesSubscribe, TypeOK, TP!TypeOK,
         Nif, TP!Nif, AgpsState, TP!AgpsState, AtlType, TP!AtlType,
         Subscriber, TP!Subscriber, Command, TP!Command, AtlStatus,
         TP!AtlStatus, Active, TP!Active, HandlesOf, TP!HandlesOf,
         TypesProper, TP!TypesProper, CommandsProper, TP!CommandsProper,
         AllProper, TP!AllProper, Proper, TP!Proper, NifOf, TP!NifOf, AgpsInv

LEMMA TroubledNext == Troubled!Next => TP!Next
  BY Zenon DEF Troubled!Active, TP!Active, Troubled!AddSubscriber,
         TP!AddSubscriber, Troubled!Answers, TP!Answers, Troubled!AtlType,
         TP!AtlType, Troubled!Registered, TP!Registered, Troubled!Heard, TP!Heard,
         Troubled!CreateAgpsStateMachines, TP!CreateAgpsStateMachines,
         Troubled!DataConnClosed, TP!DataConnClosed, Troubled!DataConnFailed,
         TP!DataConnFailed, Troubled!DataConnLost, TP!DataConnLost,
         Troubled!DataConnOpen, TP!DataConnOpen, Troubled!DataConnOpenBadApn,
         TP!DataConnOpenBadApn, Troubled!Denied, TP!Denied, Troubled!DropAll,
         TP!DropAll, Troubled!EffectiveType, TP!EffectiveType,
         Troubled!EndReleasing, TP!EndReleasing, Troubled!FrameworkAnswer,
         TP!FrameworkAnswer, Troubled!Granted, TP!Granted,
         Troubled!HandleModemSSR, TP!HandleModemSSR, Troubled!HandlesOf,
         TP!HandlesOf, Troubled!HasRoom, TP!HasRoom, Troubled!Ignore,
         TP!Ignore, Troubled!Inactive, TP!Inactive, Troubled!Next, TP!Next,
         Troubled!Nif, TP!Nif, Troubled!NifOf, TP!NifOf, Troubled!Notify,
         TP!Notify, Troubled!ReleaseATL, TP!ReleaseATL, Troubled!Released,
         TP!Released, Troubled!ReportPdnTypeFromWds, TP!ReportPdnTypeFromWds,
         Troubled!RequestATL, TP!RequestATL, Troubled!Send, TP!Send,
         Troubled!Subscribe, TP!Subscribe, Troubled!Transition, TP!Transition,
         Troubled!Unsubscribe, TP!Unsubscribe, Troubled!vars, TP!vars

LEMMA TroubledService == [TP!Service!Next]_atl => [Service!Next]_atl
  BY Zenon DEF TP!Service!Next, Service!Next, TP!Service!Step, Service!Step,
         TP!Service!Restart, Service!Restart, TP!Service!MayBecome, Service!MayBecome,
         TP!Service!Status, Service!Status, TP!Service!Unused, Service!Unused

LEMMA AgpsInvInit == Init => AgpsInv
<1>1. Init => TypeOK
  BY DEF Init, TypeOK, Nif, AgpsState, AtlType, AtlStatus, Command
<1>2. Init => TypesProper /\ CommandsProper
  BY DEF Init, TypesProper, CommandsProper, AllProper, Proper, NifOf, Nif
<1> QED BY <1>1, <1>2
       DEF Init, AgpsInv, Inv, UncreatedIsReleased, ReleasedIffNoSubscribers,
           ConnectionIsWanted, SubscribersMatchModem, StatusMatches,
           OneSubscriptionPerHandle, UsedHandlesSubscribe

(* A step of either AGPS part keeps the invariant and is one of the service *)
LEMMA AgpsInvStep ==
  AgpsInv /\ ([Next]_vars \/ Troubled!Next) => AgpsInv' /\ [Service!Next]_atl
<1>2. AgpsInv /\ Troubled!Next => AgpsInv' /\ [Service!Next]_atl
  <2> DEFINE T == TP!Inv /\ TP!TypesProper /\ TP!CommandsProper
  <2>2. Trouble \subseteq TP!Trouble /\ MaxInbox + 1 \in Nat
    BY BoundsAssumption DEF Trouble, TP!Trouble
  <2>3. /\ TP!TypeOK /\ [TP!Next]_(TP!vars) => TP!TypeOK'
        /\ TP!Inv /\ TP!TypeOK' /\ [TP!Next]_(TP!vars) => TP!Inv'
    BY <2>2, TP!TypeStep, TP!InvStep, SwitchesAssumption, BoundsAssumption
  <2>6. T /\ TP!Next => T' /\ [TP!Service!Next]_atl
    BY <2>2, <2>3, TP!ProperStep, SwitchesAssumption, BoundsAssumption, TP!ServiceStep
      DEF TP!Inv
  <2>7. (T <=> AgpsInv) /\ (T' <=> AgpsInv')
    BY TroubledInv, PTL
  <2> HIDE DEF T
  <2> QED BY <2>6, <2>7, TroubledNext, TroubledService
<1> QED BY <1>2, TypeStep, InvStep, ProperStep, ServiceStep DEF Inv, AgpsInv

GnssInv == AgpsInv /\ NiInv /\ OdInv

LEMMA GnssInvInit == GnssInit => GnssInv
  BY AgpsInvInit, NiInvInit, OdInvInit DEF GnssInit, GnssInv

(* A behaviour is one of one part: a step of it leaves the others alone *)
LEMMA GnssInvStep ==
  GnssInv /\ [GnssNext]_gnssVars => GnssInv' /\ [Service!Next]_atl
<1> SUFFICES ASSUME GnssInv, [GnssNext]_gnssVars
             PROVE  GnssInv' /\ [Service!Next]_atl
  OBVIOUS
<1>1. /\ [Next]_vars \/ Troubled!Next
      /\ [NiNext]_niVars
      /\ [OdNext]_odVars
  BY DEF GnssNext, AgpsStep, TroubledStep, NiStep, OdStep, gnssVars
<1> QED BY <1>1, AgpsInvStep, NiInvStep, OdInvStep DEF GnssInv

LEMMA GnssInvHolds == GnssSpec => []GnssInv
  BY GnssInvInit, GnssInvStep, PTL DEF GnssSpec

(* In every part, for any number of handles and requests, the variables    *)
(* keep their types (Agps.h, GnssAdapter.h).                               *)
THEOREM GnssTypesCorrect == GnssSpec => []GnssTypesOK
<1>1. GnssInv => GnssTypesOK
  BY DEF GnssInv, AgpsInv, Inv, NiInv, OdInv, OdFlagsOK, OdCountsOK, OdTypeOK, GnssTypesOK
<1> QED BY <1>1, GnssInvHolds, PTL

(* What the modem asks for is kept until it is dealt with: one owner ends  *)
(* a network initiated request, a timer repeats a wanted position          *)
(* (GnssAdapter.cpp:5444-5502, 5933-5964).                                 *)
THEOREM RequestsAlwaysKept == GnssSpec => []RequestsAreKept
<1>1. GnssInv => RequestsAreKept
  BY NiInvImplies DEF GnssInv, OdInv, RequestsAreKept
<1> QED BY <1>1, GnssInvHolds, PTL

(* With every trouble that the framework and the modem can make at once,   *)
(* the AGPS machines keep only data connections that somebody wants, their *)
(* lists agree with what the modem was told, and commands name the type of *)
(* their interface (Agps.cpp:140-150, 588-597).                            *)
THEOREM TroubledAgpsIsSafe ==
  GnssSpec => [](ConnectionIsWanted /\ SubscribersMatchModem /\ CommandsNameOwnType)
<1>1. GnssInv => ConnectionIsWanted /\ SubscribersMatchModem /\ CommandsNameOwnType
  BY DEF GnssInv, AgpsInv, Inv, CommandsProper, AllProper, Proper, CommandsNameOwnType
<1> QED BY <1>1, GnssInvHolds, PTL

(* What a modem's connection handle goes through is what AtlService        *)
(* allows, with the other parts running and with every trouble             *)
(* (Agps.cpp:582-645).                                                     *)
THEOREM GnssImplementsService == GnssSpec => ImplementsAtlService
<1>1. GnssInit => Service!Init
  BY DEF GnssInit, Init, Service!Init
<1> QED
  BY <1>1, GnssInvStep, GnssInvHolds, PTL DEF GnssSpec, ImplementsAtlService, Service!Spec

=============================================================================
