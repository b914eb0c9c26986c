--------------------------- MODULE BatchingProofs ---------------------------
(***************************************************************************)
(* Proofs about the parts that MCBatching runs side by side: the listener  *)
(* to the battery, what the framework gets of batching, the utilities, and *)
(* the sessions of the batching adapter.                                   *)
(***************************************************************************)
EXTENDS MCBatching, DataInduction

-----------------------------------------------------------------------------
(* The battery: types *)

BlStatuses == BlStatus \cup {"none"}
BlTolds == BlStatus \cup {"deaf", "nothing"}
BlServices == [up: BOOLEAN, told: BlTolds]
BlListeners == [health: {"none", "live", "dead"}, linked: BOOLEAN, status: BlKnown,
                done: BOOLEAN, lock: BOOLEAN]
BlWorkers == [at: {"none", "start", "wait", "woken", "defer", "call", "end"}, local: BlKnown]
BlStales == [begun: BOOLEAN, late: BOOLEAN]
BlEventss == [changes: 0..MaxBlChanges, deaths: 0..MaxBlDeaths]

BlTypesNow ==
  /\ blBattery \in BlStatus /\ blService \in BlServices
  /\ blCalls \in [{"fresh", "late"} -> BlStatuses]
  /\ blListener \in BlListeners /\ blWorker \in BlWorkers
  /\ blAt \in [BlThread -> BlStep]
  /\ blHeard \in BOOLEAN /\ blGaveUp \in BOOLEAN
  /\ blStale \in BlStales /\ blEvents \in BlEventss

LEMMA BlTypes ==
  BlTypeOK <=> /\ blBattery \in BlStatus /\ blService \in BlServices
               /\ blCalls \in [{"fresh", "late"} -> BlStatuses]
               /\ blListener \in BlListeners /\ blWorker \in BlWorkers
               /\ blAt \in [BlThread -> BlStep]
               /\ blHeard \in BOOLEAN /\ blGaveUp \in BOOLEAN
               /\ blStale \in BlStales /\ blEvents \in BlEventss
  BY DEF BlTypeOK, BlServices, BlStatuses, BlTolds, BlListeners, BlWorkers, BlStales, BlEventss

LEMMA BlStepFacts ==
  /\ "idle" \in BlStep /\ "died" \in BlStep /\ "clear" \in BlStep /\ "join" \in BlStep
  /\ "lock" \in BlStep /\ "connect" \in BlStep /\ "get" \in BlStep
  /\ "thread" \in BlStep /\ "register" \in BlStep /\ "link" \in BlStep
  /\ "ask" \in BlStep /\ "tell" \in BlStep
  /\ "init" \in BlThread /\ "death" \in BlThread
  BY DEF BlStep, BlThread

LEMMA BlLoopType ==
  ASSUME BlTypeOK, NEW local \in BlKnown
  PROVE  BlLoop(local) \in BlWorkers
  BY BlTypes DEF BlLoop, BlWorkers, BlListeners

LEMMA BlInitType == BlInit => BlTypeOK
<1> SUFFICES ASSUME BlInit PROVE BlTypeOK
  OBVIOUS
<1>1. blBattery \in BlStatus /\ blService \in BlServices
  BY DEF BlInit, BlServices, BlTolds
<1>2. blCalls \in [{"fresh", "late"} -> BlStatuses]
  BY DEF BlInit, BlStatuses
<1>3. blListener \in BlListeners /\ blWorker \in BlWorkers
  BY DEF BlInit, BlListeners, BlWorkers, BlKnown
<1>4. blAt \in [BlThread -> BlStep]
  BY DEF BlInit, BlThread, BlStep
<1>5. blHeard \in BOOLEAN /\ blGaveUp \in BOOLEAN
  BY DEF BlInit
<1>6. blStale \in BlStales
  BY DEF BlInit, BlStales
<1>7. blEvents \in BlEventss
  BY BlAssumption DEF BlInit, BlEventss
<1> QED BY <1>1, <1>2, <1>3, <1>4, <1>5, <1>6, <1>7, BlTypes

LEMMA BlTypeStep ==
  ASSUME BlTypeOK, [BlNext]_blVars
  PROVE  BlTypeOK'
<1> SUFFICES BlTypesNow'
  BY DEF BlTypesNow, BlTypeOK, BlServices, BlStatuses, BlTolds, BlListeners, BlWorkers, BlStales,
         BlEventss
<1>1. ASSUME NEW status \in BlStatus, BlBatteryChanges(status)
      PROVE  BlTypesNow'
  BY <1>1, BlTypes, BlStepFacts, BlLoopType, BlAssumption DEF BlBatteryChanges, blWorld, blGhosts, BlTypesNow, BlServices, BlTolds, BlStatuses, BlListeners, BlWorkers, BlKnown, BlStales, BlEventss
<1>2. ASSUME BlServiceCalls PROVE BlTypesNow'
  BY <1>2, BlTypes, BlStepFacts, BlLoopType, BlAssumption DEF BlServiceCalls, blWorld, blGhosts, BlTypesNow, BlServices, BlTolds, BlStatuses, BlListeners, BlWorkers, BlKnown, BlStales, BlEventss
<1>3. ASSUME BlServiceDies PROVE BlTypesNow'
  <2>1. blBattery' \in BlStatus
    BY <1>3, BlTypes, BlStepFacts, BlLoopType, BlAssumption DEF BlServiceDies, blWorld, blGhosts
  <2>2. blService' \in BlServices
    BY <1>3, BlTypes, BlStepFacts, BlLoopType, BlAssumption DEF BlServiceDies, blWorld, blGhosts, BlServices, BlTolds
  <2>3. blCalls' \in [{"fresh", "late"} -> BlStatuses]
    BY <1>3, BlTypes, BlStepFacts, BlLoopType, BlAssumption DEF BlServiceDies, blWorld, blGhosts, BlStatuses
  <2>4. blListener' \in BlListeners
    BY <1>3, BlTypes, BlStepFacts, BlLoopType, BlAssumption DEF BlServiceDies, blWorld, blGhosts, BlListeners, BlKnown
  <2>5. blWorker' \in BlWorkers
    BY <1>3, BlTypes, BlStepFacts, BlLoopType, BlAssumption DEF BlServiceDies, blWorld, blGhosts, BlWorkers
  <2>6. blAt' \in [BlThread -> BlStep]
    BY <1>3, BlTypes, BlStepFacts, BlLoopType, BlAssumption DEF BlServiceDies, blWorld, blGhosts
  <2>7. blHeard' \in BOOLEAN /\ blGaveUp' \in BOOLEAN
    BY <1>3, BlTypes, BlStepFacts, BlLoopType, BlAssumption DEF BlServiceDies, blWorld, blGhosts
  <2>8. blStale' \in BlStales
    BY <1>3, BlTypes, BlStepFacts, BlLoopType, BlAssumption DEF BlServiceDies, blWorld, blGhosts, BlStales
  <2>9. blEvents' \in BlEventss
    BY <1>3, BlTypes, BlStepFacts, BlLoopType, BlAssumption DEF BlServiceDies, blWorld, blGhosts, BlEventss
  <2> QED BY <2>1, <2>2, <2>3, <2>4, <2>5, <2>6, <2>7, <2>8, <2>9 DEF BlTypesNow
<1>4. ASSUME BlServiceComes PROVE BlTypesNow'
  <2>1. blBattery' \in BlStatus
    BY <1>4, BlTypes, BlStepFacts, BlLoopType, BlAssumption DEF BlServiceComes, blWorld, blGhosts
  <2>2. blService' \in BlServices
    BY <1>4, BlTypes, BlStepFacts, BlLoopType, BlAssumption DEF BlServiceComes, blWorld, blGhosts, BlServices, BlTolds
  <2>3. blCalls' \in [{"fresh", "late"} -> BlStatuses]
    BY <1>4, BlTypes, BlStepFacts, BlLoopType, BlAssumption DEF BlServiceComes, blWorld, blGhosts, BlStatuses
  <2>4. blListener' \in BlListeners
    BY <1>4, BlTypes, BlStepFacts, BlLoopType, BlAssumption DEF BlServiceComes, blWorld, blGhosts, BlListeners, BlKnown
  <2>5. blWorker' \in BlWorkers
    BY <1>4, BlTypes, BlStepFacts, BlLoopType, BlAssumption DEF BlServiceComes, blWorld, blGhosts, BlWorkers
  <2>6. blAt' \in [BlThread -> BlStep]
    BY <1>4, BlTypes, BlStepFacts, BlLoopType, BlAssumption DEF BlServiceComes, blWorld, blGhosts
  <2>7. blHeard' \in BOOLEAN /\ blGaveUp' \in BOOLEAN
    BY <1>4, BlTypes, BlStepFacts, BlLoopType, BlAssumption DEF BlServiceComes, blWorld, blGhosts
  <2>8. blStale' \in BlStales
    BY <1>4, BlTypes, BlStepFacts, BlLoopType, BlAssumption DEF BlServiceComes, blWorld, blGhosts, BlStales
  <2>9. blEvents' \in BlEventss
    BY <1>4, BlTypes, BlStepFacts, BlLoopType, BlAssumption DEF BlServiceComes, blWorld, blGhosts, BlEventss
  <2> QED BY <2>1, <2>2, <2>3, <2>4, <2>5, <2>6, <2>7, <2>8, <2>9 DEF BlTypesNow
<1>5. ASSUME NEW which \in {"fresh", "late"}, BlHealthInfoChanged(which)
      PROVE  BlTypesNow'
  BY <1>5, BlTypes, BlStepFacts, BlLoopType, BlAssumption DEF BlHealthInfoChanged, BlNotified, blWorld, blGhosts, BlTypesNow, BlServices, BlTolds, BlStatuses, BlListeners, BlWorkers, BlKnown, BlStales, BlEventss
<1>6. ASSUME BlWorkerStarts PROVE BlTypesNow'
  BY <1>6, BlTypes, BlStepFacts, BlLoopType, BlAssumption DEF BlWorkerStarts, BlWorkerStep, blWorld, blGhosts, BlTypesNow, BlServices, BlTolds, BlStatuses, BlListeners, BlWorkers, BlKnown, BlStales, BlEventss
<1>7. ASSUME BlWorkerWakes PROVE BlTypesNow'
  <2>1. blBattery' \in BlStatus
    BY <1>7, BlTypes, BlStepFacts, BlLoopType, BlAssumption DEF BlWorkerWakes, BlWorkerStep, blWorld, blGhosts
  <2>2. blService' \in BlServices
    BY <1>7, BlTypes, BlStepFacts, BlLoopType, BlAssumption DEF BlWorkerWakes, BlWorkerStep, blWorld, blGhosts, BlServices, BlTolds
  <2>3. blCalls' \in [{"fresh", "late"} -> BlStatuses]
    BY <1>7, BlTypes, BlStepFacts, BlLoopType, BlAssumption DEF BlWorkerWakes, BlWorkerStep, blWorld, blGhosts, BlStatuses
  <2>4. blListener' \in BlListeners
    BY <1>7, BlTypes, BlStepFacts, BlLoopType, BlAssumption DEF BlWorkerWakes, BlWorkerStep, blWorld, blGhosts, BlListeners, BlKnown
  <2>5. blWorker' \in BlWorkers
    BY <1>7, BlTypes, BlStepFacts, BlLoopType, BlAssumption DEF BlWorkerWakes, BlWorkerStep, blWorld, blGhosts, BlWorkers
  <2>6. blAt' \in [BlThread -> BlStep]
    BY <1>7, BlTypes, BlStepFacts, BlLoopType, BlAssumption DEF BlWorkerWakes, BlWorkerStep, blWorld, blGhosts
  <2>7. blHeard' \in BOOLEAN /\ blGaveUp' \in BOOLEAN
    BY <1>7, BlTypes, BlStepFacts, BlLoopType, BlAssumption DEF BlWorkerWakes, BlWorkerStep, blWorld, blGhosts
  <2>8. blStale' \in BlStales
    BY <1>7, BlTypes, BlStepFacts, BlLoopType, BlAssumption DEF BlWorkerWakes, BlWorkerStep, blWorld, blGhosts, BlStales
  <2>9. blEvents' \in BlEventss
    BY <1>7, BlTypes, BlStepFacts, BlLoopType, BlAssumption DEF BlWorkerWakes, BlWorkerStep, blWorld, blGhosts, BlEventss
  <2> QED BY <2>1, <2>2, <2>3, <2>4, <2>5, <2>6, <2>7, <2>8, <2>9 DEF BlTypesNow
<1>8. ASSUME BlWorkerDefers PROVE BlTypesNow'
  BY <1>8, BlTypes, BlStepFacts, BlLoopType, BlAssumption DEF BlWorkerDefers, BlWorkerStep, blWorld, blGhosts, BlTypesNow, BlServices, BlTolds, BlStatuses, BlListeners, BlWorkers, BlKnown, BlStales, BlEventss
<1>9. ASSUME BlWorkerCalls PROVE BlTypesNow'
  <2>1. blBattery' \in BlStatus
    BY <1>9, BlTypes, BlStepFacts, BlLoopType, BlAssumption DEF BlWorkerCalls, blWorld, blGhosts
  <2>2. blService' \in BlServices
    BY <1>9, BlTypes, BlStepFacts, BlLoopType, BlAssumption DEF BlWorkerCalls, blWorld, blGhosts, BlServices, BlTolds
  <2>3. blCalls' \in [{"fresh", "late"} -> BlStatuses]
    BY <1>9, BlTypes, BlStepFacts, BlLoopType, BlAssumption DEF BlWorkerCalls, blWorld, blGhosts, BlStatuses
  <2>4. blListener' \in BlListeners
    BY <1>9, BlTypes, BlStepFacts, BlLoopType, BlAssumption DEF BlWorkerCalls, blWorld, blGhosts, BlListeners, BlKnown
  <2>5. blWorker' \in BlWorkers
    BY <1>9, BlTypes, BlStepFacts, BlLoopType, BlAssumption DEF BlWorkerCalls, blWorld, blGhosts, BlWorkers
  <2>6. blAt' \in [BlThread -> BlStep]
    BY <1>9, BlTypes, BlStepFacts, BlLoopType, BlAssumption DEF BlWorkerCalls, blWorld, blGhosts
  <2>7. blHeard' \in BOOLEAN /\ blGaveUp' \in BOOLEAN
    BY <1>9, BlTypes DEF BlWorkerCalls, BlCharging
  <2>8. blStale' \in BlStales
    BY <1>9, BlTypes, BlStepFacts, BlLoopType, BlAssumption DEF BlWorkerCalls, blWorld, blGhosts, BlStales
  <2>9. blEvents' \in BlEventss
    BY <1>9, BlTypes, BlStepFacts, BlLoopType, BlAssumption DEF BlWorkerCalls, blWorld, blGhosts, BlEventss
  <2> QED BY <2>1, <2>2, <2>3, <2>4, <2>5, <2>6, <2>7, <2>8, <2>9 DEF BlTypesNow
<1>10. ASSUME NEW thread \in BlThread, BlConnects(thread)
      PROVE  BlTypesNow'
  BY <1>10, BlTypes, BlStepFacts, BlLoopType, BlAssumption DEF BlConnects, BlGoes, blWorld, blGhosts, BlTypesNow, BlServices, BlTolds, BlStatuses, BlListeners, BlWorkers, BlKnown, BlStales, BlEventss
<1>11. ASSUME NEW thread \in BlThread, BlConnectFails(thread)
      PROVE  BlTypesNow'
  BY <1>11, BlTypes, BlStepFacts, BlLoopType, BlAssumption DEF BlConnectFails, BlFails, BlGoes, blWorld, blGhosts, BlTypesNow, BlServices, BlTolds, BlStatuses, BlListeners, BlWorkers, BlKnown, BlStales, BlEventss
<1>12. ASSUME NEW thread \in BlThread, BlGets(thread)
      PROVE  BlTypesNow'
  BY <1>12, BlTypes, BlStepFacts, BlLoopType, BlAssumption DEF BlGets, BlGoes, blWorld, blGhosts, BlTypesNow, BlServices, BlTolds, BlStatuses, BlListeners, BlWorkers, BlKnown, BlStales, BlEventss
<1>13. ASSUME NEW thread \in BlThread, BlStartsWorker(thread)
      PROVE  BlTypesNow'
  BY <1>13, BlTypes, BlStepFacts, BlLoopType, BlAssumption DEF BlStartsWorker, BlGoes, blWorld, blGhosts, BlTypesNow, BlServices, BlTolds, BlStatuses, BlListeners, BlWorkers, BlKnown, BlStales, BlEventss
<1>14. ASSUME NEW thread \in BlThread, BlRegisters(thread)
      PROVE  BlTypesNow'
  BY <1>14, BlTypes, BlStepFacts, BlLoopType, BlAssumption DEF BlRegisters, BlGoes, blWorld, blGhosts, BlTypesNow, BlServices, BlTolds, BlStatuses, BlListeners, BlWorkers, BlKnown, BlStales, BlEventss
<1>15. ASSUME NEW thread \in BlThread, BlLinks(thread)
      PROVE  BlTypesNow'
  BY <1>15, BlTypes, BlStepFacts, BlLoopType, BlAssumption DEF BlLinks, BlGoes, blWorld, blGhosts, BlTypesNow, BlServices, BlTolds, BlStatuses, BlListeners, BlWorkers, BlKnown, BlStales, BlEventss
<1>16. ASSUME NEW thread \in BlThread, BlTransactionFails(thread)
      PROVE  BlTypesNow'
  <2>1. blBattery' \in BlStatus
    BY <1>16, BlTypes, BlStepFacts, BlLoopType, BlAssumption DEF BlTransactionFails, BlFails, BlGoes, blWorld, blGhosts
  <2>2. blService' \in BlServices
    BY <1>16, BlTypes, BlStepFacts, BlLoopType, BlAssumption DEF BlTransactionFails, BlFails, BlGoes, blWorld, blGhosts, BlServices, BlTolds
  <2>3. blCalls' \in [{"fresh", "late"} -> BlStatuses]
    BY <1>16, BlTypes, BlStepFacts, BlLoopType, BlAssumption DEF BlTransactionFails, BlFails, BlGoes, blWorld, blGhosts, BlStatuses
  <2>4. blListener' \in BlListeners
    BY <1>16, BlTypes, BlStepFacts, BlLoopType, BlAssumption DEF BlTransactionFails, BlFails, BlGoes, blWorld, blGhosts, BlListeners, BlKnown
  <2>5. blWorker' \in BlWorkers
    BY <1>16, BlTypes, BlStepFacts, BlLoopType, BlAssumption DEF BlTransactionFails, BlFails, BlGoes, blWorld, blGhosts, BlWorkers
  <2>6. blAt' \in [BlThread -> BlStep]
    BY <1>16, BlTypes, BlStepFacts, BlLoopType, BlAssumption DEF BlTransactionFails, BlFails, BlGoes, blWorld, blGhosts
  <2>7. blHeard' \in BOOLEAN /\ blGaveUp' \in BOOLEAN
    BY <1>16, BlTypes, BlStepFacts, BlLoopType, BlAssumption DEF BlTransactionFails, BlFails, BlGoes, blWorld, blGhosts
  <2>8. blStale' \in BlStales
    BY <1>16, BlTypes, BlStepFacts, BlLoopType, BlAssumption DEF BlTransactionFails, BlFails, BlGoes, blWorld, blGhosts, BlStales
  <2>9. blEvents' \in BlEventss
    BY <1>16, BlTypes, BlStepFacts, BlLoopType, BlAssumption DEF BlTransactionFails, BlFails, BlGoes, blWorld, blGhosts, BlEventss
  <2> QED BY <2>1, <2>2, <2>3, <2>4, <2>5, <2>6, <2>7, <2>8, <2>9 DEF BlTypesNow
<1>17. ASSUME BlAsks PROVE BlTypesNow'
  BY <1>17, BlTypes, BlStepFacts, BlLoopType, BlAssumption DEF BlAsks, BlGoes, blWorld, blGhosts, BlTypesNow, BlServices, BlTolds, BlStatuses, BlListeners, BlWorkers, BlKnown, BlStales, BlEventss
<1>18. ASSUME BlTells PROVE BlTypesNow'
  <2>1. blBattery' \in BlStatus
    BY <1>18, BlTypes, BlStepFacts, BlLoopType, BlAssumption DEF BlTells, BlGoes, blWorld, blGhosts
  <2>2. blService' \in BlServices
    BY <1>18, BlTypes, BlStepFacts, BlLoopType, BlAssumption DEF BlTells, BlGoes, blWorld, blGhosts, BlServices, BlTolds
  <2>3. blCalls' \in [{"fresh", "late"} -> BlStatuses]
    BY <1>18, BlTypes, BlStepFacts, BlLoopType, BlAssumption DEF BlTells, BlGoes, blWorld, blGhosts, BlStatuses
  <2>4. blListener' \in BlListeners
    BY <1>18, BlTypes, BlStepFacts, BlLoopType, BlAssumption DEF BlTells, BlGoes, blWorld, blGhosts, BlListeners, BlKnown
  <2>5. blWorker' \in BlWorkers
    BY <1>18, BlTypes, BlStepFacts, BlLoopType, BlAssumption DEF BlTells, BlGoes, blWorld, blGhosts, BlWorkers
  <2>6. blAt' \in [BlThread -> BlStep]
    BY <1>18, BlTypes, BlStepFacts, BlLoopType, BlAssumption DEF BlTells, BlGoes, blWorld, blGhosts
  <2>7. blHeard' \in BOOLEAN /\ blGaveUp' \in BOOLEAN
    BY <1>18, BlTypes, BlStepFacts, BlLoopType, BlAssumption DEF BlTells, BlGoes, blWorld, blGhosts
  <2>8. blStale' \in BlStales
    BY <1>18, BlTypes, BlStepFacts, BlLoopType, BlAssumption DEF BlTells, BlGoes, blWorld, blGhosts, BlStales
  <2>9. blEvents' \in BlEventss
    BY <1>18, BlTypes, BlStepFacts, BlLoopType, BlAssumption DEF BlTells, BlGoes, blWorld, blGhosts, BlEventss
  <2> QED BY <2>1, <2>2, <2>3, <2>4, <2>5, <2>6, <2>7, <2>8, <2>9 DEF BlTypesNow
<1>19. ASSUME BlDied PROVE BlTypesNow'
  <2>1. blBattery' \in BlStatus
    BY <1>19, BlTypes, BlStepFacts, BlLoopType, BlAssumption DEF BlDied, BlGoes, BlDeathOnly, blWorld, blGhosts
  <2>2. blService' \in BlServices
    BY <1>19, BlTypes, BlStepFacts, BlLoopType, BlAssumption DEF BlDied, BlGoes, BlDeathOnly, blWorld, blGhosts, BlServices, BlTolds
  <2>3. blCalls' \in [{"fresh", "late"} -> BlStatuses]
    BY <1>19, BlTypes, BlStepFacts, BlLoopType, BlAssumption DEF BlDied, BlGoes, BlDeathOnly, blWorld, blGhosts, BlStatuses
  <2>4. blListener' \in BlListeners
    BY <1>19, BlTypes, BlStepFacts, BlLoopType, BlAssumption DEF BlDied, BlGoes, BlDeathOnly, blWorld, blGhosts, BlListeners, BlKnown
  <2>5. blWorker' \in BlWorkers
    BY <1>19, BlTypes, BlStepFacts, BlLoopType, BlAssumption DEF BlDied, BlGoes, BlDeathOnly, blWorld, blGhosts, BlWorkers
  <2>6. blAt' \in [BlThread -> BlStep]
    BY <1>19, BlTypes, BlStepFacts, BlLoopType, BlAssumption DEF BlDied, BlGoes, BlDeathOnly, blWorld, blGhosts
  <2>7. blHeard' \in BOOLEAN /\ blGaveUp' \in BOOLEAN
    BY <1>19, BlTypes, BlStepFacts, BlLoopType, BlAssumption DEF BlDied, BlGoes, BlDeathOnly, blWorld, blGhosts
  <2>8. blStale' \in BlStales
    BY <1>19, BlTypes, BlStepFacts, BlLoopType, BlAssumption DEF BlDied, BlGoes, BlDeathOnly, blWorld, blGhosts, BlStales
  <2>9. blEvents' \in BlEventss
    BY <1>19, BlTypes, BlStepFacts, BlLoopType, BlAssumption DEF BlDied, BlGoes, BlDeathOnly, blWorld, blGhosts, BlEventss
  <2> QED BY <2>1, <2>2, <2>3, <2>4, <2>5, <2>6, <2>7, <2>8, <2>9 DEF BlTypesNow
<1>20. ASSUME BlClears PROVE BlTypesNow'
  BY <1>20, BlTypes, BlStepFacts, BlLoopType, BlAssumption DEF BlClears, BlGoes, BlDeathOnly, BlNotified, blWorld, blGhosts, BlTypesNow, BlServices, BlTolds, BlStatuses, BlListeners, BlWorkers, BlKnown, BlStales, BlEventss
<1>21. ASSUME BlJoins PROVE BlTypesNow'
  BY <1>21, BlTypes, BlStepFacts, BlLoopType, BlAssumption DEF BlJoins, BlGoes, BlDeathOnly, blWorld, blGhosts, BlTypesNow, BlServices, BlTolds, BlStatuses, BlListeners, BlWorkers, BlKnown, BlStales, BlEventss
<1>22. ASSUME BlLocks PROVE BlTypesNow'
  BY <1>22, BlTypes, BlStepFacts, BlLoopType, BlAssumption DEF BlLocks, BlGoes, BlDeathOnly, blWorld, blGhosts, BlTypesNow, BlServices, BlTolds, BlStatuses, BlListeners, BlWorkers, BlKnown, BlStales, BlEventss
<1>23. ASSUME UNCHANGED blVars PROVE BlTypesNow'
  BY <1>23, BlTypes DEF blVars, BlTypesNow
<1> QED BY <1>1, <1>2, <1>3, <1>4, <1>5, <1>6, <1>7, <1>8, <1>9, <1>10, <1>11, <1>12, <1>13, <1>14, <1>15, <1>16, <1>17, <1>18, <1>19, <1>20, <1>21, <1>22, <1>23 DEF BlNext

-----------------------------------------------------------------------------
(* The battery: which of the two threads connects *)

BlConnecting == blAt["init"] \in {"connect", "get", "thread", "register", "link"}
BlAgain == blAt["death"] \in {"connect", "get", "thread", "register", "link"}

BlThreads ==
  /\ blListener.linked => /\ blListener.health = "live" /\ blService.told # "deaf"
                          /\ blAt["death"] = "idle" /\ ~BlConnecting
  /\ blAt["death"] # "idle" => ~BlConnecting
  /\ blListener.lock <=> BlAgain
  /\ ~BlConnecting /\ blAt["death"] = "idle" /\ ~blListener.linked => blGaveUp
  /\ blAt["death"] \in {"died", "clear"} => blListener.health = "dead"
  /\ blListener.health = "live" => blService.up
  /\ \A t \in BlThread : blAt[t] = "link" /\ blListener.health = "live" => blService.told # "deaf"
  /\ blAt["death"] \in {"idle", "died", "clear", "join", "lock"} \/ BlAgain

(* A death waits for a worker that is to end *)
BlDeaths ==
  /\ blAt["death"] \in {"clear", "join"} => blListener.done
  /\ blAt["death"] = "join" => blWorker.at # "wait"
  /\ blAt["init"] \in {"connect", "get", "thread"} => blWorker.at = "none"
  /\ blAt["death"] \in {"lock", "connect", "get", "thread"} => blWorker.at = "end"

(* What the service told, and what of it came *)
BlTelling ==
  /\ blCalls["fresh"] # "none" => blCalls["fresh"] = blService.told
  /\ blAt["init"] \in {"connect", "get", "thread", "register"} =>
       blService.told = "deaf" /\ blCalls["late"] = "none"
  /\ blAt["init"] = "link" => blService.told = "deaf" \/ blCalls["late"] = "none"
  /\ blAt["death"] \in {"died", "clear", "join", "lock", "connect", "get", "thread", "register"}
       => blService.told = "deaf"
  /\ ~blStale.late /\ blCalls["fresh"] = "none" /\ blService.told \in BlStatus /\ ~blGaveUp
       => blListener.status = blService.told

(* What the worker told *)
BlReporting ==
  /\ blWorker.at = "wait" => blListener.status = blWorker.local
  /\ blWorker.at \in {"wait", "woken"} /\ ~blStale.begun => blHeard = BlCharging(blWorker.local)

BlInv == BlTypeOK /\ BlThreads /\ BlDeaths /\ BlTelling /\ BlReporting

LEMMA BlThreadsStep ==
  ASSUME BlTypeOK, BlThreads, BlDeaths, BlTelling, BlReporting, [BlNext]_blVars
  PROVE  BlThreads'
<1>1. ASSUME NEW status \in BlStatus, BlBatteryChanges(status)
      PROVE  BlThreads'
  BY <1>1, BlTypes DEF BlBatteryChanges, blWorld, blGhosts, BlThreads, BlConnecting, BlAgain, BlThread, BlStatuses, BlServices, BlListeners, BlTelling
<1>2. CASE BlServiceCalls
  BY <1>2, BlTypes, BlAssumption DEF BlServiceCalls, blWorld, blGhosts, BlThreads, BlConnecting, BlAgain, BlThread, BlStatuses, BlServices, BlListeners, BlTelling
<1>3. CASE BlServiceDies
  BY <1>3, BlTypes DEF BlServiceDies, blWorld, blGhosts, BlThreads, BlConnecting, BlAgain, BlThread, BlStatuses, BlServices, BlListeners, BlTelling
<1>4. CASE BlServiceComes
  BY <1>4, BlTypes DEF BlServiceComes, blWorld, blGhosts, BlThreads, BlConnecting, BlAgain, BlThread, BlStatuses, BlServices, BlListeners, BlTelling
<1>5. ASSUME NEW which \in {"fresh", "late"}, BlHealthInfoChanged(which)
      PROVE  BlThreads'
  BY <1>5, BlTypes DEF BlHealthInfoChanged, BlNotified, blWorld, blGhosts, BlThreads, BlConnecting, BlAgain, BlThread, BlStatuses, BlServices, BlListeners, BlTelling
<1>6. CASE BlWorkerStarts
  BY <1>6, BlTypes DEF BlWorkerStarts, BlWorkerStep, blWorld, blGhosts, BlThreads, BlConnecting, BlAgain, BlThread, BlStatuses, BlServices, BlListeners, BlTelling, BlLoop
<1>7. CASE BlWorkerWakes
  BY <1>7, BlTypes DEF BlWorkerWakes, BlWorkerStep, blWorld, blGhosts, BlThreads, BlConnecting, BlAgain, BlThread, BlStatuses, BlServices, BlListeners, BlTelling, BlLoop
<1>8. CASE BlWorkerDefers
  BY <1>8, BlTypes DEF BlWorkerDefers, BlWorkerStep, blWorld, blGhosts, BlThreads, BlConnecting, BlAgain, BlThread, BlStatuses, BlServices, BlListeners, BlTelling, BlLoop
<1>9. CASE BlWorkerCalls
  BY <1>9, BlTypes DEF BlWorkerCalls, blWorld, blGhosts, BlThreads, BlConnecting, BlAgain, BlThread, BlStatuses, BlServices, BlListeners, BlTelling
<1>10. ASSUME NEW thread \in BlThread, BlConnects(thread)
      PROVE  BlThreads'
  BY <1>10, BlTypes DEF BlConnects, BlGoes, blWorld, blGhosts, BlThreads, BlConnecting, BlAgain, BlThread, BlStatuses, BlServices, BlListeners, BlTelling
<1>11. ASSUME NEW thread \in BlThread, BlConnectFails(thread)
      PROVE  BlThreads'
  BY <1>11, BlTypes DEF BlConnectFails, BlFails, BlGoes, blWorld, blGhosts, BlThreads, BlConnecting, BlAgain, BlThread, BlStatuses, BlServices, BlListeners, BlTelling
<1>12. ASSUME NEW thread \in BlThread, BlGets(thread)
      PROVE  BlThreads'
  BY <1>12, BlTypes DEF BlGets, BlGoes, blWorld, blGhosts, BlThreads, BlConnecting, BlAgain, BlThread, BlStatuses, BlServices, BlListeners, BlTelling
<1>13. ASSUME NEW thread \in BlThread, BlStartsWorker(thread)
      PROVE  BlThreads'
  BY <1>13, BlTypes DEF BlStartsWorker, BlGoes, blWorld, blGhosts, BlThreads, BlConnecting, BlAgain, BlThread, BlStatuses, BlServices, BlListeners, BlTelling
<1>14. ASSUME NEW thread \in BlThread, BlRegisters(thread)
      PROVE  BlThreads'
  BY <1>14, BlTypes DEF BlRegisters, BlGoes, blWorld, blGhosts, BlThreads, BlConnecting, BlAgain, BlThread, BlStatuses, BlServices, BlListeners, BlTelling
<1>15. ASSUME NEW thread \in BlThread, BlLinks(thread)
      PROVE  BlThreads'
  BY <1>15, BlTypes DEF BlLinks, BlGoes, blWorld, blGhosts, BlThreads, BlConnecting, BlAgain, BlThread, BlStatuses, BlServices, BlListeners, BlTelling
<1>16. ASSUME NEW thread \in BlThread, BlTransactionFails(thread)
      PROVE  BlThreads'
  BY <1>16, BlTypes DEF BlTransactionFails, BlFails, BlGoes, blWorld, blGhosts, BlThreads, BlConnecting, BlAgain, BlThread, BlStatuses, BlServices, BlListeners, BlTelling
<1>17. CASE BlAsks
  BY <1>17, BlTypes DEF BlAsks, BlGoes, blWorld, blGhosts, BlThreads, BlConnecting, BlAgain, BlThread, BlStatuses, BlServices, BlListeners, BlTelling
<1>18. CASE BlTells
  BY <1>18, BlTypes DEF BlTells, BlGoes, blWorld, blGhosts, BlThreads, BlConnecting, BlAgain, BlThread, BlStatuses, BlServices, BlListeners, BlTelling
<1>19. CASE BlDied
  BY <1>19, BlTypes DEF BlDied, BlGoes, BlDeathOnly, blWorld, blGhosts, BlThreads, BlConnecting, BlAgain, BlThread, BlStatuses, BlServices, BlListeners, BlTelling
<1>20. CASE BlClears
  BY <1>20, BlTypes DEF BlClears, BlGoes, BlDeathOnly, BlNotified, blWorld, blGhosts, BlThreads, BlConnecting, BlAgain, BlThread, BlStatuses, BlServices, BlListeners, BlTelling
<1>21. CASE BlJoins
  BY <1>21, BlTypes DEF BlJoins, BlGoes, BlDeathOnly, blWorld, blGhosts, BlThreads, BlConnecting, BlAgain, BlThread, BlStatuses, BlServices, BlListeners, BlTelling
<1>22. CASE BlLocks
  BY <1>22, BlTypes DEF BlLocks, BlGoes, BlDeathOnly, blWorld, blGhosts, BlThreads, BlConnecting, BlAgain, BlThread, BlStatuses, BlServices, BlListeners, BlTelling
<1>23. CASE UNCHANGED blVars
  BY <1>23 DEF blVars, BlThreads, BlConnecting, BlAgain, BlThread, BlStatuses, BlServices, BlListeners, BlTelling
<1> QED BY <1>1, <1>2, <1>3, <1>4, <1>5, <1>6, <1>7, <1>8, <1>9, <1>10, <1>11, <1>12, <1>13, <1>14, <1>15, <1>16, <1>17, <1>18, <1>19, <1>20, <1>21, <1>22, <1>23 DEF BlNext

LEMMA BlDeathsStep ==
  ASSUME BlTypeOK, BlThreads, BlDeaths, BlTelling, BlReporting, [BlNext]_blVars
  PROVE  BlDeaths'
<1>1. ASSUME NEW status \in BlStatus, BlBatteryChanges(status)
      PROVE  BlDeaths'
  BY <1>1, BlTypes DEF BlBatteryChanges, blWorld, blGhosts, BlDeaths, BlThreads, BlConnecting, BlAgain, BlThread, BlListeners, BlWorkers
<1>2. CASE BlServiceCalls
  BY <1>2, BlTypes DEF BlServiceCalls, blWorld, blGhosts, BlDeaths, BlThreads, BlConnecting, BlAgain, BlThread, BlListeners, BlWorkers
<1>3. CASE BlServiceDies
  BY <1>3, BlTypes DEF BlServiceDies, blWorld, blGhosts, BlDeaths, BlThreads, BlConnecting, BlAgain, BlThread, BlListeners, BlWorkers
<1>4. CASE BlServiceComes
  BY <1>4, BlTypes DEF BlServiceComes, blWorld, blGhosts, BlDeaths, BlThreads, BlConnecting, BlAgain, BlThread, BlListeners, BlWorkers
<1>5. ASSUME NEW which \in {"fresh", "late"}, BlHealthInfoChanged(which)
      PROVE  BlDeaths'
  BY <1>5, BlTypes DEF BlHealthInfoChanged, BlNotified, blWorld, blGhosts, BlDeaths, BlThreads, BlConnecting, BlAgain, BlThread, BlListeners, BlWorkers
<1>6. CASE BlWorkerStarts
  BY <1>6, BlTypes DEF BlWorkerStarts, BlWorkerStep, blWorld, blGhosts, BlDeaths, BlThreads, BlConnecting, BlAgain, BlThread, BlListeners, BlWorkers, BlLoop
<1>7. CASE BlWorkerWakes
  BY <1>7, BlTypes DEF BlWorkerWakes, BlWorkerStep, blWorld, blGhosts, BlDeaths, BlThreads, BlConnecting, BlAgain, BlThread, BlListeners, BlWorkers, BlLoop
<1>8. CASE BlWorkerDefers
  BY <1>8, BlTypes DEF BlWorkerDefers, BlWorkerStep, blWorld, blGhosts, BlDeaths, BlThreads, BlConnecting, BlAgain, BlThread, BlListeners, BlWorkers, BlLoop
<1>9. CASE BlWorkerCalls
  BY <1>9, BlTypes DEF BlWorkerCalls, blWorld, blGhosts, BlDeaths, BlThreads, BlConnecting, BlAgain, BlThread, BlListeners, BlWorkers
<1>10. ASSUME NEW thread \in BlThread, BlConnects(thread)
      PROVE  BlDeaths'
  BY <1>10, BlTypes DEF BlConnects, BlGoes, blWorld, blGhosts, BlDeaths, BlThreads, BlConnecting, BlAgain, BlThread, BlListeners, BlWorkers
<1>11. ASSUME NEW thread \in BlThread, BlConnectFails(thread)
      PROVE  BlDeaths'
  BY <1>11, BlTypes DEF BlConnectFails, BlFails, BlGoes, blWorld, blGhosts, BlDeaths, BlThreads, BlConnecting, BlAgain, BlThread, BlListeners, BlWorkers
<1>12. ASSUME NEW thread \in BlThread, BlGets(thread)
      PROVE  BlDeaths'
  BY <1>12, BlTypes DEF BlGets, BlGoes, blWorld, blGhosts, BlDeaths, BlThreads, BlConnecting, BlAgain, BlThread, BlListeners, BlWorkers
<1>13. ASSUME NEW thread \in BlThread, BlStartsWorker(thread)
      PROVE  BlDeaths'
  BY <1>13, BlTypes DEF BlStartsWorker, BlGoes, blWorld, blGhosts, BlDeaths, BlThreads, BlConnecting, BlAgain, BlThread, BlListeners, BlWorkers
<1>14. ASSUME NEW thread \in BlThread, BlRegisters(thread)
      PROVE  BlDeaths'
  BY <1>14, BlTypes DEF BlRegisters, BlGoes, blWorld, blGhosts, BlDeaths, BlThreads, BlConnecting, BlAgain, BlThread, BlListeners, BlWorkers
<1>15. ASSUME NEW thread \in BlThread, BlLinks(thread)
      PROVE  BlDeaths'
  BY <1>15, BlTypes DEF BlLinks, BlGoes, blWorld, blGhosts, BlDeaths, BlThreads, BlConnecting, BlAgain, BlThread, BlListeners, BlWorkers
<1>16. ASSUME NEW thread \in BlThread, BlTransactionFails(thread)
      PROVE  BlDeaths'
  BY <1>16, BlTypes DEF BlTransactionFails, BlFails, BlGoes, blWorld, blGhosts, BlDeaths, BlThreads, BlConnecting, BlAgain, BlThread, BlListeners, BlWorkers
<1>17. CASE BlAsks
  BY <1>17, BlTypes DEF BlAsks, BlGoes, blWorld, blGhosts, BlDeaths, BlThreads, BlConnecting, BlAgain, BlThread, BlListeners, BlWorkers
<1>18. CASE BlTells
  BY <1>18, BlTypes DEF BlTells, BlGoes, blWorld, blGhosts, BlDeaths, BlThreads, BlConnecting, BlAgain, BlThread, BlListeners, BlWorkers
<1>19. CASE BlDied
  BY <1>19, BlTypes DEF BlDied, BlGoes, BlDeathOnly, blWorld, blGhosts, BlDeaths, BlThreads, BlConnecting, BlAgain, BlThread, BlListeners, BlWorkers
<1>20. CASE BlClears
  BY <1>20, BlTypes DEF BlClears, BlGoes, BlDeathOnly, BlNotified, blWorld, blGhosts, BlDeaths, BlThreads, BlConnecting, BlAgain, BlThread, BlListeners, BlWorkers
<1>21. CASE BlJoins
  BY <1>21, BlTypes DEF BlJoins, BlGoes, BlDeathOnly, blWorld, blGhosts, BlDeaths, BlThreads, BlConnecting, BlAgain, BlThread, BlListeners, BlWorkers
<1>22. CASE BlLocks
  BY <1>22, BlTypes DEF BlLocks, BlGoes, BlDeathOnly, blWorld, blGhosts, BlDeaths, BlThreads, BlConnecting, BlAgain, BlThread, BlListeners, BlWorkers
<1>23. CASE UNCHANGED blVars
  BY <1>23 DEF blVars, BlDeaths, BlThreads, BlConnecting, BlAgain, BlThread, BlListeners, BlWorkers
<1> QED BY <1>1, <1>2, <1>3, <1>4, <1>5, <1>6, <1>7, <1>8, <1>9, <1>10, <1>11, <1>12, <1>13, <1>14, <1>15, <1>16, <1>17, <1>18, <1>19, <1>20, <1>21, <1>22, <1>23 DEF BlNext

LEMMA BlTellingStep ==
  ASSUME BlTypeOK, BlThreads, BlDeaths, BlTelling, BlReporting, [BlNext]_blVars
  PROVE  BlTelling'
<1>1. ASSUME NEW status \in BlStatus, BlBatteryChanges(status)
      PROVE  BlTelling'
  BY <1>1, BlTypes, BlAssumption DEF BlBatteryChanges, blWorld, blGhosts, BlTelling, BlThreads, BlConnecting, BlAgain, BlThread, BlListeners, BlServices, BlStatuses, BlStales, BlTolds
<1>2. CASE BlServiceCalls
  BY <1>2, BlTypes, BlAssumption DEF BlServiceCalls, blWorld, blGhosts, BlTelling, BlThreads, BlConnecting, BlAgain, BlThread, BlListeners, BlServices, BlStatuses, BlStales, BlTolds
<1>3. CASE BlServiceDies
  BY <1>3, BlTypes, BlAssumption DEF BlServiceDies, blWorld, blGhosts, BlTelling, BlThreads, BlConnecting, BlAgain, BlThread, BlListeners, BlServices, BlStatuses, BlStales, BlTolds
<1>4. CASE BlServiceComes
  BY <1>4, BlTypes, BlAssumption DEF BlServiceComes, blWorld, blGhosts, BlTelling, BlThreads, BlConnecting, BlAgain, BlThread, BlListeners, BlServices, BlStatuses, BlStales, BlTolds
<1>5. ASSUME NEW which \in {"fresh", "late"}, BlHealthInfoChanged(which)
      PROVE  BlTelling'
  BY <1>5, BlTypes, BlAssumption DEF BlHealthInfoChanged, BlNotified, blWorld, blGhosts, BlTelling, BlThreads, BlConnecting, BlAgain, BlThread, BlListeners, BlServices, BlStatuses, BlStales, BlTolds
<1>6. CASE BlWorkerStarts
  BY <1>6, BlTypes, BlAssumption DEF BlWorkerStarts, BlWorkerStep, blWorld, blGhosts, BlTelling, BlThreads, BlConnecting, BlAgain, BlThread, BlListeners, BlServices, BlStatuses, BlStales, BlTolds, BlLoop
<1>7. CASE BlWorkerWakes
  BY <1>7, BlTypes, BlAssumption DEF BlWorkerWakes, BlWorkerStep, blWorld, blGhosts, BlTelling, BlThreads, BlConnecting, BlAgain, BlThread, BlListeners, BlServices, BlStatuses, BlStales, BlTolds, BlLoop
<1>8. CASE BlWorkerDefers
  BY <1>8, BlTypes, BlAssumption DEF BlWorkerDefers, BlWorkerStep, blWorld, blGhosts, BlTelling, BlThreads, BlConnecting, BlAgain, BlThread, BlListeners, BlServices, BlStatuses, BlStales, BlTolds, BlLoop
<1>9. CASE BlWorkerCalls
  BY <1>9, BlTypes, BlAssumption DEF BlWorkerCalls, blWorld, blGhosts, BlTelling, BlThreads, BlConnecting, BlAgain, BlThread, BlListeners, BlServices, BlStatuses, BlStales, BlTolds
<1>10. ASSUME NEW thread \in BlThread, BlConnects(thread)
      PROVE  BlTelling'
  BY <1>10, BlTypes, BlAssumption DEF BlConnects, BlGoes, blWorld, blGhosts, BlTelling, BlThreads, BlConnecting, BlAgain, BlThread, BlListeners, BlServices, BlStatuses, BlStales, BlTolds
<1>11. ASSUME NEW thread \in BlThread, BlConnectFails(thread)
      PROVE  BlTelling'
  BY <1>11, BlTypes, BlAssumption DEF BlConnectFails, BlFails, BlGoes, blWorld, blGhosts, BlTelling, BlThreads, BlConnecting, BlAgain, BlThread, BlListeners, BlServices, BlStatuses, BlStales, BlTolds
<1>12. ASSUME NEW thread \in BlThread, BlGets(thread)
      PROVE  BlTelling'
  BY <1>12, BlTypes, BlAssumption DEF BlGets, BlGoes, blWorld, blGhosts, BlTelling, BlThreads, BlConnecting, BlAgain, BlThread, BlListeners, BlServices, BlStatuses, BlStales, BlTolds
<1>13. ASSUME NEW thread \in BlThread, BlStartsWorker(thread)
      PROVE  BlTelling'
  BY <1>13, BlTypes, BlAssumption DEF BlStartsWorker, BlGoes, blWorld, blGhosts, BlTelling, BlThreads, BlConnecting, BlAgain, BlThread, BlListeners, BlServices, BlStatuses, BlStales, BlTolds
<1>14. ASSUME NEW thread \in BlThread, BlRegisters(thread)
      PROVE  BlTelling'
  BY <1>14, BlTypes, BlAssumption DEF BlRegisters, BlGoes, blWorld, blGhosts, BlTelling, BlThreads, BlConnecting, BlAgain, BlThread, BlListeners, BlServices, BlStatuses, BlStales, BlTolds
<1>15. ASSUME NEW thread \in BlThread, BlLinks(thread)
      PROVE  BlTelling'
  BY <1>15, BlTypes, BlAssumption DEF BlLinks, BlGoes, blWorld, blGhosts, BlTelling, BlThreads, BlConnecting, BlAgain, BlThread, BlListeners, BlServices, BlStatuses, BlStales, BlTolds
<1>16. ASSUME NEW thread \in BlThread, BlTransactionFails(thread)
      PROVE  BlTelling'
  BY <1>16, BlTypes, BlAssumption DEF BlTransactionFails, BlFails, BlGoes, blWorld, blGhosts, BlTelling, BlThreads, BlConnecting, BlAgain, BlThread, BlListeners, BlServices, BlStatuses, BlStales, BlTolds
<1>17. CASE BlAsks
  BY <1>17, BlTypes, BlAssumption DEF BlAsks, BlGoes, blWorld, blGhosts, BlTelling, BlThreads, BlConnecting, BlAgain, BlThread, BlListeners, BlServices, BlStatuses, BlStales, BlTolds
<1>18. CASE BlTells
  BY <1>18, BlTypes, BlAssumption DEF BlTells, BlGoes, blWorld, blGhosts, BlTelling, BlThreads, BlConnecting, BlAgain, BlThread, BlListeners, BlServices, BlStatuses, BlStales, BlTolds
<1>19. CASE BlDied
  BY <1>19, BlTypes, BlAssumption DEF BlDied, BlGoes, BlDeathOnly, blWorld, blGhosts, BlTelling, BlThreads, BlConnecting, BlAgain, BlThread, BlListeners, BlServices, BlStatuses, BlStales, BlTolds
<1>20. CASE BlClears
  BY <1>20, BlTypes, BlAssumption DEF BlClears, BlGoes, BlDeathOnly, BlNotified, blWorld, blGhosts, BlTelling, BlThreads, BlConnecting, BlAgain, BlThread, BlListeners, BlServices, BlStatuses, BlStales, BlTolds
<1>21. CASE BlJoins
  BY <1>21, BlTypes, BlAssumption DEF BlJoins, BlGoes, BlDeathOnly, blWorld, blGhosts, BlTelling, BlThreads, BlConnecting, BlAgain, BlThread, BlListeners, BlServices, BlStatuses, BlStales, BlTolds
<1>22. CASE BlLocks
  BY <1>22, BlTypes, BlAssumption DEF BlLocks, BlGoes, BlDeathOnly, blWorld, blGhosts, BlTelling, BlThreads, BlConnecting, BlAgain, BlThread, BlListeners, BlServices, BlStatuses, BlStales, BlTolds
<1>23. CASE UNCHANGED blVars
  BY <1>23 DEF blVars, BlTelling, BlThreads, BlConnecting, BlAgain, BlThread, BlListeners, BlServices, BlStatuses, BlStales, BlTolds
<1> QED BY <1>1, <1>2, <1>3, <1>4, <1>5, <1>6, <1>7, <1>8, <1>9, <1>10, <1>11, <1>12, <1>13, <1>14, <1>15, <1>16, <1>17, <1>18, <1>19, <1>20, <1>21, <1>22, <1>23 DEF BlNext

LEMMA BlReportingStep ==
  ASSUME BlTypeOK, BlThreads, BlDeaths, BlTelling, BlReporting, [BlNext]_blVars
  PROVE  BlReporting'
<1>1. ASSUME NEW status \in BlStatus, BlBatteryChanges(status)
      PROVE  BlReporting'
  BY <1>1, BlTypes DEF BlBatteryChanges, blWorld, blGhosts, BlReporting, BlDeaths, BlThreads, BlConnecting, BlAgain, BlThread, BlListeners, BlWorkers, BlStales
<1>2. CASE BlServiceCalls
  BY <1>2, BlTypes DEF BlServiceCalls, blWorld, blGhosts, BlReporting, BlDeaths, BlThreads, BlConnecting, BlAgain, BlThread, BlListeners, BlWorkers, BlStales
<1>3. CASE BlServiceDies
  BY <1>3, BlTypes DEF BlServiceDies, blWorld, blGhosts, BlReporting, BlDeaths, BlThreads, BlConnecting, BlAgain, BlThread, BlListeners, BlWorkers, BlStales
<1>4. CASE BlServiceComes
  BY <1>4, BlTypes DEF BlServiceComes, blWorld, blGhosts, BlReporting, BlDeaths, BlThreads, BlConnecting, BlAgain, BlThread, BlListeners, BlWorkers, BlStales
<1>5. ASSUME NEW which \in {"fresh", "late"}, BlHealthInfoChanged(which)
      PROVE  BlReporting'
  BY <1>5, BlTypes DEF BlHealthInfoChanged, BlNotified, blWorld, blGhosts, BlReporting, BlDeaths, BlThreads, BlConnecting, BlAgain, BlThread, BlListeners, BlWorkers, BlStales
<1>6. CASE BlWorkerStarts
  BY <1>6, BlTypes DEF BlWorkerStarts, BlWorkerStep, blWorld, blGhosts, BlReporting, BlDeaths, BlThreads, BlConnecting, BlAgain, BlThread, BlListeners, BlWorkers, BlStales, BlLoop
<1>7. CASE BlWorkerWakes
  BY <1>7, BlTypes DEF BlWorkerWakes, BlWorkerStep, blWorld, blGhosts, BlReporting, BlDeaths, BlThreads, BlConnecting, BlAgain, BlThread, BlListeners, BlWorkers, BlStales, BlLoop
<1>8. CASE BlWorkerDefers
  BY <1>8, BlTypes DEF BlWorkerDefers, BlWorkerStep, blWorld, blGhosts, BlReporting, BlDeaths, BlThreads, BlConnecting, BlAgain, BlThread, BlListeners, BlWorkers, BlStales, BlLoop
<1>9. CASE BlWorkerCalls
  BY <1>9, BlTypes DEF BlWorkerCalls, blWorld, blGhosts, BlReporting, BlDeaths, BlThreads, BlConnecting, BlAgain, BlThread, BlListeners, BlWorkers, BlStales
<1>10. ASSUME NEW thread \in BlThread, BlConnects(thread)
      PROVE  BlReporting'
  BY <1>10, BlTypes DEF BlConnects, BlGoes, blWorld, blGhosts, BlReporting, BlDeaths, BlThreads, BlConnecting, BlAgain, BlThread, BlListeners, BlWorkers, BlStales
<1>11. ASSUME NEW thread \in BlThread, BlConnectFails(thread)
      PROVE  BlReporting'
  BY <1>11, BlTypes DEF BlConnectFails, BlFails, BlGoes, blWorld, blGhosts, BlReporting, BlDeaths, BlThreads, BlConnecting, BlAgain, BlThread, BlListeners, BlWorkers, BlStales
<1>12. ASSUME NEW thread \in BlThread, BlGets(thread)
      PROVE  BlReporting'
  BY <1>12, BlTypes DEF BlGets, BlGoes, blWorld, blGhosts, BlReporting, BlDeaths, BlThreads, BlConnecting, BlAgain, BlThread, BlListeners, BlWorkers, BlStales
<1>13. ASSUME NEW thread \in BlThread, BlStartsWorker(thread)
      PROVE  BlReporting'
  BY <1>13, BlTypes DEF BlStartsWorker, BlGoes, blWorld, blGhosts, BlReporting, BlDeaths, BlThreads, BlConnecting, BlAgain, BlThread, BlListeners, BlWorkers, BlStales
<1>14. ASSUME NEW thread \in BlThread, BlRegisters(thread)
      PROVE  BlReporting'
  BY <1>14, BlTypes DEF BlRegisters, BlGoes, blWorld, blGhosts, BlReporting, BlDeaths, BlThreads, BlConnecting, BlAgain, BlThread, BlListeners, BlWorkers, BlStales
<1>15. ASSUME NEW thread \in BlThread, BlLinks(thread)
      PROVE  BlReporting'
  BY <1>15, BlTypes DEF BlLinks, BlGoes, blWorld, blGhosts, BlReporting, BlDeaths, BlThreads, BlConnecting, BlAgain, BlThread, BlListeners, BlWorkers, BlStales
<1>16. ASSUME NEW thread \in BlThread, BlTransactionFails(thread)
      PROVE  BlReporting'
  BY <1>16, BlTypes DEF BlTransactionFails, BlFails, BlGoes, blWorld, blGhosts, BlReporting, BlDeaths, BlThreads, BlConnecting, BlAgain, BlThread, BlListeners, BlWorkers, BlStales
<1>17. CASE BlAsks
  BY <1>17, BlTypes DEF BlAsks, BlGoes, blWorld, blGhosts, BlReporting, BlDeaths, BlThreads, BlConnecting, BlAgain, BlThread, BlListeners, BlWorkers, BlStales
<1>18. CASE BlTells
  BY <1>18, BlTypes DEF BlTells, BlGoes, blWorld, blGhosts, BlReporting, BlDeaths, BlThreads, BlConnecting, BlAgain, BlThread, BlListeners, BlWorkers, BlStales
<1>19. CASE BlDied
  BY <1>19, BlTypes DEF BlDied, BlGoes, BlDeathOnly, blWorld, blGhosts, BlReporting, BlDeaths, BlThreads, BlConnecting, BlAgain, BlThread, BlListeners, BlWorkers, BlStales
<1>20. CASE BlClears
  BY <1>20, BlTypes DEF BlClears, BlGoes, BlDeathOnly, BlNotified, blWorld, blGhosts, BlReporting, BlDeaths, BlThreads, BlConnecting, BlAgain, BlThread, BlListeners, BlWorkers, BlStales
<1>21. CASE BlJoins
  BY <1>21, BlTypes DEF BlJoins, BlGoes, BlDeathOnly, blWorld, blGhosts, BlReporting, BlDeaths, BlThreads, BlConnecting, BlAgain, BlThread, BlListeners, BlWorkers, BlStales
<1>22. CASE BlLocks
  BY <1>22, BlTypes DEF BlLocks, BlGoes, BlDeathOnly, blWorld, blGhosts, BlReporting, BlDeaths, BlThreads, BlConnecting, BlAgain, BlThread, BlListeners, BlWorkers, BlStales
<1>23. CASE UNCHANGED blVars
  BY <1>23 DEF blVars, BlReporting, BlDeaths, BlThreads, BlConnecting, BlAgain, BlThread, BlListeners, BlWorkers, BlStales
<1> QED BY <1>1, <1>2, <1>3, <1>4, <1>5, <1>6, <1>7, <1>8, <1>9, <1>10, <1>11, <1>12, <1>13, <1>14, <1>15, <1>16, <1>17, <1>18, <1>19, <1>20, <1>21, <1>22, <1>23 DEF BlNext


LEMMA BlInvInit == BlInit => BlInv
<1> SUFFICES ASSUME BlInit PROVE BlInv
  OBVIOUS
<1>1. BlThreads
  BY DEF BlInit, BlThreads, BlConnecting, BlAgain, BlThread
<1> QED BY <1>1, BlInitType, BlAssumption DEF BlInv, BlInit, BlReporting, BlDeaths, BlTelling

LEMMA BatteryPart == BatchSpec => []BlInv
<1>1. BatchInit => BlInv
  BY BlInvInit DEF BatchInit
<1>2. BlInv /\ [BatchNext]_batchVars => BlInv'
  <2> SUFFICES ASSUME BlTypeOK, BlThreads, BlDeaths, BlTelling, BlReporting,
                      [BatchNext]_batchVars
               PROVE  BlInv'
    BY DEF BlInv
  <2>1. [BlNext]_blVars
    BY DEF BatchNext, AdapterStep, FrameworkStep, BatteryStep, StoreStep, HandoverStep,
           CardsStep, batchVars
  <2> QED BY <2>1, BlTypeStep, BlThreadsStep, BlDeathsStep, BlTellingStep, BlReportingStep
          DEF BlInv
<1> QED BY <1>1, <1>2, PTL DEF BatchSpec

(* Whatever the battery does, and however often the service dies while a   *)
(* call of it, the worker or a thread that connects is on the way: once    *)
(* all of them rest the HAL was told what the battery does, unless the     *)
(* worker began with a status nobody reports or the listener gave up; and  *)
(* a death does not wait for a worker that sleeps                          *)
(* (battery_listener.cpp:126-164, 200-236).                                *)
THEOREM BatteryAlwaysKnown == BatchSpec => []BatteryIsKnown
<1>1. BlInv => BatteryIsKnown
  <2> SUFFICES ASSUME BlTypeOK, BlThreads, BlDeaths, BlTelling, BlReporting
               PROVE  BatteryIsKnown
    BY DEF BlInv
  <2>2. ASSUME BlQuiet, ~(blStale.begun \/ blStale.late \/ blGaveUp)
        PROVE  blHeard = BlCharging(blBattery)
    BY <2>2, BlStepFacts, BlTypes DEF BlQuiet, BlThreads, BlConnecting, BlTelling, BlReporting
  <2> QED BY <2>2 DEF BatteryIsKnown, BlHalKnows, BlJoinEnds, BlDeaths
<1> QED BY <1>1, BatteryPart, PTL

-----------------------------------------------------------------------------
(* Stored parameters: types *)

NvMade == [id: NvRandom, saved: SUBSET {"half"}, at: {"half", "whole"}]
NvMakings == NvMade \cup {NvIdle}

LEMMA NvTypes ==
  ASSUME NvTypeOK
  PROVE  /\ nvParam \in NvRow /\ nvLast \in NvRow
         /\ nvIdRow \in NvRandom \cup {0} /\ nvArmRow \in NvValue
         /\ nvUsers \in [NvProcess -> 0..MaxNvUsers] /\ nvOpen \in [NvProcess -> BOOLEAN]
         /\ nvId \in [NvProcess -> NvRandom \cup {0}]
         /\ nvMaking \in [NvProcess -> NvMakings]
         /\ nvAdapter \in {"away", "made", "restored"}
         /\ nvHas \in BOOLEAN /\ nvUnsaved \in BOOLEAN /\ nvRefused \in BOOLEAN /\ nvOdd \in BOOLEAN
         /\ nvHub \in NvValue /\ nvSpe \in NvValue /\ nvArm \in NvValue
         /\ nvSaves \in NvValue /\ nvTroubles \in 0..MaxNvTroubles
         /\ nvTold \in [NvProcess -> SUBSET NvRandom] /\ nvEver \subseteq NvRandom
  BY DEF NvTypeOK, NvMakings, NvMade

LEMMA NvMakingFacts ==
  /\ NvIdle \in NvMakings /\ NvIdle.id = 0 /\ NvIdle.at = "none"
  /\ \A id \in NvRandom, saved \in SUBSET {"half"}, at \in {"half", "whole"} :
       LET made == [id |-> id, saved |-> saved, at |-> at] IN
       made \in NvMakings /\ made # NvIdle
  /\ \A m \in NvMakings : m.at # "none" => m # NvIdle /\ m.id \in NvRandom
<1>1. NvIdle \in NvMakings /\ NvIdle.id = 0 /\ NvIdle.at = "none"
  BY DEF NvMakings, NvIdle
<1>2. ASSUME NEW m \in NvMade
      PROVE  m \in NvMakings /\ m # NvIdle /\ m.id \in NvRandom
  BY <1>1, <1>2 DEF NvMade, NvMakings
<1>3. ASSUME NEW id \in NvRandom, NEW saved \in SUBSET {"half"}, NEW at \in {"half", "whole"}
      PROVE  [id |-> id, saved |-> saved, at |-> at] \in NvMade
  BY DEF NvMade
<1> QED BY <1>1, <1>2, <1>3 DEF NvMakings

LEMMA NvRows ==
  /\ NoNv \in NvRow /\ 0 \in NvValue /\ MaxNvSaves \in Nat /\ MaxNvUsers \in Nat
  /\ MaxNvTroubles \in Nat
  /\ \A n \in NvValue : n < MaxNvSaves => n + 1 \in NvValue
  /\ \A n \in 0..MaxNvTroubles : n < MaxNvTroubles => n + 1 \in 0..MaxNvTroubles
  BY NvAssumption DEF NoNv, NvRow, NvValue, NvLength

LEMMA NvTroublesType ==
  ASSUME nvTroubles \in 0..MaxNvTroubles, NEW works \in BOOLEAN, NvStatement(works)
  PROVE  nvTroubles' \in 0..MaxNvTroubles
  BY NvRows DEF NvStatement

LEMMA NvTypeStep ==
  ASSUME NvTypeOK, [NvNext]_nvVars
  PROVE  NvTypeOK'
<1>1. ASSUME NEW p \in NvProcess, NEW opens \in BOOLEAN, NvGetInstance(p, opens)
      PROVE  NvTypeOK'
  <2>1. UNCHANGED <<nvParam, nvLast, nvIdRow, nvArmRow, nvAdapter, nvHas, nvUnsaved, nvRefused, nvOdd, nvHub, nvSpe, nvArm, nvSaves, nvTold, nvEver>>
    BY <1>1 DEF NvGetInstance, NvGotInstance, NvStatement, nvFile, nvManagers, nvArms, nvIds
  <2>2. nvUsers' \in [NvProcess -> 0..MaxNvUsers]
    BY <1>1, NvTypes, NvRows DEF NvGetInstance, NvGotInstance, nvFile, nvManagers, nvArms, nvIds
  <2>3. nvOpen' \in [NvProcess -> BOOLEAN]
    BY <1>1, NvTypes, NvRows DEF NvGetInstance, NvGotInstance, nvFile, nvManagers, nvArms, nvIds
  <2>4. nvId' \in [NvProcess -> NvRandom \cup {0}]
    BY <1>1, NvTypes, NvRows DEF NvGetInstance, NvGotInstance, nvFile, nvManagers, nvArms, nvIds
  <2>5. nvMaking' \in [NvProcess -> NvMakings]
    BY <1>1, NvTypes, NvRows, NvMakingFacts DEF NvGetInstance, NvGotInstance, nvFile, nvManagers, nvArms, nvIds
  <2>6. nvTroubles' \in 0..MaxNvTroubles
    BY <1>1, NvTypes, NvTroublesType DEF NvGetInstance, NvGotInstance
  <2> QED BY <2>1, <2>2, <2>3, <2>4, <2>5, <2>6 DEF NvTypeOK, NvMakings, NvMade
<1>2. ASSUME NEW p \in NvProcess, NvReleaseInstance(p)
      PROVE  NvTypeOK'
  <2>1. UNCHANGED <<nvParam, nvLast, nvIdRow, nvArmRow, nvMaking, nvAdapter, nvHas, nvUnsaved, nvRefused, nvOdd, nvHub, nvSpe, nvArm, nvSaves, nvTroubles, nvEver>>
    BY <1>2 DEF NvReleaseInstance, NvCall, NvIsLast, nvFile, nvManagers, nvArms, nvIds
  <2>2. nvUsers' \in [NvProcess -> 0..MaxNvUsers]
    BY <1>2, NvTypes, NvRows DEF NvReleaseInstance, NvCall, NvIsLast, nvFile, nvManagers, nvArms, nvIds
  <2>3. nvOpen' \in [NvProcess -> BOOLEAN]
    BY <1>2, NvTypes, NvRows DEF NvReleaseInstance, NvCall, NvIsLast, nvFile, nvManagers, nvArms, nvIds
  <2>4. nvId' \in [NvProcess -> NvRandom \cup {0}]
    BY <1>2, NvTypes, NvRows DEF NvReleaseInstance, NvCall, NvIsLast, nvFile, nvManagers, nvArms, nvIds
  <2>5. nvTold' \in [NvProcess -> SUBSET NvRandom]
    BY <1>2, NvTypes, NvRows DEF NvReleaseInstance, NvCall, NvIsLast, nvFile, nvManagers, nvArms, nvIds
  <2> QED BY <2>1, <2>2, <2>3, <2>4, <2>5 DEF NvTypeOK, NvMakings, NvMade
<1>3. ASSUME NEW p \in NvProcess, NvRestart(p)
      PROVE  NvTypeOK'
  <2>1. UNCHANGED <<nvParam, nvLast, nvIdRow, nvArmRow, nvOdd, nvSaves, nvEver>>
    BY <1>3 DEF NvRestart, NvStatement, nvFile, nvManagers, nvArms, nvIds
  <2>2. nvUsers' \in [NvProcess -> 0..MaxNvUsers]
    BY <1>3, NvTypes, NvRows DEF NvRestart, nvFile, nvManagers, nvArms, nvIds
  <2>3. nvOpen' \in [NvProcess -> BOOLEAN]
    BY <1>3, NvTypes, NvRows DEF NvRestart, nvFile, nvManagers, nvArms, nvIds
  <2>4. nvId' \in [NvProcess -> NvRandom \cup {0}]
    BY <1>3, NvTypes, NvRows DEF NvRestart, nvFile, nvManagers, nvArms, nvIds
  <2>5. nvMaking' \in [NvProcess -> NvMakings]
    BY <1>3, NvTypes, NvRows, NvMakingFacts DEF NvRestart, nvFile, nvManagers, nvArms, nvIds
  <2>6. nvAdapter' \in {"away", "made", "restored"}
    BY <1>3, NvTypes, NvRows DEF NvRestart, nvFile, nvManagers, nvArms, nvIds
  <2>7. nvHas' \in BOOLEAN
    BY <1>3, NvTypes, NvRows DEF NvRestart, nvFile, nvManagers, nvArms, nvIds
  <2>8. nvUnsaved' \in BOOLEAN /\ nvRefused' \in BOOLEAN
    BY <1>3, NvTypes, NvRows DEF NvRestart, nvFile, nvManagers, nvArms, nvIds
  <2>9. nvHub' \in NvValue
    BY <1>3, NvTypes, NvRows DEF NvRestart, nvFile, nvManagers, nvArms, nvIds
  <2>10. nvSpe' \in NvValue
    BY <1>3, NvTypes, NvRows DEF NvRestart, nvFile, nvManagers, nvArms, nvIds
  <2>11. nvArm' \in NvValue
    BY <1>3, NvTypes, NvRows DEF NvRestart, nvFile, nvManagers, nvArms, nvIds
  <2>12. nvTroubles' \in 0..MaxNvTroubles
    BY <1>3, NvTypes, NvTroublesType DEF NvRestart
  <2>13. nvTold' \in [NvProcess -> SUBSET NvRandom]
    BY <1>3, NvTypes, NvRows DEF NvRestart, nvFile, nvManagers, nvArms, nvIds
  <2> QED BY <2>1, <2>2, <2>3, <2>4, <2>5, <2>6, <2>7, <2>8, <2>9, <2>10, <2>11, <2>12, <2>13 DEF NvTypeOK, NvMakings, NvMade
<1>4. ASSUME NEW p \in NvProcess, NEW length \in NvLength, NEW works \in BOOLEAN, NvSave(p, length, works)
      PROVE  NvTypeOK'
  <2>1. UNCHANGED <<nvIdRow, nvArmRow, nvUsers, nvOpen, nvId, nvMaking, nvAdapter, nvHas, nvUnsaved, nvRefused, nvOdd, nvHub, nvSpe, nvArm, nvTold, nvEver>>
    BY <1>4 DEF NvSave, NvCall, NvStatement, nvFile, nvManagers, nvArms, nvIds
  <2>2. nvParam' \in NvRow
    BY <1>4, NvTypes, NvRows DEF NvSave, NvCall, nvFile, nvManagers, nvArms, nvIds, NvRow
  <2>3. nvLast' \in NvRow
    BY <1>4, NvTypes, NvRows DEF NvSave, NvCall, nvFile, nvManagers, nvArms, nvIds, NvRow
  <2>4. nvSaves' \in NvValue
    BY <1>4, NvTypes, NvRows DEF NvSave, NvCall, nvFile, nvManagers, nvArms, nvIds
  <2>5. nvTroubles' \in 0..MaxNvTroubles
    BY <1>4, NvTypes, NvTroublesType DEF NvSave, NvCall
  <2> QED BY <2>1, <2>2, <2>3, <2>4, <2>5 DEF NvTypeOK, NvMakings, NvMade
<1>5. ASSUME NEW p \in NvProcess, NvTellId(p)
      PROVE  NvTypeOK'
  <2>1. UNCHANGED <<nvParam, nvLast, nvIdRow, nvArmRow, nvUsers, nvOpen, nvId, nvMaking, nvAdapter, nvHas, nvUnsaved, nvRefused, nvOdd, nvHub, nvSpe, nvArm, nvSaves, nvTroubles>>
    BY <1>5 DEF NvTellId, NvCall, NvTell, nvFile, nvManagers, nvArms, nvIds
  <2>2. nvTold' \in [NvProcess -> SUBSET NvRandom]
    BY <1>5, NvTypes, NvRows DEF NvTellId, NvCall, NvTell, nvFile, nvManagers, nvArms, nvIds
  <2>3. nvEver' \subseteq NvRandom
    BY <1>5, NvTypes, NvRows DEF NvTellId, NvCall, NvTell, nvFile, nvManagers, nvArms, nvIds
  <2> QED BY <2>1, <2>2, <2>3 DEF NvTypeOK, NvMakings, NvMade
<1>6. ASSUME NEW p \in NvProcess, NvReadId(p)
      PROVE  NvTypeOK'
  <2>1. UNCHANGED <<nvParam, nvLast, nvIdRow, nvArmRow, nvUsers, nvOpen, nvMaking, nvAdapter, nvHas, nvUnsaved, nvRefused, nvOdd, nvHub, nvSpe, nvArm, nvSaves, nvTroubles>>
    BY <1>6 DEF NvReadId, NvCall, NvTell, NvFindId, nvFile, nvManagers, nvArms, nvIds
  <2>2. nvId' \in [NvProcess -> NvRandom \cup {0}]
    BY <1>6, NvTypes, NvRows DEF NvReadId, NvCall, NvTell, NvFindId, nvFile, nvManagers, nvArms, nvIds
  <2>3. nvTold' \in [NvProcess -> SUBSET NvRandom]
    BY <1>6, NvTypes, NvRows DEF NvReadId, NvCall, NvTell, NvFindId, nvFile, nvManagers, nvArms, nvIds
  <2>4. nvEver' \subseteq NvRandom
    BY <1>6, NvTypes, NvRows DEF NvReadId, NvCall, NvTell, NvFindId, nvFile, nvManagers, nvArms, nvIds
  <2> QED BY <2>1, <2>2, <2>3, <2>4 DEF NvTypeOK, NvMakings, NvMade
<1>7. ASSUME NEW p \in NvProcess, NEW id \in NvRandom, NEW works \in BOOLEAN, NvMakeId(p, id, works)
      PROVE  NvTypeOK'
  <2>1. UNCHANGED <<nvParam, nvLast, nvIdRow, nvArmRow, nvUsers, nvOpen, nvId, nvAdapter, nvHas, nvUnsaved, nvRefused, nvHub, nvSpe, nvArm, nvSaves, nvTold, nvEver>>
    BY <1>7 DEF NvMakeId, NvCall, NvFindId, NvStatement, nvFile, nvManagers, nvArms, nvIds
  <2>2. nvMaking' \in [NvProcess -> NvMakings]
    BY <1>7, NvTypes, NvRows, NvMakingFacts DEF NvMakeId, NvCall, NvFindId, nvFile, nvManagers, nvArms, nvIds
  <2>3. nvOdd' \in BOOLEAN
    BY <1>7, NvTypes, NvRows DEF NvMakeId, NvCall, NvFindId, nvFile, nvManagers, nvArms, nvIds
  <2>4. nvTroubles' \in 0..MaxNvTroubles
    BY <1>7, NvTypes, NvTroublesType DEF NvMakeId, NvCall, NvFindId
  <2> QED BY <2>1, <2>2, <2>3, <2>4 DEF NvTypeOK, NvMakings, NvMade
<1>8. ASSUME NEW p \in NvProcess, NEW works \in BOOLEAN, NvSaveHalf(p, works)
      PROVE  NvTypeOK'
  <2>1. UNCHANGED <<nvParam, nvLast, nvIdRow, nvArmRow, nvUsers, nvOpen, nvId, nvAdapter, nvHas, nvUnsaved, nvRefused, nvOdd, nvHub, nvSpe, nvArm, nvSaves, nvTold, nvEver>>
    BY <1>8 DEF NvSaveHalf, NvStatement, nvFile, nvManagers, nvArms, nvIds
  <2>2. nvMaking' \in [NvProcess -> NvMakings]
    BY <1>8, NvTypes, NvRows, NvMakingFacts DEF NvSaveHalf, nvFile, nvManagers, nvArms, nvIds
  <2> QED BY <1>8, <2>1, <2>2, NvTypes, NvTroublesType DEF NvTypeOK, NvMakings, NvMade,
    NvSaveHalf
<1>9. ASSUME NEW p \in NvProcess, NEW works \in BOOLEAN, NvSaveWhole(p, works)
      PROVE  NvTypeOK'
  <2>1. UNCHANGED <<nvParam, nvLast, nvArmRow, nvUsers, nvOpen, nvAdapter, nvHas, nvUnsaved, nvRefused, nvHub, nvSpe, nvArm, nvSaves>>
    BY <1>9 DEF NvSaveWhole, NvTell, NvStatement, nvFile, nvManagers, nvArms, nvIds
  <2>2. nvIdRow' \in NvRandom \cup {0}
    BY <1>9, NvTypes, NvRows, NvMakingFacts DEF NvSaveWhole, NvTell, nvFile, nvManagers, nvArms, nvIds
  <2>3. nvId' \in [NvProcess -> NvRandom \cup {0}]
    BY <1>9, NvTypes, NvRows, NvMakingFacts DEF NvSaveWhole, NvTell, nvFile, nvManagers, nvArms, nvIds
  <2>4. nvMaking' \in [NvProcess -> NvMakings]
    BY <1>9, NvTypes, NvRows, NvMakingFacts DEF NvSaveWhole, NvTell, nvFile, nvManagers, nvArms, nvIds
  <2>5. nvOdd' \in BOOLEAN
    BY <1>9, NvTypes, NvRows, NvMakingFacts DEF NvSaveWhole, NvTell, nvFile, nvManagers, nvArms, nvIds
  <2>6. nvTroubles' \in 0..MaxNvTroubles
    BY <1>9, NvTypes, NvTroublesType DEF NvSaveWhole, NvTell
  <2>7. nvTold' \in [NvProcess -> SUBSET NvRandom]
    BY <1>9, NvTypes, NvRows, NvMakingFacts DEF NvSaveWhole, NvTell, nvFile, nvManagers, nvArms, nvIds
  <2>8. nvEver' \subseteq NvRandom
    BY <1>9, NvTypes, NvRows, NvMakingFacts DEF NvSaveWhole, NvTell, nvFile, nvManagers, nvArms, nvIds
  <2> QED BY <2>1, <2>2, <2>3, <2>4, <2>5, <2>6, <2>7, <2>8 DEF NvTypeOK, NvMakings, NvMade
<1>10. ASSUME NEW opens \in BOOLEAN, NvMakeAdapter(opens)
      PROVE  NvTypeOK'
  <2>1. UNCHANGED <<nvParam, nvLast, nvIdRow, nvArmRow, nvUnsaved, nvRefused, nvOdd, nvHub, nvSpe, nvArm, nvSaves, nvTold, nvEver>>
    BY <1>10 DEF NvMakeAdapter, NvGotInstance, NvStatement, nvFile, nvManagers, nvArms, nvIds
  <2>2. nvUsers' \in [NvProcess -> 0..MaxNvUsers]
    BY <1>10, NvTypes, NvRows DEF NvMakeAdapter, NvGotInstance, nvFile, nvManagers, nvArms, nvIds
  <2>3. nvOpen' \in [NvProcess -> BOOLEAN]
    BY <1>10, NvTypes, NvRows DEF NvMakeAdapter, NvGotInstance, nvFile, nvManagers, nvArms, nvIds
  <2>4. nvId' \in [NvProcess -> NvRandom \cup {0}]
    BY <1>10, NvTypes, NvRows DEF NvMakeAdapter, NvGotInstance, nvFile, nvManagers, nvArms, nvIds
  <2>5. nvMaking' \in [NvProcess -> NvMakings]
    BY <1>10, NvTypes, NvRows, NvMakingFacts DEF NvMakeAdapter, NvGotInstance, nvFile, nvManagers, nvArms, nvIds
  <2>6. nvAdapter' \in {"away", "made", "restored"}
    BY <1>10, NvTypes, NvRows DEF NvMakeAdapter, NvGotInstance, nvFile, nvManagers, nvArms, nvIds
  <2>7. nvHas' \in BOOLEAN
    BY <1>10, NvTypes, NvRows DEF NvMakeAdapter, NvGotInstance, nvFile, nvManagers, nvArms, nvIds
  <2>8. nvTroubles' \in 0..MaxNvTroubles
    BY <1>10, NvTypes, NvTroublesType DEF NvMakeAdapter, NvGotInstance
  <2> QED BY <2>1, <2>2, <2>3, <2>4, <2>5, <2>6, <2>7, <2>8 DEF NvTypeOK, NvMakings, NvMade
<1>11. ASSUME NEW works \in BOOLEAN, NEW takes \in BOOLEAN, NvRestoreConfig(works, takes)
      PROVE  NvTypeOK'
  <2>1. UNCHANGED <<nvParam, nvLast, nvIdRow, nvArmRow, nvUsers, nvOpen, nvId, nvMaking, nvHas, nvOdd, nvSpe, nvArm, nvSaves, nvTold, nvEver>>
    BY <1>11 DEF NvRestoreConfig, NvStatement, nvFile, nvManagers, nvArms, nvIds
  <2>2. nvAdapter' \in {"away", "made", "restored"}
    BY <1>11, NvTypes, NvRows DEF NvRestoreConfig, nvFile, nvManagers, nvArms, nvIds
  <2>3. nvUnsaved' \in BOOLEAN /\ nvRefused' \in BOOLEAN
    BY <1>11, NvTypes, NvRows DEF NvRestoreConfig, nvFile, nvManagers, nvArms, nvIds
  <2>4. nvHub' \in NvValue
    BY <1>11, NvTypes, NvRows DEF NvRestoreConfig, nvFile, nvManagers, nvArms, nvIds
  <2>5. nvTroubles' \in 0..MaxNvTroubles
    BY <1>11, NvTypes, NvTroublesType DEF NvRestoreConfig
  <2> QED BY <2>1, <2>2, <2>3, <2>4, <2>5 DEF NvTypeOK, NvMakings, NvMade
<1>12. ASSUME NEW works \in BOOLEAN, NEW takes \in BOOLEAN, NvConfigLeverArm(works, takes)
      PROVE  NvTypeOK'
  <2>1. UNCHANGED <<nvParam, nvLast, nvIdRow, nvUsers, nvOpen, nvId, nvMaking, nvAdapter, nvHas, nvOdd, nvTold, nvEver>>
    BY <1>12 DEF NvConfigLeverArm, NvStoreVrp, NvStatement, nvFile, nvManagers, nvArms, nvIds
  <2>2. nvArmRow' \in NvValue
    BY <1>12, NvTypes, NvRows DEF NvConfigLeverArm, NvStoreVrp, nvFile, nvManagers, nvArms, nvIds
  <2>3. nvUnsaved' \in BOOLEAN /\ nvRefused' \in BOOLEAN
    BY <1>12, NvTypes, NvRows DEF NvConfigLeverArm, NvStoreVrp, nvFile, nvManagers, nvArms, nvIds
  <2>4. nvHub' \in NvValue
    BY <1>12, NvTypes, NvRows DEF NvConfigLeverArm, NvStoreVrp, nvFile, nvManagers, nvArms, nvIds
  <2>5. nvSpe' \in NvValue
    BY <1>12, NvTypes, NvRows DEF NvConfigLeverArm, NvStoreVrp, nvFile, nvManagers, nvArms, nvIds
  <2>6. nvArm' \in NvValue
    BY <1>12, NvTypes, NvRows DEF NvConfigLeverArm, NvStoreVrp, nvFile, nvManagers, nvArms, nvIds
  <2>7. nvSaves' \in NvValue
    BY <1>12, NvTypes, NvRows DEF NvConfigLeverArm, NvStoreVrp, nvFile, nvManagers, nvArms, nvIds
  <2>8. nvTroubles' \in 0..MaxNvTroubles
    BY <1>12, NvTypes, NvTroublesType DEF NvConfigLeverArm, NvStoreVrp
  <2> QED BY <2>1, <2>2, <2>3, <2>4, <2>5, <2>6, <2>7, <2>8 DEF NvTypeOK, NvMakings, NvMade
<1>13. CASE UNCHANGED nvVars
  BY <1>13 DEF nvVars, nvFile, nvManagers, nvArms, nvIds, NvTypeOK
<1> QED BY <1>1, <1>2, <1>3, <1>4, <1>5, <1>6, <1>7, <1>8, <1>9, <1>10, <1>11, <1>12, <1>13 DEF NvNext

-----------------------------------------------------------------------------
(* Stored parameters: what is kept *)

(* While no process made an id that one had made, at most one process      *)
(* makes one, and nobody knows another than the one in the file            *)
NvOneId ==
  /\ nvEver \subseteq {nvIdRow} \ {0}
  /\ \A p \in NvProcess : nvId[p] # 0 => nvId[p] = nvIdRow
  /\ \A p \in NvProcess : nvMaking[p] # NvIdle =>
       nvIdRow = 0 /\ \A q \in NvProcess : nvMaking[q] # NvIdle => p = q

NvIds ==
  /\ \A p \in NvProcess : nvTold[p] \subseteq {nvId[p]} \ {0}
  /\ \A p \in NvProcess : nvMaking[p] # NvIdle => nvId[p] = 0
  /\ ~nvOdd => NvOneId

(* The parameter and the lever arm, and the file that is open for users *)
NvArms ==
  /\ nvParam = nvLast
  /\ ~nvUnsaved => nvArmRow = nvArm
  /\ nvAdapter # "restored" => nvSpe = 0
  /\ LeverArmIsKept /\ UsersHaveTheFile

LEMMA NvIdsStep ==
  ASSUME NvTypeOK, NvIds, NvArms, [NvNext]_nvVars
  PROVE  NvIds'
<1>1. ASSUME NEW p \in NvProcess, NEW opens \in BOOLEAN, NvGetInstance(p, opens)
      PROVE  NvIds'
  BY <1>1, NvTypes, NvMakingFacts, NvAssumption DEF NvGetInstance, NvGotInstance, NvStatement, nvFile, nvManagers, nvArms, nvIds, NvIds, NvOneId
<1>2. ASSUME NEW p \in NvProcess, NvReleaseInstance(p)
      PROVE  NvIds'
  BY <1>2, NvTypes, NvMakingFacts, NvAssumption DEF NvReleaseInstance, NvCall, NvIsLast, nvFile, nvManagers, nvArms, nvIds, NvIds, NvOneId
<1>3. ASSUME NEW p \in NvProcess, NvRestart(p)
      PROVE  NvIds'
  BY <1>3, NvTypes, NvMakingFacts, NvAssumption DEF NvRestart, NvStatement, nvFile, nvManagers, nvArms, nvIds, NvIds, NvOneId
<1>4. ASSUME NEW p \in NvProcess, NEW length \in NvLength, NEW works \in BOOLEAN, NvSave(p, length, works)
      PROVE  NvIds'
  BY <1>4, NvTypes, NvMakingFacts, NvAssumption DEF NvSave, NvCall, NvStatement, nvFile, nvManagers, nvArms, nvIds, NvIds, NvOneId
<1>5. ASSUME NEW p \in NvProcess, NvTellId(p)
      PROVE  NvIds'
  BY <1>5, NvTypes, NvMakingFacts, NvAssumption DEF NvTellId, NvCall, NvTell, nvFile, nvManagers, nvArms, nvIds, NvIds, NvOneId
<1>6. ASSUME NEW p \in NvProcess, NvReadId(p)
      PROVE  NvIds'
  BY <1>6, NvTypes, NvMakingFacts, NvAssumption DEF NvReadId, NvCall, NvTell, NvFindId, nvFile, nvManagers, nvArms, nvIds, NvIds, NvOneId
<1>7. ASSUME NEW p \in NvProcess, NEW id \in NvRandom, NEW works \in BOOLEAN, NvMakeId(p, id, works)
      PROVE  NvIds'
  BY <1>7, NvTypes, NvMakingFacts, NvAssumption DEF NvMakeId, NvCall, NvFindId, NvStatement, nvFile, nvManagers, nvArms, nvIds, NvIds, NvOneId
<1>8. ASSUME NEW p \in NvProcess, NEW works \in BOOLEAN, NvSaveHalf(p, works)
      PROVE  NvIds'
  BY <1>8, NvTypes, NvMakingFacts, NvAssumption DEF NvSaveHalf, NvStatement, nvFile, nvManagers, nvArms, nvIds, NvIds, NvOneId
<1>9. ASSUME NEW p \in NvProcess, NEW works \in BOOLEAN, NvSaveWhole(p, works)
      PROVE  NvIds'
  <2>1. nvMaking[p] # NvIdle /\ nvMaking[p].id # 0 /\ nvId[p] = 0 /\ nvTold[p] = {}
    BY <1>9, NvTypes, NvMakingFacts, NvAssumption DEF NvSaveWhole, NvIds
  <2>2. \A q \in NvProcess : nvMaking'[q] = IF q = p THEN NvIdle ELSE nvMaking[q]
    BY <1>9, NvTypes DEF NvSaveWhole
  <2>6. ASSUME ~nvOdd' PROVE NvOneId'
    <3>1. ~nvOdd /\ works
      BY <1>9, <2>6, NvTypes DEF NvSaveWhole
    <3> QED BY <1>9, <2>1, <2>2, <3>1, NvTypes DEF NvOneId, NvIds, NvSaveWhole, NvTell
  <2> QED BY <1>9, <2>1, <2>2, <2>6, NvTypes DEF NvIds, NvSaveWhole, NvTell
<1>10. ASSUME NEW opens \in BOOLEAN, NvMakeAdapter(opens)
      PROVE  NvIds'
  BY <1>10, NvTypes, NvMakingFacts, NvAssumption DEF NvMakeAdapter, NvGotInstance, NvStatement, nvFile, nvManagers, nvArms, nvIds, NvIds, NvOneId
<1>11. ASSUME NEW works \in BOOLEAN, NEW takes \in BOOLEAN, NvRestoreConfig(works, takes)
      PROVE  NvIds'
  BY <1>11, NvTypes, NvMakingFacts, NvAssumption DEF NvRestoreConfig, NvStatement, nvFile, nvManagers, nvArms, nvIds, NvIds, NvOneId
<1>12. ASSUME NEW works \in BOOLEAN, NEW takes \in BOOLEAN, NvConfigLeverArm(works, takes)
      PROVE  NvIds'
  BY <1>12, NvTypes, NvMakingFacts, NvAssumption DEF NvConfigLeverArm, NvStoreVrp, NvStatement, nvFile, nvManagers, nvArms, nvIds, NvIds, NvOneId
<1>13. CASE UNCHANGED nvVars
  BY <1>13 DEF nvVars, nvFile, nvManagers, nvArms, nvIds, NvIds, NvOneId
<1> QED BY <1>1, <1>2, <1>3, <1>4, <1>5, <1>6, <1>7, <1>8, <1>9, <1>10, <1>11, <1>12, <1>13 DEF NvNext

LEMMA NvArmsStep ==
  ASSUME NvTypeOK, NvIds, NvArms, [NvNext]_nvVars
  PROVE  NvArms'
<1>1. ASSUME NEW p \in NvProcess, NEW opens \in BOOLEAN, NvGetInstance(p, opens)
      PROVE  NvArms'
  BY <1>1, NvTypes, NvAssumption DEF NvGetInstance, NvGotInstance, NvStatement, nvFile, nvManagers, nvArms, nvIds, NvArms, LeverArmIsKept, UsersHaveTheFile, NvProcess
<1>2. ASSUME NEW p \in NvProcess, NvReleaseInstance(p)
      PROVE  NvArms'
  BY <1>2, NvTypes, NvAssumption DEF NvReleaseInstance, NvCall, NvIsLast, nvFile, nvManagers, nvArms, nvIds, NvArms, LeverArmIsKept, UsersHaveTheFile, NvProcess
<1>3. ASSUME NEW p \in NvProcess, NvRestart(p)
      PROVE  NvArms'
  BY <1>3, NvTypes, NvAssumption DEF NvRestart, NvStatement, nvFile, nvManagers, nvArms, nvIds, NvArms, LeverArmIsKept, UsersHaveTheFile, NvProcess
<1>4. ASSUME NEW p \in NvProcess, NEW length \in NvLength, NEW works \in BOOLEAN, NvSave(p, length, works)
      PROVE  NvArms'
  BY <1>4, NvTypes, NvAssumption DEF NvSave, NvCall, NvStatement, nvFile, nvManagers, nvArms, nvIds, NvArms, LeverArmIsKept, UsersHaveTheFile, NvProcess
<1>5. ASSUME NEW p \in NvProcess, NvTellId(p)
      PROVE  NvArms'
  BY <1>5, NvTypes, NvAssumption DEF NvTellId, NvCall, NvTell, nvFile, nvManagers, nvArms, nvIds, NvArms, LeverArmIsKept, UsersHaveTheFile, NvProcess
<1>6. ASSUME NEW p \in NvProcess, NvReadId(p)
      PROVE  NvArms'
  BY <1>6, NvTypes, NvAssumption DEF NvReadId, NvCall, NvTell, NvFindId, nvFile, nvManagers, nvArms, nvIds, NvArms, LeverArmIsKept, UsersHaveTheFile, NvProcess
<1>7. ASSUME NEW p \in NvProcess, NEW id \in NvRandom, NEW works \in BOOLEAN, NvMakeId(p, id, works)
      PROVE  NvArms'
  BY <1>7, NvTypes, NvAssumption DEF NvMakeId, NvCall, NvFindId, NvStatement, nvFile, nvManagers, nvArms, nvIds, NvArms, LeverArmIsKept, UsersHaveTheFile, NvProcess
<1>8. ASSUME NEW p \in NvProcess, NEW works \in BOOLEAN, NvSaveHalf(p, works)
      PROVE  NvArms'
  BY <1>8, NvTypes, NvAssumption DEF NvSaveHalf, NvStatement, nvFile, nvManagers, nvArms, nvIds, NvArms, LeverArmIsKept, UsersHaveTheFile, NvProcess
<1>9. ASSUME NEW p \in NvProcess, NEW works \in BOOLEAN, NvSaveWhole(p, works)
      PROVE  NvArms'
  BY <1>9, NvTypes, NvAssumption DEF NvSaveWhole, NvTell, NvStatement, nvFile, nvManagers, nvArms, nvIds, NvArms, LeverArmIsKept, UsersHaveTheFile, NvProcess
<1>10. ASSUME NEW opens \in BOOLEAN, NvMakeAdapter(opens)
      PROVE  NvArms'
  BY <1>10, NvTypes, NvAssumption DEF NvMakeAdapter, NvGotInstance, NvStatement, nvFile, nvManagers, nvArms, nvIds, NvArms, LeverArmIsKept, UsersHaveTheFile, NvProcess
<1>11. ASSUME NEW works \in BOOLEAN, NEW takes \in BOOLEAN, NvRestoreConfig(works, takes)
      PROVE  NvArms'
  BY <1>11, NvTypes, NvAssumption DEF NvRestoreConfig, NvStatement, nvFile, nvManagers, nvArms, nvIds, NvArms, LeverArmIsKept, UsersHaveTheFile, NvProcess
<1>12. ASSUME NEW works \in BOOLEAN, NEW takes \in BOOLEAN, NvConfigLeverArm(works, takes)
      PROVE  NvArms'
  BY <1>12, NvTypes, NvAssumption DEF NvConfigLeverArm, NvStoreVrp, NvStatement, nvFile, nvManagers, nvArms, nvIds, NvArms, LeverArmIsKept, UsersHaveTheFile, NvProcess
<1>13. CASE UNCHANGED nvVars
  BY <1>13 DEF nvVars, nvFile, nvManagers, nvArms, nvIds, NvArms, LeverArmIsKept, UsersHaveTheFile, NvProcess
<1> QED BY <1>1, <1>2, <1>3, <1>4, <1>5, <1>6, <1>7, <1>8, <1>9, <1>10, <1>11, <1>12, <1>13 DEF NvNext

LEMMA NvInvInit == NvInit => NvTypeOK /\ NvIds /\ NvArms
<1> SUFFICES ASSUME NvInit PROVE NvTypeOK /\ NvIds /\ NvArms
  OBVIOUS
<1>1. NvTypeOK
  <2>1. NvIdle \in NvMakings /\ NoNv \in NvRow /\ 0 \in NvValue /\ 0 \in 0..MaxNvTroubles
        /\ 0 \in 0..MaxNvUsers
    BY NvRows, NvMakingFacts
  <2>2. nvMaking \in [NvProcess -> NvMakings]
    BY <2>1 DEF NvInit
  <2>5. nvId \in [NvProcess -> NvRandom \cup {0}]
    BY DEF NvInit
  <2>6. nvHas \in BOOLEAN /\ nvUnsaved \in BOOLEAN /\ nvRefused \in BOOLEAN /\ nvOdd \in BOOLEAN
    BY DEF NvInit
  <2> QED BY <2>1, <2>2, <2>5, <2>6 DEF NvTypeOK, NvMakings, NvMade, NvInit
<1>2. NvIds
  BY DEF NvInit, NvIds, NvOneId
<1> QED BY <1>1, <1>2 DEF NvInit, NvArms, LeverArmIsKept, UsersHaveTheFile

LEMMA StorePart == BatchSpec => [](NvTypeOK /\ NvIds /\ NvArms)
<1>1. BatchInit => NvTypeOK /\ NvIds /\ NvArms
  BY NvInvInit DEF BatchInit
<1>2. NvTypeOK /\ NvIds /\ NvArms /\ [BatchNext]_batchVars => (NvTypeOK /\ NvIds /\ NvArms)'
  <2> SUFFICES ASSUME NvTypeOK, NvIds, NvArms, [BatchNext]_batchVars
               PROVE  (NvTypeOK /\ NvIds /\ NvArms)'
    OBVIOUS
  <2>1. [NvNext]_nvVars
    BY DEF BatchNext, AdapterStep, FrameworkStep, BatteryStep, StoreStep, HandoverStep,
           CardsStep, batchVars, utilityVars
  <2> QED BY <2>1, NvTypeStep, NvIdsStep, NvArmsStep
<1> QED BY <1>1, <1>2, PTL DEF BatchSpec

LEMMA NvAtMostOne ==
  ASSUME NEW S, NEW x, S \subseteq {x}
  PROVE  Cardinality(S) <= 1
<1>1. IsFiniteSet({x}) /\ Cardinality({x}) = 1
  BY FS_Singleton
<1> QED BY <1>1, FS_Subset

(* However many processes use the store, and restart or fail at any        *)
(* statement: the id stays what it was, a parameter is what was saved      *)
(* last, the engines go by the lever arm that was configured last, and the *)
(* file is open for as long as it has users (nvparam_mgr.cpp:456-1164,     *)
(* GnssAdapter.cpp:276-352, 7571-7624).                                    *)
THEOREM StoreAlwaysKeeps == BatchSpec => []StoreKeepsWhatWasSaved
<1>1. NvTypeOK /\ NvIds /\ NvArms => StoreKeepsWhatWasSaved
  <2> SUFFICES ASSUME NvTypeOK, NvIds, NvArms PROVE StoreKeepsWhatWasSaved
    OBVIOUS
  <2>2. ParamsAreKept
    <3>1. nvParam = nvLast /\ nvParam \in NvRow
      BY NvTypes DEF NvArms
    <3>4. ASSUME NEW type \in NvSized
          PROVE  /\ NvGetSized(type).row = nvLast
                 /\ NvGetSized(type).ok <=> NvFound /\ nvLast.length = NvSize[type]
                 /\ NvGetSized(type).copied <=> NvFound /\ nvLast.length <= NvSize[type]
      BY <3>1 DEF NvGetSized, NvFits
    <3>5. ASSUME NEW type \in NvSized
          PROVE  IF NvGetSized(type).ok
                 THEN NvGetSized(type).row = nvLast /\ nvLast.length = NvSize[type]
                 ELSE NvGetSized(type).copied => nvLast.length < NvSize[type]
      BY <3>1, <3>4 DEF NvRow, NvLength, NvSized, NvSize
    <3> QED BY <3>1, <3>5 DEF ParamsAreKept, NvGetText
  <2> QED BY <2>2, NvAtMostOne DEF StoreKeepsWhatWasSaved, NvArms, NvIds, NvOneId,
    IdStaysTheSame
<1> QED BY <1>1, StorePart, PTL

-----------------------------------------------------------------------------
(* The queue and the threads: types *)

BqPlaces == {"none", "starting", "running", "patient", "impatient", "woken", "hurried", "late",
             "lost", "ended"}
BqWaits == {"patient", "impatient"}
BqWakes == {"woken", "hurried", "late"}
BqStates == {"new", "created", "joinable", "joined", "deleted"}
BqItem == 1..MaxBqPushes

BqTypes ==
  /\ bqItems \in Seq(BqItem) /\ bqClosed \in BOOLEAN
  /\ bqPushes \in 0..MaxBqPushes
  /\ bqTaken \in Seq(BqItem) /\ bqPopped \in Seq(BqItem)
  /\ bqState \in [BqThread -> BqStates]
  /\ bqAt \in [BqThread -> BqPlaces]
  /\ bqRunnable \subseteq BqThread /\ bqRude \subseteq BqThread
  /\ bqRuns \in [BqThread -> 0..2]

BqTyped ==
  BqTypes /\ \A t \in BqThread : bqAt[t] = "starting" => bqRuns[t] < 2

LEMMA BqPlaceFacts ==
  /\ "none" \in BqPlaces /\ "starting" \in BqPlaces /\ "running" \in BqPlaces
  /\ "lost" \in BqPlaces /\ "ended" \in BqPlaces /\ "late" \in BqPlaces
  /\ BqWaits \subseteq BqPlaces /\ BqWakes \subseteq BqPlaces
  /\ BqWaits \cap BqWakes = {}
  /\ "patient" \in BqWaits /\ "impatient" \in BqWaits
  /\ "woken" \in BqWakes /\ "hurried" \in BqWakes /\ "late" \in BqWakes
  /\ \A x \in {"none", "starting", "running", "lost", "ended"} : x \notin BqWaits /\ x \notin BqWakes
  BY DEF BqPlaces, BqWaits, BqWakes

LEMMA BqSets ==
  /\ BqWaiting = {t \in BqThread : bqAt[t] \in BqWaits}
  /\ BqWoken = {t \in BqThread : bqAt[t] \in BqWakes}
  BY DEF BqWaiting, BqWoken, BqWaits, BqWakes

LEMMA SequenceMoves ==
  ASSUME NEW S, NEW a \in Seq(S), NEW b \in Seq(S)
  PROVE  /\ b # <<>> => /\ Append(a, Head(b)) \in Seq(S) /\ Tail(b) \in Seq(S)
                        /\ Append(a, Head(b)) \o Tail(b) = a \o b
                        /\ Len(Tail(b)) = Len(b) - 1
         /\ \A x \in S : /\ Append(b, x) \in Seq(S) /\ Len(Append(b, x)) = Len(b) + 1
                         /\ a \o Append(b, x) = Append(a \o b, x)
         /\ Len(b) \in Nat /\ (Len(b) = 0 <=> b = <<>>)
<1>1. ASSUME b # <<>>
      PROVE  /\ Append(a, Head(b)) \in Seq(S) /\ Tail(b) \in Seq(S)
             /\ Append(a, Head(b)) \o Tail(b) = a \o b
             /\ Len(Tail(b)) = Len(b) - 1
  BY <1>1, HeadTailProperties, AppendProperties, AppendIsConcat, ConcatAssociative
<1>2. ASSUME NEW x \in S
      PROVE  /\ Append(b, x) \in Seq(S) /\ Len(Append(b, x)) = Len(b) + 1
             /\ a \o Append(b, x) = Append(a \o b, x)
  BY AppendProperties, AppendIsConcat, ConcatProperties, ConcatAssociative
<1> QED BY <1>1, <1>2, EmptySeq, LenProperties

(* Where one thread goes, and who then waits and who was woken             *)
LEMMA BqMoves ==
  ASSUME BqTypes, NEW t \in BqThread, NEW x \in BqPlaces, bqAt' = [bqAt EXCEPT ![t] = x]
  PROVE  /\ bqAt' \in [BqThread -> BqPlaces]
         /\ \A u \in BqThread : bqAt'[u] = IF u = t THEN x ELSE bqAt[u]
         /\ BqWaiting' = IF x \in BqWaits THEN BqWaiting \cup {t} ELSE BqWaiting \ {t}
         /\ BqWoken' = IF x \in BqWakes THEN BqWoken \cup {t} ELSE BqWoken \ {t}
  BY BqSets DEF BqTypes, BqWaiting, BqWaits, BqWoken, BqWakes

LEMMA BqCounts ==
  ASSUME BqTypes
  PROVE  /\ IsFiniteSet(BqWoken) /\ Cardinality(BqWoken) \in Nat
         /\ \A t \in BqThread :
              /\ t \notin BqWoken => Cardinality(BqWoken \cup {t}) = Cardinality(BqWoken) + 1
              /\ t \in BqWoken => Cardinality(BqWoken \ {t}) = Cardinality(BqWoken) - 1
              /\ t \notin BqWoken => BqWoken \ {t} = BqWoken
<1>1. IsFiniteSet(BqWoken)
  BY BqAssumption, FS_Subset DEF BqWoken
<1>3. ASSUME NEW t \in BqThread, t \notin BqWoken
      PROVE  Cardinality(BqWoken \cup {t}) = Cardinality(BqWoken) + 1
  BY <1>1, <1>3, FS_AddElement
<1>4. ASSUME NEW t \in BqThread, t \in BqWoken
      PROVE  Cardinality(BqWoken \ {t}) = Cardinality(BqWoken) - 1
  BY <1>1, <1>4, FS_RemoveElement
<1> QED BY <1>1, <1>3, <1>4, FS_CardinalityType

-----------------------------------------------------------------------------
(* The queue and the threads: what is handed over *)

BqHandover ==
  /\ bqClosed => BqWaiting = {}
  /\ BqWaiting # {} => Len(bqItems) <= Cardinality(BqWoken)
  /\ bqPopped \o bqItems = bqTaken

(* A step of a thread that runs or was woken: it pops or it waits          *)
BqPops(t) ==
  \/ /\ bqItems # <<>>
     /\ bqPopped' = Append(bqPopped, Head(bqItems)) /\ bqItems' = Tail(bqItems)
     /\ bqAt' = [bqAt EXCEPT ![t] = "running"]
  \/ /\ bqItems = <<>> /\ UNCHANGED <<bqItems, bqPopped>>
     /\ \E x \in {"running", "ended"} : bqAt' = [bqAt EXCEPT ![t] = x]
  \/ /\ bqItems = <<>> /\ ~bqClosed /\ UNCHANGED <<bqItems, bqPopped>>
     /\ \E x \in BqWaits : bqAt' = [bqAt EXCEPT ![t] = x]

LEMMA BqPopsHandover ==
  ASSUME BqTypes, BqHandover, NEW t \in BqThread, bqAt[t] \notin BqWaits, BqPops(t),
         UNCHANGED <<bqClosed, bqTaken>>
  PROVE  BqHandover' /\ bqAt' \in [BqThread -> BqPlaces] /\ bqItems' \in Seq(BqItem)
         /\ bqPopped' \in Seq(BqItem) /\ bqAt'[t] # "starting"
         /\ \A u \in BqThread \ {t} : bqAt'[u] = bqAt[u]
<1>1. t \notin BqWaiting
  BY BqSets
<1>2. Cardinality(BqWoken) \in Nat /\ Cardinality(BqWoken \ {t}) \in Nat
      /\ Cardinality(BqWoken) <= Cardinality(BqWoken \ {t}) + 1
  <2>2. Cardinality(BqWoken) \in Nat /\ Cardinality(BqWoken \ {t}) \in Nat
    BY FS_CardinalityType, BqCounts, FS_RemoveElement
  <2>3. CASE t \in BqWoken
    BY <2>2, <2>3, BqCounts
  <2>4. CASE t \notin BqWoken
    <3>1. BqWoken \ {t} = BqWoken
      BY <2>4
    <3> QED BY <2>2, <3>1
  <2> QED BY <2>3, <2>4
<1>3. bqItems \in Seq(BqItem) /\ bqPopped \in Seq(BqItem) /\ Len(bqItems) \in Nat
  BY SequenceMoves DEF BqTypes
<1>4. CASE /\ bqItems # <<>>
           /\ bqPopped' = Append(bqPopped, Head(bqItems)) /\ bqItems' = Tail(bqItems)
           /\ bqAt' = [bqAt EXCEPT ![t] = "running"]
  <2>1. BqWaiting' = BqWaiting /\ BqWoken' = BqWoken \ {t} /\ bqAt' \in [BqThread -> BqPlaces]
        /\ \A u \in BqThread : bqAt'[u] = IF u = t THEN "running" ELSE bqAt[u]
    <3>2. BqWaiting' = BqWaiting \ {t} /\ BqWoken' = BqWoken \ {t} /\ bqAt' \in [BqThread -> BqPlaces]
          /\ \A u \in BqThread : bqAt'[u] = IF u = t THEN "running" ELSE bqAt[u]
      BY <1>4, BqMoves, BqPlaceFacts
    <3> QED BY <1>1, <3>2
  <2>2. Len(bqItems') = Len(bqItems) - 1 /\ bqPopped' \o bqItems' = bqPopped \o bqItems
        /\ bqItems' \in Seq(BqItem) /\ bqPopped' \in Seq(BqItem)
    BY <1>3, <1>4, SequenceMoves
  <2> QED BY <1>2, <1>3, <2>1, <2>2 DEF BqHandover
<1>5. CASE /\ bqItems = <<>> /\ UNCHANGED <<bqItems, bqPopped>>
           /\ \E x \in {"running", "ended"} : bqAt' = [bqAt EXCEPT ![t] = x]
  <2>1. PICK x \in {"running", "ended"} : bqAt' = [bqAt EXCEPT ![t] = x]
    BY <1>5
  <2>2. BqWaiting' = BqWaiting /\ BqWoken' = BqWoken \ {t} /\ bqAt' \in [BqThread -> BqPlaces]
        /\ \A u \in BqThread : bqAt'[u] = IF u = t THEN x ELSE bqAt[u]
    <3>2. BqWaiting' = BqWaiting \ {t} /\ BqWoken' = BqWoken \ {t} /\ bqAt' \in [BqThread -> BqPlaces]
          /\ \A u \in BqThread : bqAt'[u] = IF u = t THEN x ELSE bqAt[u]
      BY <2>1, BqMoves, BqPlaceFacts
    <3> QED BY <1>1, <3>2
  <2> QED BY <1>2, <1>3, <1>5, <2>2, SequenceMoves DEF BqHandover
<1>6. CASE /\ bqItems = <<>> /\ ~bqClosed /\ UNCHANGED <<bqItems, bqPopped>>
           /\ \E x \in BqWaits : bqAt' = [bqAt EXCEPT ![t] = x]
  <2>1. PICK x \in BqWaits : bqAt' = [bqAt EXCEPT ![t] = x]
    BY <1>6
  <2>2. BqWoken' = BqWoken \ {t} /\ bqAt' \in [BqThread -> BqPlaces]
        /\ \A u \in BqThread : bqAt'[u] = IF u = t THEN x ELSE bqAt[u]
    BY <2>1, BqMoves, BqPlaceFacts
  <2> QED BY <1>2, <1>3, <1>6, <2>2, SequenceMoves, BqPlaceFacts DEF BqHandover
<1> QED BY <1>4, <1>5, <1>6 DEF BqPops

(* A waker takes one of those who wait *)
LEMMA BqWakesOne ==
  ASSUME BqTypes, NEW t \in BqWaiting, BqWake(t)
  PROVE  /\ BqWaiting' = BqWaiting \ {t}
         /\ Cardinality(BqWoken') = Cardinality(BqWoken) + 1
         /\ bqAt' \in [BqThread -> BqPlaces] /\ bqAt'[t] \in BqWakes
         /\ \A u \in BqThread \ {t} : bqAt'[u] = bqAt[u]
<1>1. t \in BqThread /\ t \notin BqWoken
  BY BqSets, BqPlaceFacts
<1> QED BY <1>1, BqCounts, BqMoves, BqPlaceFacts DEF BqWake, BqWokenUp

LEMMA BqPushHandover ==
  ASSUME BqTyped, BqHandover, BqPush
  PROVE  BqTyped' /\ BqHandover'
         /\ \A u \in BqThread : bqAt'[u] = bqAt[u] \/ {bqAt[u], bqAt'[u]} \subseteq BqWaits \cup BqWakes
<1>1. /\ bqItems \in Seq(BqItem) /\ bqTaken \in Seq(BqItem) /\ bqPopped \in Seq(BqItem)
      /\ bqPushes' = bqPushes + 1 /\ bqPushes + 1 \in BqItem /\ bqPushes' \in 0..MaxBqPushes
  BY BqAssumption DEF BqTyped, BqTypes, BqPush, BqItem
<1>2. /\ bqItems' \in Seq(BqItem) /\ bqTaken' \in Seq(BqItem) /\ bqPopped' \in Seq(BqItem)
      /\ bqPopped' \o bqItems' = bqTaken'
      /\ Len(bqItems') \in Nat /\ Len(bqItems) \in Nat
      /\ Len(bqItems') <= Len(bqItems) + 1
  <2>1. CASE bqClosed
    BY <1>1, <2>1, SequenceMoves DEF BqPush, BqHandover
  <2>2. CASE ~bqClosed
    <3>1. bqItems' = Append(bqItems, bqPushes + 1) /\ bqTaken' = Append(bqTaken, bqPushes + 1)
          /\ bqPopped' = bqPopped
      BY <2>2 DEF BqPush
    <3> QED BY <1>1, <3>1, SequenceMoves DEF BqHandover
  <2> QED BY <2>1, <2>2
<1>3. UNCHANGED <<bqClosed, bqState, bqRunnable, bqRude, bqRuns>>
  BY DEF BqPush, bqOwners
<1>4. CASE BqWaiting = {}
  <2>1. UNCHANGED bqAt
    BY <1>4 DEF BqPush, BqSignalOne
  <2> QED BY <1>1, <1>2, <1>3, <1>4, <2>1 DEF BqTyped, BqTypes, BqHandover, BqWaiting
<1>5. CASE BqWaiting # {}
  <2>1. PICK t \in BqWaiting : BqWake(t)
    BY <1>5 DEF BqPush, BqSignalOne
  <2>2. BqTypes /\ t \in BqThread /\ bqAt[t] \in BqWaits /\ ~bqClosed
    BY <1>5, BqSets DEF BqTyped, BqHandover
  <2>3. /\ Cardinality(BqWoken') = Cardinality(BqWoken) + 1
        /\ bqAt' \in [BqThread -> BqPlaces] /\ bqAt'[t] \in BqWakes
        /\ \A u \in BqThread \ {t} : bqAt'[u] = bqAt[u]
    BY <2>1, <2>2, BqWakesOne
  <2>5. BqHandover'
    BY <1>2, <1>3, <1>5, <2>2, <2>3, BqCounts DEF BqHandover
  <2> QED BY <1>1, <1>2, <1>3, <2>2, <2>3, <2>5 DEF BqTyped, BqTypes, BqWakes
<1> QED BY <1>4, <1>5

LEMMA BqCloseHandover ==
  ASSUME BqTyped, BqHandover, BqClose
  PROVE  BqTyped' /\ BqHandover'
         /\ \A u \in BqThread : bqAt'[u] = bqAt[u] \/ {bqAt[u], bqAt'[u]} \subseteq BqWaits \cup BqWakes
<1>1. \A u \in BqThread : bqAt'[u] = IF u \in BqWaiting THEN BqWokenUp(u) ELSE bqAt[u]
  BY DEF BqClose, BqSignalAll
<1>2. \A u \in BqThread : BqWokenUp(u) \in BqWakes /\ BqWokenUp(u) \in BqPlaces
                        /\ BqWokenUp(u) \notin BqWaits /\ BqWokenUp(u) # "starting"
  BY DEF BqWokenUp, BqWakes, BqWaits, BqPlaces
<1>5. UNCHANGED <<bqItems, bqPushes, bqTaken, bqPopped, bqState, bqRunnable, bqRude, bqRuns>>
      /\ bqClosed' = TRUE
  BY DEF BqClose, bqOwners
<1>7. BqTyped'
  BY <1>1, <1>2, <1>5 DEF BqTyped, BqTypes, BqClose, BqSignalAll
<1> QED BY <1>1, <1>2, <1>5, <1>7, BqSets DEF BqHandover, BqWaiting, BqWaits

(* What a step of one thread does to it *)
BqMayGo(t) ==
  /\ \A u \in BqThread \ {t} : bqAt'[u] = bqAt[u]
  /\ bqAt[t] = bqAt'[t] \/ (bqAt[t] \in {"running"} \cup BqWaits \cup BqWakes
                           /\ bqAt'[t] \in {"running", "ended"} \cup BqWaits \cup BqWakes)

LEMMA BqThreadHandover ==
  ASSUME BqTyped, BqHandover, NEW t \in BqThread,
         \/ \E patience \in {"patient", "impatient", "none"} : BqPop(t, patience)
         \/ BqWaitEnds(t) \/ BqGoOn(t) \/ BqEnd(t)
  PROVE  BqTyped' /\ BqHandover' /\ BqMayGo(t) /\ UNCHANGED <<bqOwners, bqRuns>>
<1>0. BqTypes /\ bqAt \in [BqThread -> BqPlaces]
  BY DEF BqTyped, BqTypes
<1>1. ASSUME NEW patience \in {"patient", "impatient", "none"}, BqPop(t, patience)
      PROVE  BqPops(t) /\ bqAt[t] = "running" /\ UNCHANGED <<bqClosed, bqPushes, bqTaken, bqOwners, bqRuns>>
  <2>1. CASE BqShouldWait /\ patience # "none"
    BY <1>1, <2>1 DEF BqWaits, BqShouldWait, BqPop, BqPops
  <2>2. CASE ~(BqShouldWait /\ patience # "none")
    BY <1>1, <2>2 DEF BqPop, BqPops, BqTake
  <2> QED BY <2>1, <2>2
<1>2. ASSUME BqGoOn(t)
      PROVE  BqPops(t) /\ bqAt[t] \in BqWakes /\ UNCHANGED <<bqClosed, bqPushes, bqTaken, bqOwners, bqRuns>>
  <2>1. CASE BqShouldWait /\ bqAt[t] # "late"
    BY <1>0, <1>2, <2>1, BqPlaceFacts, BqSets DEF BqGoOn, BqPops, BqShouldWait
  <2>2. CASE ~(BqShouldWait /\ bqAt[t] # "late")
    BY <1>2, <2>2, BqSets DEF BqGoOn, BqPops, BqTake
  <2> QED BY <2>1, <2>2
<1>3. ASSUME BqPops(t), bqAt[t] \in {"running"} \cup BqWakes,
             UNCHANGED <<bqClosed, bqPushes, bqTaken, bqOwners, bqRuns>>
      PROVE  BqTyped' /\ BqHandover' /\ BqMayGo(t)
  BY <1>0, <1>3, BqPlaceFacts, BqPopsHandover DEF BqPops, BqTyped, BqTypes, bqOwners, BqMayGo
<1>4. ASSUME BqWaitEnds(t)
      PROVE  BqTyped' /\ BqHandover' /\ BqMayGo(t) /\ UNCHANGED <<bqOwners, bqRuns>>
  <2>0. t \in BqWaiting /\ bqAt[t] \in BqWaits
    BY <1>4, BqSets DEF BqWaitEnds
  <2>1. PICK x \in BqWakes : bqAt' = [bqAt EXCEPT ![t] = x]
    BY <1>4, BqPlaceFacts DEF BqWokenUp, BqWaitEnds, BqWake
  <2>2. x \in BqPlaces /\ x \notin BqWaits /\ x # "starting"
    BY BqPlaceFacts
  <2>3. BqWaiting' = BqWaiting \ {t} /\ BqWoken' = BqWoken \cup {t}
        /\ bqAt' \in [BqThread -> BqPlaces]
        /\ \A u \in BqThread : bqAt'[u] = IF u = t THEN x ELSE bqAt[u]
    BY <1>0, <2>1, <2>2, BqMoves
  <2>5. Cardinality(BqWoken') = Cardinality(BqWoken) + 1 /\ Cardinality(BqWoken) \in Nat
    BY <1>0, <2>0, <2>3, BqCounts, BqSets, BqPlaceFacts
  <2>7. UNCHANGED <<bqQueue, bqOwners, bqRuns>>
    BY <1>4 DEF BqWaitEnds
  <2>8. BqHandover'
    BY <1>0, <2>0, <2>3, <2>5, <2>7, SequenceMoves DEF BqHandover, bqQueue, BqTypes
  <2> QED BY <2>0, <2>2, <2>3, <2>7, <2>8 DEF BqMayGo, BqTyped, BqTypes, bqQueue, bqOwners
<1>5. ASSUME BqEnd(t)
      PROVE  BqTyped' /\ BqHandover' /\ BqMayGo(t) /\ UNCHANGED <<bqOwners, bqRuns>>
  <2>1. /\ "ended" \in BqPlaces /\ "ended" \notin BqWaits /\ "ended" \notin BqWakes
        /\ bqAt[t] \notin BqWaits /\ bqAt[t] \notin BqWakes
    BY <1>5, BqPlaceFacts DEF BqEnd
  <2>2. BqWaiting' = BqWaiting \ {t} /\ BqWoken' = BqWoken \ {t}
        /\ bqAt' \in [BqThread -> BqPlaces]
        /\ \A u \in BqThread : bqAt'[u] = IF u = t THEN "ended" ELSE bqAt[u]
    BY <1>0, <1>5, <2>1, BqMoves DEF BqEnd
  <2>4. UNCHANGED <<bqQueue, bqOwners, bqRuns>>
    BY <1>5 DEF BqEnd
  <2>5. BqHandover'
    BY <2>1, <2>2, <2>4, BqSets DEF BqHandover, bqQueue
  <2>6. BqTyped'
    BY <2>2, <2>4 DEF BqTyped, BqTypes, bqQueue, bqOwners
  <2> QED BY <1>5, <2>2, <2>4, <2>5, <2>6 DEF BqMayGo, BqEnd
<1> QED
  <2>1. CASE \E patience \in {"patient", "impatient", "none"} : BqPop(t, patience)
    BY <1>1, <1>3, <2>1
  <2>2. CASE BqGoOn(t)
    BY <1>2, <1>3, <2>2
  <2> QED BY <2>1, <2>2, <1>4, <1>5

-----------------------------------------------------------------------------
(* The threads and their owners *)

BqRules(t) ==
  /\ bqState[t] = "new" => bqAt[t] = "none"
  /\ bqAt[t] \in {"none", "starting"} => bqRuns[t] = 0
  /\ bqRuns[t] <= 1
  /\ bqState[t] = "deleted" => bqAt[t] \in {"none", "ended"} /\ t \notin bqRunnable
  /\ bqState[t] # "deleted" => t \in bqRunnable
  /\ bqState[t] = "joined" => bqAt[t] = "ended"

BqOwned == \A t \in BqThread \ bqRude : BqRules(t)

(* A step on the queue takes no thread to its start or from its end        *)
LEMMA BqQueueOwned ==
  ASSUME BqOwned, UNCHANGED <<bqOwners, bqRuns>>,
         \A u \in BqThread :
           \/ bqAt'[u] = bqAt[u]
           \/ /\ bqAt[u] \in {"running"} \cup BqWaits \cup BqWakes
              /\ bqAt'[u] \in {"running", "ended"} \cup BqWaits \cup BqWakes
  PROVE  BqOwned'
<1>3. ASSUME NEW t \in BqThread \ bqRude PROVE BqRules(t)'
  <2>1. BqRules(t)
    BY DEF BqOwned
  <2>2. CASE bqAt'[t] = bqAt[t]
    BY <2>1, <2>2 DEF BqRules, bqOwners
  <2>3. CASE /\ bqAt[t] \in {"running"} \cup BqWaits \cup BqWakes
             /\ bqAt'[t] \in {"running", "ended"} \cup BqWaits \cup BqWakes
    BY <2>1, <2>3 DEF BqRules, bqOwners, BqWaits, BqWakes
  <2> QED BY <2>2, <2>3
<1> QED BY <1>3 DEF BqOwned, bqOwners

LEMMA BqOwnerStep ==
  ASSUME BqTyped, BqHandover, BqOwned, NEW t \in BqThread,
         BqLaunch(t) \/ BqName(t) \/ BqThreadFunc(t) \/ BqJoin(t) \/ BqDelete(t)
  PROVE  BqTyped' /\ BqHandover' /\ BqOwned'
<1>0. BqTypes /\ bqAt \in [BqThread -> BqPlaces] /\ bqState \in [BqThread -> BqStates]
      /\ bqRuns \in [BqThread -> 0..2]
  BY DEF BqTyped, BqTypes
<1>1. UNCHANGED bqQueue
  BY DEF BqLaunch, BqName, BqThreadFunc, BqJoin, BqDelete
<1>2. BqWaiting' = BqWaiting /\ BqWoken' = BqWoken /\ bqAt' \in [BqThread -> BqPlaces]
  <2>1. CASE UNCHANGED bqAt
    BY <1>0, <2>1 DEF BqWaiting, BqWoken
  <2>2. CASE bqAt[t] \in {"none", "ended", "starting"}
             /\ \E x \in {"starting", "lost", "running"} : bqAt' = [bqAt EXCEPT ![t] = x]
    <3>1. PICK x \in {"starting", "lost", "running"} : bqAt' = [bqAt EXCEPT ![t] = x]
      BY <2>2
    <3>3. BqWaiting' = BqWaiting \ {t} /\ BqWoken' = BqWoken \ {t}
          /\ bqAt' \in [BqThread -> BqPlaces]
      BY <1>0, <3>1, BqMoves, BqPlaceFacts
    <3> QED BY <2>2, <3>3, BqSets, BqPlaceFacts
  <2> QED BY <2>1, <2>2 DEF BqLaunch, BqName, BqThreadFunc, BqJoin, BqDelete
<1>3. BqHandover'
  BY <1>1, <1>2 DEF BqHandover, bqQueue
<1>4. CASE BqLaunch(t)
  <2>1. /\ bqState[t] = "new" /\ bqRuns[t] < 2
        /\ bqState' = [bqState EXCEPT ![t] = "created"]
        /\ bqAt' = [bqAt EXCEPT ![t] = "starting"]
        /\ UNCHANGED <<bqRunnable, bqRude, bqRuns>>
    BY <1>4 DEF BqLaunch
  <2>2. BqTyped'
    BY <1>1, <1>2, <2>1 DEF BqTyped, BqTypes, BqStates, bqQueue
  <2> QED BY <1>0, <1>3, <2>1, <2>2 DEF BqOwned, BqRules
<1>5. CASE BqName(t)
  <2>1. /\ bqState[t] = "created" /\ UNCHANGED <<bqRunnable, bqAt, bqRuns>>
        /\ bqState' = [bqState EXCEPT ![t] = IF bqAt[t] = "ended" THEN "new" ELSE "joinable"]
        /\ bqRude' = IF bqAt[t] = "ended" THEN bqRude \cup {t} ELSE bqRude
    BY <1>5 DEF BqName
  <2>2. BqTyped'
    BY <1>1, <1>2, <2>1 DEF BqTyped, BqTypes, BqStates, bqQueue
  <2> QED BY <1>0, <1>3, <2>1, <2>2 DEF BqOwned, BqRules
<1>6. CASE BqThreadFunc(t)
  <2>1. /\ bqAt[t] = "starting" /\ UNCHANGED <<bqState, bqRunnable, bqRude>>
        /\ \/ /\ bqState[t] = "deleted" /\ bqAt' = [bqAt EXCEPT ![t] = "lost"]
              /\ UNCHANGED bqRuns
           \/ /\ bqState[t] # "deleted" /\ bqAt' = [bqAt EXCEPT ![t] = "running"]
              /\ bqRuns' = [bqRuns EXCEPT ![t] = @ + 1]
    BY <1>6 DEF BqThreadFunc, bqOwners
  <2>3. BqTyped'
    BY <1>0, <1>1, <1>2, <2>1 DEF BqTyped, BqTypes, bqQueue
  <2> QED BY <1>0, <1>3, <2>1, <2>3 DEF BqOwned, BqRules
<1>7. CASE BqJoin(t)
  <2>1. /\ bqState[t] = "joinable" /\ bqAt[t] = "ended"
        /\ bqState' = [bqState EXCEPT ![t] = "joined"]
        /\ UNCHANGED <<bqRunnable, bqRude, bqAt, bqRuns>>
    BY <1>7 DEF BqJoin, BqIsOver
  <2>3. \A u \in BqThread \ bqRude : BqRules(u)'
    BY <1>0, <2>1 DEF BqOwned, BqRules
  <2> QED BY <1>1, <1>2, <1>3, <2>1, <2>3 DEF BqOwned, BqTyped, BqTypes, BqStates, bqQueue
<1>8. CASE BqDelete(t)
  <2>1. /\ bqState[t] \in {"new", "joinable", "joined"} /\ UNCHANGED <<bqAt, bqRuns>>
        /\ bqState' = [bqState EXCEPT ![t] = "deleted"]
        /\ bqRunnable' = IF bqState[t] = "joinable" THEN bqRunnable ELSE bqRunnable \ {t}
        /\ bqRude' = IF bqState[t] = "joinable" THEN bqRude \cup {t} ELSE bqRude
    BY <1>8 DEF BqDelete
  <2>3. \A u \in BqThread \ bqRude' : BqRules(u)'
    BY <1>0, <2>1 DEF BqOwned, BqRules
  <2> QED BY <1>0, <1>1, <1>2, <1>3, <2>1, <2>3 DEF BqOwned, BqTyped, BqTypes, BqStates, bqQueue
<1> QED BY <1>4, <1>5, <1>6, <1>7, <1>8

BqInv == BqTyped /\ BqHandover /\ BqOwned

LEMMA BqStep ==
  ASSUME BqTyped, BqHandover, BqOwned, [BqNext]_bqVars
  PROVE  BqTyped' /\ BqHandover' /\ BqOwned'
<1>0. \A x \in BqWaits \cup BqWakes :
         x \in {"running"} \cup BqWaits \cup BqWakes /\ x \in {"running", "ended"} \cup BqWaits \cup BqWakes
  OBVIOUS
<1>1. CASE BqPush
  BY <1>0, <1>1, BqPushHandover, BqQueueOwned DEF BqPush
<1>2. CASE BqClose
  BY <1>0, <1>2, BqCloseHandover, BqQueueOwned DEF BqClose
<1>3. ASSUME NEW t \in BqThread,
             \/ \E patience \in {"patient", "impatient", "none"} : BqPop(t, patience)
             \/ BqWaitEnds(t) \/ BqGoOn(t) \/ BqEnd(t)
      PROVE  BqTyped' /\ BqHandover' /\ BqOwned'
  BY <1>3, BqThreadHandover, BqQueueOwned DEF BqMayGo
<1>4. ASSUME NEW t \in BqThread,
             BqLaunch(t) \/ BqName(t) \/ BqThreadFunc(t) \/ BqJoin(t) \/ BqDelete(t)
      PROVE  BqTyped' /\ BqHandover' /\ BqOwned'
  BY <1>4, BqOwnerStep
<1>5. CASE UNCHANGED bqVars
  <2>1. UNCHANGED <<bqQueue, bqOwners, bqAt, bqRuns>>
    BY <1>5 DEF bqVars
  <2>2. BqTyped'
    BY <2>1 DEF BqTyped, BqTypes, bqQueue, bqOwners
  <2> QED BY <2>1, <2>2, BqQueueOwned DEF BqHandover, BqWaiting, BqWoken, bqQueue
<1> QED BY <1>1, <1>2, <1>3, <1>4, <1>5 DEF BqNext

LEMMA BqInvInit == BqInit => BqInv
<1> SUFFICES ASSUME BqInit PROVE BqInv
  OBVIOUS
<1>1. bqItems \in Seq(BqItem) /\ bqTaken \in Seq(BqItem) /\ bqPopped \in Seq(BqItem)
      /\ bqPopped \o bqItems = bqTaken
  BY EmptySeq, ConcatEmptySeq DEF BqInit
<1>2. BqTyped
  <2>4. bqClosed \in BOOLEAN
    BY DEF BqInit
  <2> QED BY <1>1, <2>4, BqPlaceFacts, BqAssumption DEF BqInit, BqTyped, BqTypes, BqStates
<1>4. BqOwned
  BY DEF BqInit, BqOwned, BqRules
<1> QED BY <1>1, <1>2, <1>4 DEF BqInv, BqInit, BqHandover, BqWaiting

LEMMA HandoverPart == BatchSpec => []BqInv
<1>1. BatchInit => BqInv
  BY BqInvInit DEF BatchInit
<1>2. BqInv /\ [BatchNext]_batchVars => BqInv'
  <2> SUFFICES ASSUME BqTyped, BqHandover, BqOwned, [BatchNext]_batchVars PROVE BqInv'
    BY DEF BqInv
  <2>1. [BqNext]_bqVars
    BY DEF BatchNext, AdapterStep, FrameworkStep, BatteryStep, StoreStep, HandoverStep,
           CardsStep, batchVars, utilityVars
  <2> QED BY <2>1, BqStep DEF BqInv
<1> QED BY <1>1, <1>2, PTL DEF BatchSpec

(* However many threads pop, wait for a time or for ever and are woken for *)
(* no reason: none of them sleeps while there is an item nobody was woken  *)
(* for, what was pushed is popped once, in order, and a Runnable is there  *)
(* for as long as it runs (sync.cpp:342-509, 555-724, 764-885).            *)
THEOREM QueuesAlwaysHandOver == BatchSpec => []QueuesHandOver
<1>1. BqInv => QueuesHandOver
  <2> SUFFICES ASSUME BqTyped, BqHandover, BqOwned PROVE QueuesHandOver
    BY DEF BqInv
  <2>1. NobodySleepsOverAnItem
    BY DEF NobodySleepsOverAnItem, BqHandover
  <2> QED BY <2>1 DEF QueuesHandOver, RunnablesAreThereWhileTheyRun, BqOwned, BqRules
<1> QED BY <1>1, HandoverPart, PTL

-----------------------------------------------------------------------------
(* Postcards: sequences of whatever there is *)

PcListed(s) == s \in Seq({s[i] : i \in DOMAIN s})

LEMMA PcEmpty == PcListed(<<>>) /\ Len(<<>>) = 0
  BY DEF PcListed

LEMMA PcLongs ==
  ASSUME NEW s, PcListed(s)
  PROVE  Len(s) \in Nat /\ DOMAIN s = 1..Len(s)
  BY DEF PcListed

LEMMA PcAppends ==
  ASSUME NEW s, PcListed(s), NEW x
  PROVE  /\ PcListed(Append(s, x)) /\ Len(Append(s, x)) = Len(s) + 1
         /\ Append(s, x)[Len(s) + 1] = x
         /\ \A i \in 1..Len(s) : Append(s, x)[i] = s[i]
<1> DEFINE S == {s[i] : i \in DOMAIN s}
           T == S \cup {x}
           q == Append(s, x)
<1>1. s \in Seq(T) /\ x \in T
  BY DEF PcListed
<1> HIDE DEF T
<1>2. q \in Seq(T) /\ Len(q) = Len(s) + 1 /\ q[Len(s) + 1] = x
      /\ \A i \in 1..Len(s) : q[i] = s[i]
  BY <1>1
<1> HIDE DEF q
<1>3. q \in [1..Len(q) -> {q[i] : i \in DOMAIN q}] /\ Len(q) \in Nat
  BY <1>2
<1>4. PcListed(q)
  BY <1>3 DEF PcListed
<1> QED BY <1>2, <1>4 DEF q

-----------------------------------------------------------------------------
(* Reading: how many fields match before one of them, and what findField   *)
(* finds behind fields that it can pass                                    *)

PcMatchesAt(s, type, name) == {i \in 1..Len(s) : PcMatches(s[i].field, type, name)}
PcBefore(s, type, name, i) == {j \in PcMatchesAt(s, type, name) : j < i}

LEMMA PcCountsRise ==
  ASSUME NEW s, PcListed(s), NEW type, NEW name
  PROVE  \A i, k \in PcMatchesAt(s, type, name) :
              i < k => Cardinality(PcBefore(s, type, name, i))
                         < Cardinality(PcBefore(s, type, name, k))
<1> DEFINE M == PcMatchesAt(s, type, name)
           B(i) == PcBefore(s, type, name, i)
<1>1. Len(s) \in Nat /\ M \subseteq 1..Len(s)
  BY PcLongs DEF PcMatchesAt
<1>2. \A i : IsFiniteSet(B(i)) /\ Cardinality(B(i)) \in Nat
  <2> TAKE i
  <2>1. B(i) \in SUBSET (1..Len(s)) /\ IsFiniteSet(1..Len(s))
    BY <1>1, FS_Interval DEF PcBefore
  <2> QED BY <2>1, FS_Subset, FS_CardinalityType
<1>3. ASSUME NEW i \in M, NEW k \in M, i < k
      PROVE  Cardinality(B(i)) < Cardinality(B(k))
  <2>1. i \notin B(i) /\ B(i) \cup {i} \in SUBSET B(k)
    BY <1>1, <1>3 DEF PcBefore
  <2>2. Cardinality(B(i) \cup {i}) = Cardinality(B(i)) + 1
    BY <1>2, <2>1, FS_AddElement
  <2>3. Cardinality(B(i) \cup {i}) <= Cardinality(B(k))
    BY <1>2, <2>1, FS_Subset
  <2> QED BY <1>2, <2>2, <2>3
<1> QED BY <1>3


PcWantedAt(s, type, name, index) ==
  {i \in PcMatchesAt(s, type, name) : Cardinality(PcBefore(s, type, name, i)) = index}

LEMMA PcOnlyOne ==
  ASSUME NEW s, PcListed(s), NEW type, NEW name, NEW index,
         NEW i \in PcWantedAt(s, type, name, index), NEW k \in PcWantedAt(s, type, name, index)
  PROVE  i = k
<1> SUFFICES ASSUME i # k PROVE FALSE
  OBVIOUS
<1>1. /\ i \in PcMatchesAt(s, type, name) /\ k \in PcMatchesAt(s, type, name)
      /\ Cardinality(PcBefore(s, type, name, i)) = index
      /\ Cardinality(PcBefore(s, type, name, k)) = index
  BY DEF PcWantedAt
<1>2. Len(s) \in Nat
  BY PcLongs
<1>3. i < k \/ k < i
  BY <1>1, <1>2 DEF PcMatchesAt
<1>4. index \in Nat
  <2>1. PcBefore(s, type, name, i) \in SUBSET (1..Len(s))
    BY DEF PcBefore, PcMatchesAt
  <2>2. IsFiniteSet(1..Len(s))
    BY <1>2, FS_Interval
  <2>3. IsFiniteSet(PcBefore(s, type, name, i))
    BY <2>1, <2>2, FS_Subset
  <2> QED BY <1>1, <2>3, FS_CardinalityType
<1> QED BY <1>1, <1>3, <1>4, PcCountsRise

(* Behind n fields that are passed the walk is at the end of the stream,   *)
(* at the field that is looked for, or where it ends in vain               *)
PcFoundBehind(card, type, name, index, n) ==
  LET found == PcFind(card, type, name, index)
      got == PcGet(card, type, name, index) IN
  /\ \A i \in PcWantedAt(card.stream, type, name, index) :
       i <= n => found = [end |-> "found", at |-> i] /\ got = found
  /\ (\A i \in PcWantedAt(card.stream, type, name, index) : i > n) =>
       /\ got.end # "found"
       /\ n = Len(card.stream) => (got.end = "absent" <=> card.state = "final")

LEMMA PcFindIs ==
  ASSUME NEW card, PcListed(card.stream), NEW type, NEW name, NEW index,
         NEW n \in 0..Len(card.stream), \A i \in 1..n : PcPasses(card.stream[i]),
         n < Len(card.stream) => ~PcPasses(card.stream[n + 1])
  PROVE  PcFoundBehind(card, type, name, index, n)
<1> DEFINE s == card.stream
           found == PcFind(card, type, name, index)
           got == PcGet(card, type, name, index)
           wanted == PcWantedAt(s, type, name, index)
           ends == wanted \cup {i \in 1..Len(s) : ~PcPasses(s[i])}
           last == CHOOSE i \in ends : \A j \in ends : i <= j
<1>1. Len(s) \in Nat /\ wanted \subseteq 1..Len(s) /\ ends \subseteq 1..Len(s)
  BY PcLongs DEF PcWantedAt, PcMatchesAt
<1>2. found = IF ends = {} THEN IF card.state = "final" THEN PcAbsent ELSE PcBroken
              ELSE IF last \in wanted THEN [end |-> "found", at |-> last] ELSE PcBroken
  BY DEF PcFind, PcWantedAt, PcMatchesAt, PcBefore
<1>3. got = IF found.end = "found" /\ ~PcPasses(s[found.at]) THEN PcBroken ELSE found
  BY DEF PcGet
<1>4. ends # {} => last \in ends /\ \A j \in ends : last <= j
  <2> SUFFICES ASSUME ends # {} PROVE \E i \in ends : \A j \in ends : i <= j
    OBVIOUS
  <2>1. ends \subseteq Nat
    BY <1>1
  <2> HIDE DEF ends
  <2> QED BY <2>1, LeastNumber
<1>5. \A i, k \in wanted : i = k
  BY PcOnlyOne
<1>6. \A i \in ends : i <= n => i \in wanted
  BY <1>1
<1>7. ASSUME NEW i \in wanted, i <= n
      PROVE  found = [end |-> "found", at |-> i] /\ got = found
  <2>1. last \in wanted /\ ends # {}
    BY <1>1, <1>4, <1>6, <1>7
  <2>2. last = i
    BY <1>5, <1>7, <2>1
  <2> HIDE DEF last, ends, wanted
  <2>3. found = [end |-> "found", at |-> i]
    BY <1>2, <2>1, <2>2
  <2>4. PcPasses(s[i])
    BY <1>1, <1>7
  <2> QED BY <1>3, <2>3, <2>4
<1>8. ASSUME \A i \in wanted : i > n
      PROVE  /\ got.end # "found"
             /\ n = Len(s) => (got.end = "absent" <=> card.state = "final")
  <2>1. CASE ends = {}
    <3> HIDE DEF ends
    <3> QED BY <1>2, <1>3, <2>1 DEF PcAbsent, PcBroken
  <2>2. CASE ends # {}
    <3>1. last \in ends /\ last > n
      BY <1>1, <1>4, <1>6, <1>8, <2>2
    <3>2. n < Len(s) /\ n + 1 \in ends
      BY <1>1, <3>1
    <3>3. last = n + 1
      BY <1>1, <1>4, <3>1, <3>2
    <3>4. ~PcPasses(s[last])
      BY <3>2, <3>3
    <3> HIDE DEF last, ends, wanted
    <3>5. got = PcBroken
      BY <1>2, <1>3, <2>2, <3>4 DEF PcBroken
    <3> QED BY <3>2, <3>5 DEF PcBroken
  <2> QED BY <2>1, <2>2
<1> QED BY <1>7, <1>8 DEF PcFoundBehind


-----------------------------------------------------------------------------
(* Postcards: what holds of a card                                         *)

PcStates == {"new", "add", "final"}

(* Types; what a card has in it is of no type, for it may be other cards   *)
PcTyped ==
  /\ pcCard = [c \in PcCard |-> pcCard[c]] /\ pcAdded = [c \in PcCard |-> pcAdded[c]]
  /\ pcTorn \in [PcCard -> 0..MaxPcAdds]
  /\ \A c \in PcCard :
       /\ pcCard[c] = [state |-> pcCard[c].state, stream |-> pcCard[c].stream]
       /\ pcCard[c].state \in PcStates
       /\ PcListed(pcCard[c].stream) /\ PcListed(pcAdded[c])
       /\ Len(pcCard[c].stream) <= MaxPcAdds

PcFieldOK(field) == field.type \in PcType /\ field.name \in PcName /\ field.size \in PcSizes[field.type]

PcFieldsOK ==
  \A c \in PcCard : \A i \in 1..Len(pcCard[c].stream) : PcFieldOK(pcCard[c].stream[i].field)

(* Until an add fails half way the stream has what was added, field by     *)
(* field, and then the field that has no bytes                             *)
PcInStep ==
  \A c \in PcCard :
    /\ Len(pcAdded[c]) <= Len(pcCard[c].stream)
    /\ pcTorn[c] = MaxPcAdds => Len(pcAdded[c]) = Len(pcCard[c].stream)
    /\ pcTorn[c] < MaxPcAdds => /\ pcTorn[c] <= Len(pcAdded[c])
                                /\ pcTorn[c] < Len(pcCard[c].stream)
                                /\ pcCard[c].stream[pcTorn[c] + 1].field.size = 0
    /\ \A i \in 1..Len(pcAdded[c]) : i <= pcTorn[c] =>
         /\ pcCard[c].stream[i].field = pcAdded[c][i].field
         /\ pcAdded[c][i].field.size > 0

(* A card within another is one that was complete *)
PcWithin ==
  \A c \in PcCard : \A i \in 1..Len(pcAdded[c]) :
    i <= pcTorn[c] /\ pcAdded[c][i].field.type = "card" =>
      /\ pcAdded[c][i].of \in PcCard /\ pcCard[pcAdded[c][i].of].state = "final"
      /\ pcCard[c].stream[i].inner = pcCard[pcAdded[c][i].of]

PcInv == PcTyped /\ PcFieldsOK /\ PcInStep /\ PcWithin

LEMMA PcInvInit == PcInit => PcInv
<1> SUFFICES ASSUME PcInit PROVE PcInv
  OBVIOUS
<1>1. MaxPcAdds \in 0..MaxPcAdds /\ MaxPcAdds \in Nat
  BY PcAssumption
<1>2. \A c \in PcCard : pcCard[c] = PcNew /\ pcAdded[c] = <<>> /\ pcTorn[c] = MaxPcAdds
  BY DEF PcInit
<1>3. PcTyped
  BY <1>1, <1>2, PcEmpty DEF PcInit, PcTyped, PcNew, PcStates
<1>4. PcFieldsOK /\ PcInStep /\ PcWithin
  BY <1>1, <1>2, PcEmpty DEF PcFieldsOK, PcInStep, PcWithin, PcNew
<1> QED BY <1>3, <1>4 DEF PcInv

(* init and finalize of a card: no complete card changes                   *)
LEMMA PcStateChanges ==
  ASSUME PcInv, NEW c \in PcCard, pcCard[c].state # "final", NEW state \in PcStates,
         pcCard' = [pcCard EXCEPT ![c].state = state], UNCHANGED <<pcAdded, pcTorn>>
  PROVE  PcInv'
<1>1. /\ pcCard' = [d \in PcCard |-> pcCard'[d]]
      /\ pcCard'[c] = [state |-> state, stream |-> pcCard[c].stream]
      /\ \A d \in PcCard : d # c => pcCard'[d] = pcCard[d]
  <2>1. pcCard = [d \in PcCard |-> pcCard[d]]
    BY DEF PcInv, PcTyped
  <2>2. PICK r : r = pcCard[c]
    OBVIOUS
  <2>3. r = [state |-> r.state, stream |-> r.stream]
    BY <2>2 DEF PcInv, PcTyped
  <2>4. [r EXCEPT !.state = state] = [state |-> state, stream |-> r.stream]
    BY <2>3
  <2>5. pcCard' = [pcCard EXCEPT ![c] = [r EXCEPT !.state = state]]
    BY <2>2
  <2> QED BY <2>1, <2>2, <2>4, <2>5
<1>2. \A d \in PcCard : pcCard'[d].stream = pcCard[d].stream
  BY <1>1
<1>3. PcTyped'
  <2>1. \A d \in PcCard :
          /\ pcCard'[d] = [state |-> pcCard'[d].state, stream |-> pcCard'[d].stream]
          /\ pcCard'[d].state \in PcStates
    BY <1>1 DEF PcInv, PcTyped
  <2> QED BY <1>1, <1>2, <2>1 DEF PcInv, PcTyped
<1>4. PcFieldsOK'
  BY <1>2 DEF PcInv, PcFieldsOK
<1>5. PcInStep'
  BY <1>2 DEF PcInv, PcInStep
<1>6. PcWithin'
  BY <1>1, <1>2 DEF PcInv, PcWithin
<1> QED BY <1>3, <1>4, <1>5, <1>6 DEF PcInv

LEMMA PcAppendKeeps ==
  ASSUME PcInv, NEW c \in PcCard, NEW field, PcFieldOK(field), NEW inner, NEW of,
         field.type = "card" => of \in PcCard /\ of # c /\ pcCard[of].state = "final"
                                /\ inner = pcCard[of],
         PcAppend(c, field, inner, of)
  PROVE  PcInv'
<1> DEFINE s == pcCard[c].stream
           u == pcAdded[c]
           node == [field |-> field, inner |-> inner]
           entry == [field |-> field, of |-> of]
<1>1. /\ pcCard[c].state = "add" /\ Len(s) < MaxPcAdds
      /\ pcCard' = [pcCard EXCEPT ![c].stream = Append(s, node)]
      /\ \/ /\ field.size = 0 /\ pcAdded' = pcAdded
            /\ pcTorn' = [pcTorn EXCEPT ![c] = IF @ < MaxPcAdds THEN @ ELSE Len(u)]
         \/ /\ field.size # 0 /\ pcTorn' = pcTorn
            /\ pcAdded' = [pcAdded EXCEPT ![c] = Append(u, entry)]
  BY DEF PcAppend, PcCalls
<1>2. field.size \in {0, 1}
  BY DEF PcFieldOK, PcType, PcSizes
<1>3. /\ pcCard' = [d \in PcCard |-> pcCard'[d]]
      /\ pcCard'[c] = [state |-> "add", stream |-> Append(s, node)]
      /\ \A d \in PcCard : d # c => pcCard'[d] = pcCard[d]
  <2>1. pcCard = [d \in PcCard |-> pcCard[d]]
    BY DEF PcInv, PcTyped
  <2>2. PICK r, q : r = pcCard[c] /\ q = Append(s, node)
    OBVIOUS
  <2>3. r = [state |-> "add", stream |-> r.stream]
    BY <1>1, <2>2 DEF PcInv, PcTyped
  <2>4. [r EXCEPT !.stream = q] = [state |-> "add", stream |-> q]
    BY <2>3
  <2>5. pcCard' = [pcCard EXCEPT ![c] = [r EXCEPT !.stream = q]]
    BY <1>1, <2>2
  <2> QED BY <2>1, <2>2, <2>4, <2>5
<1>4. PICK t : t = pcCard'[c].stream
  OBVIOUS
<1>5. /\ Len(s) \in Nat /\ PcListed(t) /\ Len(t) = Len(s) + 1 /\ t[Len(s) + 1] = node
      /\ \A i \in 1..Len(s) : t[i] = s[i]
  <2>1. PcListed(s) /\ t = Append(s, node)
    BY <1>3, <1>4 DEF PcInv, PcTyped
  <2> QED BY <2>1, PcAppends, PcLongs
<1>6. MaxPcAdds \in Nat /\ pcTorn[c] \in 0..MaxPcAdds /\ Len(u) \in Nat
  BY PcAssumption, PcLongs DEF PcInv, PcTyped
<1>7. /\ \A d \in PcCard : d # c => pcAdded'[d] = pcAdded[d] /\ pcTorn'[d] = pcTorn[d]
      /\ pcAdded' = [d \in PcCard |-> pcAdded'[d]]
      /\ pcTorn' = [d \in PcCard |-> pcTorn'[d]]
  BY <1>1 DEF PcInv, PcTyped
<1>8. PICK v : v = pcAdded'[c]
  OBVIOUS
<1>9. \/ /\ field.size = 0 /\ v = u
         /\ pcTorn'[c] = IF pcTorn[c] < MaxPcAdds THEN pcTorn[c] ELSE Len(u)
      \/ field.size = 1 /\ v = Append(u, entry) /\ pcTorn'[c] = pcTorn[c]
  BY <1>1, <1>2, <1>8 DEF PcInv, PcTyped
<1>10. /\ PcListed(v) /\ Len(v) \in {Len(u), Len(u) + 1}
       /\ \A i \in 1..Len(u) : v[i] = u[i]
       /\ field.size = 1 => Len(v) = Len(u) + 1 /\ v[Len(u) + 1] = entry
       /\ field.size = 0 => Len(v) = Len(u)
  <2>1. PcListed(u)
    BY DEF PcInv, PcTyped
  <2>2. /\ PcListed(Append(u, entry)) /\ Len(Append(u, entry)) = Len(u) + 1
        /\ Append(u, entry)[Len(u) + 1] = entry
        /\ \A i \in 1..Len(u) : Append(u, entry)[i] = u[i]
    BY <2>1, PcAppends
  <2> HIDE DEF u, entry
  <2>3. CASE v = u /\ field.size = 0
    BY <2>1, <2>3
  <2>4. CASE v = Append(u, entry) /\ field.size = 1
    BY <2>2, <2>4
  <2> QED BY <1>9, <2>3, <2>4
<1>11. /\ Len(u) <= Len(s)
       /\ pcTorn[c] = MaxPcAdds => Len(u) = Len(s)
       /\ pcTorn[c] < MaxPcAdds => /\ pcTorn[c] <= Len(u) /\ pcTorn[c] < Len(s)
                                   /\ s[pcTorn[c] + 1].field.size = 0
       /\ \A i \in 1..Len(u) : i <= pcTorn[c] => s[i].field = u[i].field /\ u[i].field.size > 0
  BY DEF PcInv, PcInStep
<1>12. \A i \in 1..Len(u) : i <= pcTorn[c] /\ u[i].field.type = "card" =>
         u[i].of \in PcCard /\ pcCard[u[i].of].state = "final" /\ s[i].inner = pcCard[u[i].of]
  BY DEF PcInv, PcWithin
<1> HIDE DEF s, u
<1>13. PICK torn : torn = pcTorn'[c]
  OBVIOUS
<1>14. node.field = field /\ node.inner = inner /\ entry.field = field /\ entry.of = of
  OBVIOUS
<1> HIDE DEF node, entry
<1>15. torn \in 0..MaxPcAdds /\ (torn < MaxPcAdds \/ torn = pcTorn[c])
  BY <1>1, <1>6, <1>9, <1>11, <1>13
<1>n. PICK ls, lu, lv, at :
        /\ ls = Len(s) /\ lu = Len(u) /\ lv = Len(v) /\ at = pcTorn[c]
        /\ ls \in Nat /\ lu \in Nat /\ lv \in Nat /\ at \in 0..MaxPcAdds
        /\ ls < MaxPcAdds /\ Len(t) = ls + 1 /\ lu <= ls
        /\ at = MaxPcAdds => lu = ls
        /\ at < MaxPcAdds => at <= lu /\ at < ls
        /\ \/ /\ field.size = 0 /\ lv = lu /\ torn = IF at < MaxPcAdds THEN at ELSE lu
           \/ field.size = 1 /\ lv = lu + 1 /\ torn = at
  <2>1. Len(u) \in Nat /\ Len(v) \in Nat /\ MaxPcAdds \in Nat
    BY <1>6, <1>10
  <2> QED BY <1>1, <1>5, <1>6, <1>9, <1>10, <1>11, <1>13, <2>1
<1>16. PcTyped'
  <2>1. \A d \in PcCard : pcTorn'[d] \in 0..MaxPcAdds
    BY <1>7, <1>13, <1>15 DEF PcInv, PcTyped
  <2>2. pcTorn' \in [PcCard -> 0..MaxPcAdds]
    BY <1>7, <2>1
  <2>3. /\ pcCard'[c] = [state |-> pcCard'[c].state, stream |-> pcCard'[c].stream]
        /\ pcCard'[c].state \in PcStates /\ Len(t) <= MaxPcAdds
    <3>1. Len(t) <= MaxPcAdds
      BY <1>1, <1>5, <1>6
    <3>2. PICK q : q = Append(s, node)
      OBVIOUS
    <3> QED BY <1>3, <3>1, <3>2 DEF PcStates
  <2>4. \A d \in PcCard :
          /\ pcCard'[d] = [state |-> pcCard'[d].state, stream |-> pcCard'[d].stream]
          /\ pcCard'[d].state \in PcStates
          /\ PcListed(pcCard'[d].stream) /\ PcListed(pcAdded'[d])
          /\ Len(pcCard'[d].stream) <= MaxPcAdds
    BY <1>3, <1>4, <1>5, <1>7, <1>8, <1>10, <2>3 DEF PcInv, PcTyped
  <2> QED BY <1>3, <1>7, <2>2, <2>4 DEF PcTyped
<1>17. PcFieldsOK'
  <2>1. ASSUME NEW i \in 1..Len(t) PROVE PcFieldOK(t[i].field)
    <3>1. CASE i \in 1..Len(s)
      <4>1. PcFieldOK(s[i].field)
        BY <3>1 DEF PcInv, PcFieldsOK, s
      <4> QED BY <1>5, <3>1, <4>1
    <3>2. CASE i \notin 1..Len(s)
      <4>1. i = Len(s) + 1
        BY <1>5, <3>2
      <4> QED BY <1>5, <1>14, <4>1
    <3> QED BY <3>1, <3>2
  <2>2. ASSUME NEW d \in PcCard, NEW i \in 1..Len(pcCard'[d].stream)
        PROVE  PcFieldOK(pcCard'[d].stream[i].field)
    <3>1. CASE d = c
      BY <1>4, <2>1, <2>2, <3>1
    <3>2. CASE d # c
      <4>1. pcCard'[d] = pcCard[d]
        BY <1>3, <3>2
      <4> QED BY <2>2, <4>1 DEF PcInv, PcFieldsOK
    <3> QED BY <3>1, <3>2
  <2> QED BY <2>2 DEF PcFieldsOK
<1>18. PcInStep'
  <2>1. /\ Len(v) <= Len(t)
        /\ torn = MaxPcAdds => Len(v) = Len(t)
        /\ torn < MaxPcAdds => torn <= Len(v) /\ torn < Len(t)
    BY <1>6, <1>n
  <2>2. torn < MaxPcAdds => t[torn + 1].field.size = 0
    <3>1. CASE at < MaxPcAdds
      <4>1. torn = at /\ at + 1 \in 1..ls /\ s[at + 1].field.size = 0
        BY <1>6, <1>11, <1>n, <3>1
      <4> QED BY <1>5, <1>n, <4>1
    <3>2. CASE at = MaxPcAdds /\ torn < MaxPcAdds
      <4>1. torn = ls /\ field.size = 0
        BY <1>6, <1>n, <3>2
      <4> QED BY <1>5, <1>14, <1>n, <4>1
    <3> QED BY <1>6, <1>n, <3>1, <3>2
  <2>3. ASSUME NEW i \in 1..Len(v), i <= torn
        PROVE  t[i].field = v[i].field /\ v[i].field.size > 0
    <3>1. CASE i <= Len(u)
      <4>1. i <= pcTorn[c] /\ i \in 1..Len(u) /\ i \in 1..Len(s)
        BY <1>6, <1>n, <2>3, <3>1
      <4> QED BY <1>5, <1>10, <1>11, <4>1
    <3>2. CASE i > Len(u)
      <4>1. field.size = 1 /\ i = Len(u) + 1 /\ torn = pcTorn[c]
        BY <1>n, <3>2
      <4>2. pcTorn[c] = MaxPcAdds /\ Len(u) = Len(s)
        BY <1>6, <1>n, <2>3, <4>1
      <4> QED BY <1>5, <1>10, <1>14, <4>1, <4>2
    <3> QED BY <1>6, <3>1, <3>2
  <2>4. ASSUME NEW d \in PcCard
        PROVE  /\ Len(pcAdded'[d]) <= Len(pcCard'[d].stream)
               /\ pcTorn'[d] = MaxPcAdds => Len(pcAdded'[d]) = Len(pcCard'[d].stream)
               /\ pcTorn'[d] < MaxPcAdds => /\ pcTorn'[d] <= Len(pcAdded'[d])
                                            /\ pcTorn'[d] < Len(pcCard'[d].stream)
                                            /\ pcCard'[d].stream[pcTorn'[d] + 1].field.size = 0
               /\ \A i \in 1..Len(pcAdded'[d]) : i <= pcTorn'[d] =>
                    /\ pcCard'[d].stream[i].field = pcAdded'[d][i].field
                    /\ pcAdded'[d][i].field.size > 0
    <3>1. CASE d = c
      BY <1>4, <1>8, <1>13, <2>1, <2>2, <2>3, <3>1
    <3>2. CASE d # c
      BY <1>3, <1>7, <3>2 DEF PcInv, PcInStep
    <3> QED BY <3>1, <3>2
  <2> QED BY <2>4 DEF PcInStep
<1>19. PcWithin'
  <2>1. \A d \in PcCard : pcCard[d].state = "final" => pcCard'[d] = pcCard[d]
    BY <1>1, <1>3
  <2>2. ASSUME NEW i \in 1..Len(v), i <= torn, v[i].field.type = "card"
        PROVE  /\ v[i].of \in PcCard /\ pcCard'[v[i].of].state = "final"
               /\ t[i].inner = pcCard'[v[i].of]
    <3>1. CASE i <= Len(u)
      <4>1. i <= pcTorn[c] /\ i \in 1..Len(u) /\ i \in 1..Len(s)
        BY <1>6, <1>n, <2>2, <3>1
      <4> QED BY <1>5, <1>10, <1>12, <2>1, <2>2, <4>1
    <3>2. CASE i > Len(u)
      <4>1. field.size = 1 /\ i = Len(u) + 1 /\ torn = pcTorn[c]
        BY <1>n, <3>2
      <4>2. pcTorn[c] = MaxPcAdds /\ Len(u) = Len(s)
        BY <1>6, <1>n, <2>2, <4>1
      <4>3. v[i] = entry /\ t[i] = node
        BY <1>5, <1>10, <4>1, <4>2
      <4> QED BY <1>14, <2>1, <2>2, <4>3
    <3> QED BY <1>6, <3>1, <3>2
  <2>3. ASSUME NEW d \in PcCard
        PROVE  \A i \in 1..Len(pcAdded'[d]) :
                 i <= pcTorn'[d] /\ pcAdded'[d][i].field.type = "card" =>
                   /\ pcAdded'[d][i].of \in PcCard /\ pcCard'[pcAdded'[d][i].of].state = "final"
                   /\ pcCard'[d].stream[i].inner = pcCard'[pcAdded'[d][i].of]
    <3>1. CASE d = c
      BY <1>4, <1>8, <1>13, <2>2, <3>1
    <3>2. CASE d # c
      BY <1>3, <1>7, <2>1, <3>2 DEF PcInv, PcWithin
    <3> QED BY <3>1, <3>2
  <2> QED BY <2>3 DEF PcWithin
<1> QED BY <1>16, <1>17, <1>18, <1>19 DEF PcInv

LEMMA PcStep == PcInv /\ [PcNext]_pcVars => PcInv'
<1> SUFFICES ASSUME PcInv, [PcNext]_pcVars PROVE PcInv'
  OBVIOUS
<1>1. ASSUME NEW c \in PcCard, PcInitCard(c)
      PROVE  PcInv'
  BY <1>1, PcStateChanges DEF PcInitCard, PcStates
<1>2. ASSUME NEW c \in PcCard, NEW type \in PcType, NEW name \in PcName, NEW size \in {0, 1},
             PcAdd(c, type, name, size)
      PROVE  PcInv'
  <2>1. PICK field : field = PcField(type, name, size, PcCalls(c) + 1)
    OBVIOUS
  <2>2. PcFieldOK(field) /\ field.type # "card"
    BY <1>2, <2>1 DEF PcAdd, PcField, PcFieldOK
  <2>3. PcAppend(c, field, PcNew, c)
    BY <1>2, <2>1 DEF PcAdd
  <2> QED BY <2>2, <2>3, PcAppendKeeps
<1>3. ASSUME NEW c \in PcCard, NEW name \in PcName, NEW d \in PcCard, PcAddCard(c, name, d)
      PROVE  PcInv'
  <2>1. PICK field : field = PcField("card", name, 1, PcCalls(c) + 1)
    OBVIOUS
  <2>2. PcFieldOK(field)
    BY <2>1 DEF PcField, PcFieldOK, PcType, PcSizes
  <2>3. PcAppend(c, field, pcCard[d], d) /\ d # c /\ pcCard[d].state = "final"
    BY <1>3, <2>1 DEF PcAddCard, PcMayEmbed
  <2> QED BY <2>2, <2>3, PcAppendKeeps
<1>4. ASSUME NEW c \in PcCard, PcFinalize(c)
      PROVE  PcInv'
  BY <1>4, PcStateChanges DEF PcFinalize, PcStates
<1>5. CASE UNCHANGED pcVars
  BY <1>5 DEF pcVars, PcInv, PcTyped, PcFieldsOK, PcInStep, PcWithin
<1> QED BY <1>1, <1>2, <1>3, <1>4, <1>5 DEF PcNext

LEMMA CardsPart == BatchSpec => []PcInv
<1>1. BatchInit => PcInv
  BY PcInvInit DEF BatchInit
<1>2. PcInv /\ [BatchNext]_batchVars => PcInv'
  <2> SUFFICES ASSUME PcInv, [BatchNext]_batchVars PROVE PcInv'
    OBVIOUS
  <2>1. [PcNext]_pcVars
    BY DEF BatchNext, AdapterStep, FrameworkStep, BatteryStep, StoreStep, HandoverStep,
           CardsStep, batchVars, utilityVars
  <2> QED BY <2>1, PcStep
<1> QED BY <1>1, <1>2, PTL DEF BatchSpec

LEMMA PcTypesHold == PcInv => PcTypeOK
  BY DEF PcInv, PcTyped, PcFieldsOK, PcFieldOK, PcInStep, PcTypeOK, PcStates

(* The walk passes what was added before an add that failed half way, and  *)
(* everything if there was none; what is looked for there is what was      *)
(* added                                                                   *)
LEMMA PcReadsBack ==
  ASSUME PcInv, NEW c \in PcCard, NEW type, NEW name, NEW index
  PROVE  LET got == PcGet(pcCard[c], type, name, index)
             wanted == PcWanted(c, type, name, index) IN
         /\ \A i \in wanted : i <= pcTorn[c] => got = [end |-> "found", at |-> i]
         /\ (\A i \in wanted : i > pcTorn[c]) =>
              /\ got.end # "found"
              /\ pcTorn[c] = MaxPcAdds => (got.end = "absent" <=> pcCard[c].state = "final")
<1> DEFINE s == pcCard[c].stream
           u == pcAdded[c]
           got == PcGet(pcCard[c], type, name, index)
           n == IF pcTorn[c] = MaxPcAdds THEN Len(s) ELSE pcTorn[c]
           hits == PcHits(c, type, name)
           matches == PcMatchesAt(s, type, name)
<1>1. /\ PcListed(s) /\ PcListed(u) /\ Len(s) \in Nat /\ Len(u) \in Nat /\ Len(s) <= MaxPcAdds
      /\ MaxPcAdds \in Nat /\ pcTorn[c] \in 0..MaxPcAdds
  BY PcAssumption, PcLongs DEF PcInv, PcTyped
<1>2. /\ Len(u) <= Len(s)
      /\ pcTorn[c] = MaxPcAdds => Len(u) = Len(s)
      /\ pcTorn[c] < MaxPcAdds => /\ pcTorn[c] <= Len(u) /\ pcTorn[c] < Len(s)
                                  /\ s[pcTorn[c] + 1].field.size = 0
      /\ \A i \in 1..Len(u) : i <= pcTorn[c] => s[i].field = u[i].field /\ u[i].field.size > 0
  BY DEF PcInv, PcInStep
<1>3. \A i \in 1..Len(u) : i <= pcTorn[c] /\ u[i].field.type = "card" =>
        s[i].inner.state = "final"
  BY DEF PcInv, PcWithin
<1>4. PICK k : k = n
  OBVIOUS
<1>5. k \in 0..Len(s) /\ k <= Len(u) /\ k <= pcTorn[c] /\ (k = pcTorn[c] \/ k = Len(u))
  BY <1>1, <1>2, <1>4
<1> HIDE DEF n
<1>6. \A i \in 1..k : PcPasses(s[i])
  <2> TAKE i \in 1..k
  <2>1. i \in 1..Len(u) /\ i <= pcTorn[c]
    BY <1>1, <1>5
  <2>2. s[i].field = u[i].field /\ s[i].field.size > 0
    BY <1>2, <2>1
  <2> QED BY <1>3, <2>1, <2>2 DEF PcPasses
<1>7. k < Len(s) => ~PcPasses(s[k + 1])
  <2> SUFFICES ASSUME k < Len(s) PROVE ~PcPasses(s[k + 1])
    OBVIOUS
  <2>1. k = pcTorn[c] /\ pcTorn[c] < MaxPcAdds
    BY <1>1, <1>4 DEF n
  <2>2. s[k + 1].field.size = 0
    BY <1>2, <2>1
  <2> QED BY <2>2 DEF PcPasses
<1>8. \A i \in 1..k : i \in hits <=> i \in matches
  <2> TAKE i \in 1..k
  <2>1. i \in 1..Len(u) /\ i \in 1..Len(s) /\ i <= pcTorn[c]
    BY <1>1, <1>2, <1>5
  <2>2. s[i].field = u[i].field
    BY <1>2, <2>1
  <2> QED BY <2>1, <2>2 DEF PcHits, PcMatchesAt, PcMatches
<1>9. \A i \in 1..k : {j \in hits : j < i} = PcBefore(s, type, name, i)
  <2> TAKE i \in 1..k
  <2>1. \A j : j \in hits \/ j \in matches => j \in Nat /\ j > 0
    BY <1>1 DEF PcHits, PcMatchesAt
  <2> HIDE DEF hits, matches
  <2>2. \A j : j \in hits /\ j < i <=> j \in matches /\ j < i
    BY <1>5, <1>8, <2>1
  <2> QED BY <2>2 DEF PcBefore, matches
<1>10. \A i \in 1..k : i \in PcWanted(c, type, name, index) <=> i \in PcWantedAt(s, type, name, index)
  BY <1>8, <1>9 DEF PcWanted, PcWantedAt
<1>11. PcWanted(c, type, name, index) \subseteq 1..Len(u)
  BY DEF PcWanted, PcHits
<1>a. PcFoundBehind(pcCard[c], type, name, index, k)
  <2>1. PICK card : card = pcCard[c]
    OBVIOUS
  <2>2. /\ PcListed(card.stream) /\ k \in 0..Len(card.stream)
        /\ \A i \in 1..k : PcPasses(card.stream[i])
        /\ k < Len(card.stream) => ~PcPasses(card.stream[k + 1])
    BY <1>1, <1>5, <1>6, <1>7, <2>1
  <2>3. PcFoundBehind(card, type, name, index, k)
    BY <2>2, PcFindIs
  <2> QED BY <2>1, <2>3
<1>b. /\ \A i \in PcWantedAt(s, type, name, index) :
           i <= k => got = [end |-> "found", at |-> i]
      /\ (\A i \in PcWantedAt(s, type, name, index) : i > k) =>
           /\ got.end # "found"
           /\ k = Len(s) => (got.end = "absent" <=> pcCard[c].state = "final")
  BY <1>a DEF PcFoundBehind
<1> HIDE DEF got, s, u, hits, matches
<1>12. ASSUME NEW i \in PcWanted(c, type, name, index), i <= pcTorn[c]
       PROVE  got = [end |-> "found", at |-> i]
  <2>1. i \in 1..k
    BY <1>1, <1>2, <1>4, <1>11, <1>12 DEF n
  <2>2. i \in PcWantedAt(s, type, name, index) /\ i <= k
    BY <1>5, <1>10, <1>12, <2>1
  <2> QED BY <1>b, <2>2
<1>13. ASSUME \A i \in PcWanted(c, type, name, index) : i > pcTorn[c]
       PROVE  /\ got.end # "found"
              /\ pcTorn[c] = MaxPcAdds => (got.end = "absent" <=> pcCard[c].state = "final")
  <2>1. PcWantedAt(s, type, name, index) \subseteq 1..Len(s)
    BY DEF PcWantedAt, PcMatchesAt
  <2>2. \A i \in PcWantedAt(s, type, name, index) : i > k
    BY <1>1, <1>5, <1>10, <1>13, <2>1
  <2>3. pcTorn[c] = MaxPcAdds => k = Len(s)
    BY <1>4 DEF n
  <2> QED BY <1>b, <2>2, <2>3
<1> QED BY <1>12, <1>13 DEF got


LEMMA CardsRead == PcInv => CardsAreReadAsWritten
<1> SUFFICES ASSUME PcInv, NEW c \in PcCard, NEW type \in PcType, NEW name \in PcName,
                    NEW index \in 0..1
             PROVE  LET got == PcGet(pcCard[c], type, name, index)
                        wanted == PcWanted(c, type, name, index) IN
                    IF \E i \in wanted : i <= pcTorn[c]
                    THEN \A i \in wanted : LET added == pcAdded[c][i] IN
                           /\ got.end = "found"
                           /\ pcCard[c].stream[got.at].field = added.field
                           /\ type = "card" => /\ pcCard[c].stream[got.at].inner = pcCard[added.of]
                                               /\ pcCard[added.of].state = "final"
                    ELSE /\ got.end # "found"
                         /\ pcTorn[c] = MaxPcAdds => (got.end = "absent" <=> pcCard[c].state = "final")
  BY DEF CardsAreReadAsWritten
<1> DEFINE got == PcGet(pcCard[c], type, name, index)
           wanted == PcWanted(c, type, name, index)
<1>1. /\ \A i \in wanted : i <= pcTorn[c] => got = [end |-> "found", at |-> i]
      /\ (\A i \in wanted : i > pcTorn[c]) =>
           /\ got.end # "found"
           /\ pcTorn[c] = MaxPcAdds => (got.end = "absent" <=> pcCard[c].state = "final")
  BY PcReadsBack
<1>2. /\ \A i \in wanted : i \in 1..Len(pcAdded[c]) /\ pcAdded[c][i].field.type = type
      /\ pcTorn[c] \in Nat /\ Len(pcAdded[c]) \in Nat
  BY PcAssumption, PcLongs DEF PcWanted, PcHits, PcInv, PcTyped
<1>3. \A i, j \in wanted : i = j
  <2>1. PICK u : u = pcAdded[c]
    OBVIOUS
  <2>2. PcListed(u)
    BY <2>1 DEF PcInv, PcTyped
  <2>3. wanted = PcWantedAt(u, type, name, index)
    BY <2>1 DEF PcWanted, PcHits, PcWantedAt, PcMatchesAt, PcMatches, PcBefore
  <2> QED BY <2>2, <2>3, PcOnlyOne
<1> HIDE DEF got, wanted
<1>4. ASSUME NEW i \in wanted, i <= pcTorn[c]
      PROVE  /\ pcCard[c].stream[i].field = pcAdded[c][i].field
             /\ type = "card" => /\ pcCard[c].stream[i].inner = pcCard[pcAdded[c][i].of]
                                 /\ pcCard[pcAdded[c][i].of].state = "final"
  BY <1>2, <1>4 DEF PcInv, PcInStep, PcWithin
<1>5. CASE \E i \in wanted : i <= pcTorn[c]
  <2>1. PICK i \in wanted : i <= pcTorn[c]
    BY <1>5
  <2>2. got.end = "found" /\ got.at = i /\ \A j \in wanted : j = i
    BY <1>1, <1>3, <2>1
  <2> QED BY <1>4, <1>5, <2>1, <2>2 DEF got, wanted
<1>6. CASE ~\E i \in wanted : i <= pcTorn[c]
  <2>1. \A i \in wanted : i > pcTorn[c]
    BY <1>2, <1>6
  <2> QED BY <1>1, <1>6, <2>1 DEF got, wanted
<1> QED BY <1>5, <1>6

(* A postcard is read as it was written: the fields that were added are     *)
(* found, by type, name and index, in the order in which they were added,   *)
(* up to where the first could not be (postcard.cpp:324-1460).              *)
THEOREM CardsAlwaysRead == BatchSpec => []CardsAreReadAsWritten
BY CardsPart, CardsRead, PTL

(* The utilities keep what they were given, whichever of them the run is of: *)
(* for any parameters, threads, items and cards, the file those of a process *)
(* that fails, the queue its items and its threads their Runnables, and a    *)
(* card its fields.                                                          *)
THEOREM UtilitiesAlwaysKeep == BatchSpec => []UtilitiesKeepTheirs
<1>1. StoreKeepsWhatWasSaved /\ QueuesHandOver /\ CardsAreReadAsWritten => UtilitiesKeepTheirs
  BY DEF UtilitiesKeepTheirs
<1> QED BY <1>1, StoreAlwaysKeeps, QueuesAlwaysHandOver, CardsAlwaysRead, PTL

-----------------------------------------------------------------------------
(* The front ends of batching: types *)

BfFronts == [state: {"STARTED", "STOPPING", "STOPPED"}, cache: Seq(BfFix),
             iface: BfCallback \cup {BfNone}]
BfHands == [at: {"idle", "enter", "tell", "clear"}, batch: Seq(BfFix)]
BfModems == [batching: BOOLEAN, fifo: Seq(BfFix)]
BfTroubles == [overlap: BOOLEAN, hasty: BOOLEAN]
BfCommand == {"start", "get", "stop"}

BfTypesNow ==
  /\ bfFront \in BfFronts
  /\ bfSteps \in [BfBinder -> Seq(BfStep)]
  /\ bfThreads \in [BfReporter -> BfHands]
  /\ bfSession \in BOOLEAN
  /\ bfAsked \in Seq(BfCommand) /\ bfStops \in {0, 1}
  /\ bfModem \in BfModems
  /\ bfReports \in Seq(Seq(BfFix)) /\ bfTold \in Seq(BfFix)
  /\ bfFixes \in 0..MaxBfEvents /\ bfOps \in 0..MaxBfEvents /\ bfOps + bfFixes <= MaxBfEvents
  /\ bfGone \subseteq BfFix /\ bfOwed \in BOOLEAN
  /\ bfTrouble \in BfTroubles

(* The operations, as they are half done *)
BfFlushing == <<"flush">>
BfStarting == <<"started", "start">>
BfToStart == <<"start">>
BfToHalt == <<"get", "stop">>
BfLast == <<"stop">>
BfCleanup == <<"unset", "stopping", "get", "stop">>
BfLeft == {<<>>, BfFlushing, BfStarting, BfToStart, BfStopSteps, BfToHalt, BfLast, BfCleanup}

BfStepsAre ==
  /\ \A b \in BfBinder : bfSteps[b] \in BfLeft
  /\ bfSteps["death"] \notin {BfFlushing, BfStarting, BfToStart}

(* Would the modem batch when the command in that place is handled?        *)
BfBatchesAt(n) ==
  \/ bfModem.batching /\ \A j \in 1..(n - 1) : bfAsked[j] # "stop"
  \/ \E k \in 1..(n - 1) :
       bfAsked[k] = "start" /\ \A j \in 1..(n - 1) : j > k => bfAsked[j] # "stop"

BfStartAt(k) == k \in 1..Len(bfAsked) /\ bfAsked[k] = "start"

(* A session is known while it is asked for, runs, or its stop is not      *)
(* answered, and never two of these.                                       *)
BfOneSession ==
  /\ \A k \in 1..Len(bfAsked) : BfStartAt(k) => ~bfModem.batching /\ bfStops = 0 /\ bfSession
  /\ \A k, l \in 1..Len(bfAsked) : BfStartAt(k) /\ BfStartAt(l) => k = l
  /\ bfModem.batching => bfStops = 0 /\ bfSession
  /\ bfStops > 0 => bfStops = 1 /\ bfSession
  /\ bfSession => \/ bfModem.batching \/ bfStops = 1
                  \/ \E k \in 1..Len(bfAsked) : BfStartAt(k)
  /\ ~bfModem.batching => bfModem.fifo = <<>>

(* What the threads of onBatchingCb have in hand                           *)
BfHandsAre ==
  \A t \in BfReporter :
    /\ bfThreads[t].at \in {"idle", "clear"} => bfThreads[t].batch = <<>>
    /\ t # "adapter" /\ bfThreads[t].at = "enter" => bfThreads[t].batch = <<>>

(* No start overlaps a stop: what the framework wants is known             *)
BfIdleOrFlush == {<<>>, BfFlushing}
BfSettled == \A b \in BfBinder : bfSteps[b] \in BfIdleOrFlush
BfWants == bfFront.state = "STARTED"
BfWillBatch == BfBatchesAt(Len(bfAsked) + 1)

BfFollows ==
  ~bfTrouble.hasty =>
    /\ bfSteps["framework"] \in BfIdleOrFlush \/ bfSteps["death"] = <<>>
    /\ bfSteps["framework"] = BfToStart => BfWants
    /\ \A b \in BfBinder : bfSteps[b] \in {BfToHalt, BfLast} => ~BfWants
    /\ BfSettled => (BfWillBatch <=> BfWants)

(* A flush that is owed a report: reports on their way *)
BfGetAt(n) == n \in 1..Len(bfAsked) /\ bfAsked[n] = "get" /\ BfBatchesAt(n)
BfGetComes == \E n \in 1..Len(bfAsked) : BfGetAt(n)
BfEntering(t) == bfThreads[t].at = "enter"
BfOneComes ==
  bfReports # <<>> \/ BfGetComes \/ \E t \in BfReporter : BfEntering(t)
BfTwoCome ==
  \/ \E t, u \in BfReporter : t # u /\ BfEntering(t) /\ BfEntering(u)
  \/ \E t \in BfReporter : BfEntering(t) /\ (bfReports # <<>> \/ BfGetComes)
  \/ Len(bfReports) > 1
  \/ bfReports # <<>> /\ BfGetComes
  \/ \E m, n \in 1..Len(bfAsked) : m # n /\ BfGetAt(m) /\ BfGetAt(n)
BfTelling == \E t \in BfReporter : bfThreads[t].at = "tell"
BfStopGets == bfSteps["framework"] = BfToHalt

BfOwes ==
  bfOwed =>
    /\ bfFront.iface # BfNone
    /\ bfSteps["death"] \in {<<>>, BfCleanup}
    /\ BfStopGets => ~BfUnanswered
    /\ \/ BfTelling
       \/ bfFront.state = "STOPPING" /\ (BfTwoCome \/ (BfOneComes /\ BfStopGets))
       \/ bfFront.state # "STOPPING" /\ (BfOneComes \/ BfStopGets)

(* Where the locations are while reports are handled: the cache, or what a *)
(* thread made of it, and the batch of a thread that has not seen it       *)
BfTellers == {t \in BfReporter : bfThreads[t].at \in {"tell", "clear"}}
BfHand(x) ==
  \/ BfTellers = {} /\ x = bfFront.cache
  \/ \E t \in BfReporter : bfThreads[t].at = "tell" /\ x = bfThreads[t].batch
  \/ (\E t \in BfReporter : bfThreads[t].at = "clear") /\ x = <<>>
BfTaken == IF bfThreads["adapter"].at = "enter" THEN bfThreads["adapter"].batch ELSE <<>>

Line(a, x, e, f, m) == (((a \o x) \o e) \o f) \o m

BfLineIs(x) == Line(bfTold, x, BfTaken, FlattenSeq(bfReports), bfModem.fifo)
Exactly(s, n, gone) == InOrder(s) /\ ToSet(s) = (1..n) \ gone
BfEachThere ==
  /\ \A t, u \in BfTellers : t = u
  /\ bfGone \subseteq 1..bfFixes
  /\ \A x \in Seq(BfFix) : BfHand(x) => Exactly(BfLineIs(x), bfFixes, bfGone)
BfOrdered == ~bfTrouble.overlap => BfEachThere

LEMMA HeadWithTail ==
  ASSUME NEW S, NEW s \in Seq(S), s # <<>>
  PROVE  <<Head(s)>> \o Tail(s) = s
  OBVIOUS

LEMMA BfLists ==
  /\ Head(BfFlushing) = "flush" /\ Tail(BfFlushing) = <<>>
  /\ Head(BfStarting) = "started" /\ Tail(BfStarting) = BfToStart
  /\ Head(BfToStart) = "start" /\ Tail(BfToStart) = <<>>
  /\ Head(BfStopSteps) = "stopping" /\ Tail(BfStopSteps) = BfToHalt
  /\ Head(BfToHalt) = "get" /\ Tail(BfToHalt) = BfLast
  /\ Head(BfLast) = "stop" /\ Tail(BfLast) = <<>>
  /\ Head(BfCleanup) = "unset" /\ Tail(BfCleanup) = BfStopSteps
  /\ <<"unset">> \o BfStopSteps = BfCleanup
  /\ BfFlushing # <<>> /\ BfStarting # <<>> /\ BfToStart # <<>> /\ BfStopSteps # <<>>
  /\ BfToHalt # <<>> /\ BfLast # <<>> /\ BfCleanup # <<>>
  /\ BfLeft \subseteq Seq(BfStep)
<1>2. /\ Head(BfStopSteps) = "stopping" /\ Tail(BfStopSteps) = BfToHalt
      /\ Head(BfToHalt) = "get" /\ Tail(BfToHalt) = BfLast
  BY DEF BfStopSteps, BfToHalt, BfLast
<1>3. /\ Head(BfLast) = "stop" /\ Tail(BfLast) = <<>>
      /\ Head(BfCleanup) = "unset" /\ Tail(BfCleanup) = BfStopSteps
  BY DEF BfStopSteps, BfLast, BfCleanup
<1>4. <<"unset">> \o BfStopSteps = BfCleanup
  <2>1. BfCleanup \in Seq(BfStep) /\ BfCleanup # <<>>
    BY DEF BfCleanup, BfStep
  <2> QED BY <1>3, <2>1, HeadWithTail
<1>5. /\ BfFlushing # <<>> /\ BfStarting # <<>> /\ BfToStart # <<>> /\ BfStopSteps # <<>>
      /\ BfToHalt # <<>> /\ BfLast # <<>> /\ BfCleanup # <<>>
  BY DEF BfFlushing, BfStarting, BfToStart, BfStopSteps, BfToHalt, BfLast, BfCleanup
<1>6. BfLeft \subseteq Seq(BfStep)
  <2>2. BfStopSteps \in Seq(BfStep) /\ BfToHalt \in Seq(BfStep) /\ BfLast \in Seq(BfStep)
    BY DEF BfStopSteps, BfToHalt, BfLast, BfStep
  <2>3. BfCleanup \in Seq(BfStep) /\ <<>> \in Seq(BfStep)
    BY DEF BfCleanup, BfStep
  <2> QED BY <2>2, <2>3 DEF BfLeft, BfFlushing, BfStarting, BfToStart, BfStep
<1> QED BY <1>2, <1>3, <1>4, <1>5, <1>6 DEF BfFlushing, BfStarting, BfToStart

(* What a step of an operation finds left of it, and what it leaves *)
LEMMA BfDoesWhat ==
  ASSUME BfTypesNow, BfStepsAre, NEW b \in BfBinder, NEW step, BfDoes(b, step)
  PROVE  \E left \in BfLeft :
           /\ bfSteps' = [bfSteps EXCEPT ![b] = left] /\ bfSteps' \in [BfBinder -> Seq(BfStep)]
           /\ bfSteps'[b] = left /\ \A c \in BfBinder \ {b} : bfSteps'[c] = bfSteps[c]
           /\ \/ step = "started" /\ bfSteps[b] = BfStarting /\ left = BfToStart /\ b = "framework"
              \/ step = "start" /\ bfSteps[b] = BfToStart /\ left = <<>> /\ b = "framework"
              \/ step = "stopping" /\ bfSteps[b] = BfStopSteps /\ left = BfToHalt
              \/ step = "get" /\ bfSteps[b] = BfToHalt /\ left = BfLast
              \/ step = "stop" /\ bfSteps[b] = BfLast /\ left = <<>>
              \/ step = "unset" /\ bfSteps[b] = BfCleanup /\ left = BfStopSteps
              \/ step = "flush" /\ bfSteps[b] = BfFlushing /\ left = <<>> /\ b = "framework"
           /\ BfStepsAre'
<1> DEFINE left == Tail(bfSteps[b])
<1>1. /\ bfSteps' = [bfSteps EXCEPT ![b] = left] /\ Head(bfSteps[b]) = step
      /\ bfSteps[b] # <<>> /\ bfSteps[b] \in BfLeft
  BY DEF BfDoes, BfStepsAre
<1>3. \/ step = "started" /\ bfSteps[b] = BfStarting /\ left = BfToStart /\ b = "framework"
      \/ step = "start" /\ bfSteps[b] = BfToStart /\ left = <<>> /\ b = "framework"
      \/ step = "stopping" /\ bfSteps[b] = BfStopSteps /\ left = BfToHalt
      \/ step = "get" /\ bfSteps[b] = BfToHalt /\ left = BfLast
      \/ step = "stop" /\ bfSteps[b] = BfLast /\ left = <<>>
      \/ step = "unset" /\ bfSteps[b] = BfCleanup /\ left = BfStopSteps
      \/ step = "flush" /\ bfSteps[b] = BfFlushing /\ left = <<>> /\ b = "framework"
  BY <1>1, BfLists DEF BfLeft, BfStepsAre, BfBinder
<1> HIDE DEF left
<1>4. left \in BfLeft /\ left \in Seq(BfStep)
  BY <1>3, BfLists DEF BfLeft
<1>5. /\ bfSteps' \in [BfBinder -> Seq(BfStep)]
      /\ bfSteps'[b] = left /\ \A c \in BfBinder \ {b} : bfSteps'[c] = bfSteps[c]
  BY <1>1, <1>4 DEF BfTypesNow
<1>7. bfSteps'["death"] \notin {BfFlushing, BfStarting, BfToStart}
  <2>1. CASE b = "death"
    <3>1. left \in {<<>>, BfToHalt, BfLast, BfStopSteps}
      BY <1>3, <2>1
    <3>2. left \notin {BfFlushing, BfStarting, BfToStart}
      BY <3>1 DEF BfFlushing, BfStarting, BfToStart, BfToHalt, BfLast, BfStopSteps
    <3> QED BY <1>5, <2>1, <3>2
  <2>2. CASE b # "death"
    BY <1>5, <2>2 DEF BfBinder, BfStepsAre
  <2> QED BY <2>1, <2>2
<1> QED BY <1>1, <1>3, <1>4, <1>5, <1>7 DEF BfStepsAre

LEMMA BfBeginsWhat ==
  ASSUME BfTypesNow, BfStepsAre, NEW b \in BfBinder, NEW steps \in BfLeft, BfBegins(b, steps),
         b = "death" => steps = BfCleanup
  PROVE  /\ bfSteps' \in [BfBinder -> Seq(BfStep)] /\ bfSteps[b] = <<>>
         /\ bfSteps'[b] = steps /\ \A c \in BfBinder \ {b} : bfSteps'[c] = bfSteps[c]
         /\ BfStepsAre' /\ BfTypesNow'
<1>1. bfSteps' = [bfSteps EXCEPT ![b] = steps] /\ bfSteps[b] = <<>> /\ steps \in Seq(BfStep)
  BY BfLists DEF BfBegins
<1>2. /\ bfSteps' \in [BfBinder -> Seq(BfStep)]
      /\ bfSteps'[b] = steps /\ \A c \in BfBinder \ {b} : bfSteps'[c] = bfSteps[c]
  BY <1>1 DEF BfTypesNow
<1>4. bfSteps'["death"] \notin {BfFlushing, BfStarting, BfToStart}
  <2>1. CASE b = "death"
    BY <1>2, <2>1 DEF BfFlushing, BfStarting, BfToStart, BfCleanup
  <2>2. CASE b # "death"
    BY <1>2, <2>2 DEF BfBinder, BfStepsAre
  <2> QED BY <2>1, <2>2
<1>6. bfOps' \in 0..MaxBfEvents /\ bfOps' + bfFixes' <= MaxBfEvents
  BY BfAssumption DEF BfBegins, BfMore, BfTypesNow, bfBelow
<1>7. bfTrouble' \in BfTroubles
  <2> DEFINE h == IF steps = <<"flush">> THEN bfTrouble.hasty
                  ELSE \E c \in BfBinder \ {b} : bfSteps[c] # <<>>
  <2>1. bfTrouble' = [bfTrouble EXCEPT !.hasty = h] /\ bfTrouble \in BfTroubles
    BY DEF BfBegins, BfTypesNow
  <2>2. h \in BOOLEAN
    BY <2>1 DEF BfTroubles
  <2> HIDE DEF h
  <2> QED BY <2>1, <2>2 DEF BfTroubles
<1> QED BY <1>1, <1>2, <1>4, <1>6, <1>7 DEF BfStepsAre, BfBegins, BfTypesNow, bfBelow

LEMMA BfStateSet ==
  ASSUME BfTypesNow, NEW s \in {"STARTED", "STOPPING", "STOPPED"},
         bfFront' = [bfFront EXCEPT !.state = s]
  PROVE  /\ bfFront' \in BfFronts /\ bfFront'.state = s
         /\ bfFront'.cache = bfFront.cache /\ bfFront'.iface = bfFront.iface
  BY DEF BfTypesNow, BfFronts

LEMMA BfIfaceSet ==
  ASSUME BfTypesNow, NEW c \in BfCallback \cup {BfNone}, bfFront' = [bfFront EXCEPT !.iface = c]
  PROVE  /\ bfFront' \in BfFronts /\ bfFront'.state = bfFront.state
         /\ bfFront'.cache = bfFront.cache /\ bfFront'.iface = c
  BY DEF BfTypesNow, BfFronts

LEMMA BfCacheSet ==
  ASSUME BfTypesNow, NEW q \in Seq(BfFix), NEW s \in {bfFront.state, "STOPPED"},
         \/ s = bfFront.state /\ bfFront' = [bfFront EXCEPT !.cache = q]
         \/ s = "STOPPED" /\ bfFront' = [bfFront EXCEPT !.state = "STOPPED", !.cache = q]
  PROVE  /\ bfFront' \in BfFronts /\ bfFront'.state = s
         /\ bfFront'.cache = q /\ bfFront'.iface = bfFront.iface
  BY DEF BfTypesNow, BfFronts

LEMMA BfFifoSet ==
  ASSUME BfTypesNow, NEW q \in Seq(BfFix), bfModem' = [bfModem EXCEPT !.fifo = q]
  PROVE  bfModem' \in BfModems /\ bfModem'.batching = bfModem.batching /\ bfModem'.fifo = q
  BY DEF BfTypesNow, BfModems

LEMMA BfHastySet ==
  ASSUME BfTypesNow, NEW v \in BOOLEAN, bfTrouble' = [bfTrouble EXCEPT !.hasty = v]
  PROVE  /\ bfTrouble' \in BfTroubles /\ bfTrouble'.overlap = bfTrouble.overlap
         /\ bfTrouble'.hasty = v
  BY DEF BfTypesNow, BfTroubles

LEMMA BfOverlapSet ==
  ASSUME BfTypesNow, NEW v \in BOOLEAN, bfTrouble' = [bfTrouble EXCEPT !.overlap = v]
  PROVE  /\ bfTrouble' \in BfTroubles /\ bfTrouble'.hasty = bfTrouble.hasty
         /\ bfTrouble'.overlap = v
  BY DEF BfTypesNow, BfTroubles

LEMMA BfThreadMoves ==
  ASSUME BfTypesNow, NEW t \in BfReporter, NEW h \in BfHands,
         bfThreads' = [bfThreads EXCEPT ![t] = h]
  PROVE  /\ bfThreads' \in [BfReporter -> BfHands] /\ bfThreads'[t] = h
         /\ \A u \in BfReporter \ {t} : bfThreads'[u] = bfThreads[u]
  BY DEF BfTypesNow

LEMMA BfHandFacts ==
  /\ \A s \in {"idle", "enter", "tell", "clear"} : \A q \in Seq(BfFix) :
       /\ [at |-> s, batch |-> q] \in BfHands
       /\ [at |-> s, batch |-> q].at = s /\ [at |-> s, batch |-> q].batch = q
  /\ BfIdle \in BfHands /\ BfIdle.at = "idle" /\ BfIdle.batch = <<>>
  /\ [at |-> "clear", batch |-> <<>>] \in BfHands
  /\ <<>> \in Seq(BfFix) /\ "adapter" \in BfReporter
  BY DEF BfHands, BfIdle, BfReporter

-----------------------------------------------------------------------------
(* What each action does, and that it keeps the types *)

LEMMA BfStartedDoes ==
  ASSUME BfTypesNow, BfStepsAre, NEW b \in BfBinder, BfStarted(b)
  PROVE  /\ BfTypesNow' /\ BfStepsAre'
         /\ bfFront'.state = "STARTED" /\ bfFront'.cache = bfFront.cache
         /\ bfFront'.iface = bfFront.iface
  BY BfDoesWhat, BfStateSet DEF BfStarted, BfTypesNow, BfDoes, bfBelow

LEMMA BfStoppingDoes ==
  ASSUME BfTypesNow, BfStepsAre, NEW b \in BfBinder, BfStoppingState(b)
  PROVE  /\ BfTypesNow' /\ BfStepsAre'
         /\ bfFront'.state = "STOPPING" /\ bfFront'.cache = bfFront.cache
         /\ bfFront'.iface = bfFront.iface
  BY BfDoesWhat, BfStateSet, Zenon DEF BfStoppingState, BfTypesNow, BfDoes, bfBelow

LEMMA BfUnsetDoes ==
  ASSUME BfTypesNow, BfStepsAre, NEW b \in BfBinder, BfUnset(b)
  PROVE  /\ BfTypesNow' /\ BfStepsAre'
         /\ bfFront'.state = bfFront.state /\ bfFront'.cache = bfFront.cache
         /\ bfFront'.iface = BfNone
  BY BfDoesWhat, BfIfaceSet DEF BfUnset, BfTypesNow, BfDoes, bfBelow

LEMMA BfStartDoes ==
  ASSUME BfTypesNow, BfStepsAre, NEW b \in BfBinder, BfStart(b)
  PROVE  /\ BfTypesNow' /\ BfStepsAre'
         /\ bfTrouble'.overlap = bfTrouble.overlap
         /\ bfTrouble'.hasty = (bfTrouble.hasty \/ (bfSession /\ BfStopping))
<1>3. bfAsked' \in Seq(BfCommand)
  BY DEF BfTypesNow, BfCommand, BfStart
<1>4. /\ bfTrouble' \in BfTroubles /\ bfTrouble'.overlap = bfTrouble.overlap
      /\ bfTrouble'.hasty = (bfTrouble.hasty \/ (bfSession /\ BfStopping))
  <2> DEFINE v == bfTrouble.hasty \/ (bfSession /\ BfStopping)
  <2>1. v \in BOOLEAN
    BY Zenon
  <2> HIDE DEF v
  <2> QED BY <2>1, BfHastySet DEF v, BfStart
<1> QED BY <1>3, <1>4, BfDoesWhat DEF BfTypesNow, BfStart, BfDoes, bfBelow

LEMMA BfAskDoes ==
  ASSUME BfTypesNow, BfStepsAre, NEW b \in BfBinder, NEW c \in {"get", "stop"}, BfAsk(b, c)
  PROVE  BfTypesNow' /\ BfStepsAre'
<1>3. bfAsked' \in Seq(BfCommand)
  BY DEF BfTypesNow, BfCommand, BfAsk
<1>4. bfOwed' \in BOOLEAN
  BY Zenon DEF BfAsk
<1> QED BY <1>3, <1>4, BfDoesWhat DEF BfTypesNow, BfAsk, BfDoes, bfBelow

LEMMA BfFlushDoes ==
  ASSUME BfTypesNow, BfStepsAre, BfHandsAre, NEW b \in BfBinder, BfFlush(b)
  PROVE  /\ BfTypesNow' /\ BfStepsAre'
         /\ \/ bfSession /\ bfAsked' = Append(bfAsked, "get") /\ UNCHANGED bfThreads
            \/ ~bfSession /\ UNCHANGED bfAsked
               /\ \E t \in BfReporter \ {"adapter"} :
                    /\ bfThreads[t].at = "idle"
                    /\ bfThreads'[t] = [at |-> "enter", batch |-> <<>>]
                    /\ \A u \in BfReporter \ {t} : bfThreads'[u] = bfThreads[u]
<1>2. bfSteps' \in [BfBinder -> Seq(BfStep)] /\ BfStepsAre'
  BY BfDoesWhat DEF BfFlush
<1>3. bfOwed' \in BOOLEAN
  BY Zenon DEF BfFlush
<1>4. CASE bfSession /\ bfAsked' = Append(bfAsked, "get") /\ UNCHANGED bfThreads
  BY <1>2, <1>3, <1>4 DEF BfTypesNow, BfCommand, BfFlush, BfDoes, bfBelow
<1>5. CASE /\ ~bfSession /\ UNCHANGED bfAsked
           /\ \E t \in BfReporter :
                BfMayReport(t) /\ bfThreads' = [bfThreads EXCEPT ![t].at = "enter"]
  <2>1. PICK t \in BfReporter :
          BfMayReport(t) /\ bfThreads' = [bfThreads EXCEPT ![t].at = "enter"]
    BY <1>5
  <2>2. t # "adapter" /\ bfThreads[t].at = "idle" /\ bfThreads[t].batch = <<>>
    BY <2>1 DEF BfMayReport, BfHandsAre
  <2> DEFINE h == [at |-> "enter", batch |-> <<>>]
  <2>5. /\ bfThreads' \in [BfReporter -> BfHands] /\ bfThreads'[t] = h
        /\ \A u \in BfReporter \ {t} : bfThreads'[u] = bfThreads[u]
    BY <2>1, <2>2, BfThreadMoves, BfHandFacts DEF BfTypesNow, BfHands
  <2> HIDE DEF h
  <2> QED BY <1>2, <1>3, <1>5, <2>2, <2>5 DEF h, BfTypesNow, BfFlush, BfDoes, bfBelow
<1> QED BY <1>4, <1>5 DEF BfFlush

LEMMA BfSetDoes ==
  ASSUME BfTypesNow, BfStepsAre, NEW c \in BfCallback, BfSetCallback(c)
  PROVE  /\ BfTypesNow' /\ BfStepsAre' /\ bfFront'.iface = c
         /\ bfFront'.state = bfFront.state /\ bfFront'.cache = bfFront.cache
<1>3. bfOps' \in 0..MaxBfEvents /\ bfOps' + bfFixes' <= MaxBfEvents
  BY BfAssumption DEF BfSetCallback, BfMore, BfTypesNow, bfBelow
<1> QED BY <1>3, BfIfaceSet DEF BfTypesNow, BfSetCallback, bfBelow, bfGhosts, BfStepsAre

LEMMA BfFixDoes ==
  ASSUME BfTypesNow, BfStepsAre, BfFixDetermined
  PROVE  /\ BfTypesNow' /\ BfStepsAre'
         /\ bfModem'.batching = bfModem.batching /\ bfModem'.fifo = Append(bfModem.fifo, bfFixes + 1)
<1>1. bfFixes + 1 \in BfFix /\ bfFixes' \in 0..MaxBfEvents /\ bfOps' + bfFixes' <= MaxBfEvents
  BY BfAssumption DEF BfFixDetermined, BfMore, BfTypesNow, BfOnlyBelow, BfFix
<1>2. Append(bfModem.fifo, bfFixes + 1) \in Seq(BfFix)
  BY <1>1 DEF BfTypesNow, BfModems
<1> QED BY <1>1, <1>2, BfFifoSet DEF BfTypesNow, BfFixDetermined, BfOnlyBelow, BfStepsAre

LEMMA BfReportedDoes ==
  ASSUME BfTypesNow, BfReported
  PROVE  /\ bfReports' \in Seq(Seq(BfFix)) /\ bfReports' = Append(bfReports, bfModem.fifo)
         /\ bfModem' \in BfModems /\ bfModem'.batching = bfModem.batching /\ bfModem'.fifo = <<>>
<1>1. bfModem' = [bfModem EXCEPT !.fifo = <<>>] /\ bfReports' = Append(bfReports, bfModem.fifo)
  BY DEF BfReported
<1>2. <<>> \in Seq(BfFix) /\ bfModem.fifo \in Seq(BfFix)
  BY DEF BfTypesNow, BfModems
<1>4. bfReports' \in Seq(Seq(BfFix))
  BY <1>1, <1>2 DEF BfTypesNow
<1> QED BY <1>1, <1>2, <1>4, BfFifoSet

LEMMA BfFullDoes ==
  ASSUME BfTypesNow, BfStepsAre, BfFull
  PROVE  /\ BfTypesNow' /\ BfStepsAre'
         /\ bfReports' = Append(bfReports, bfModem.fifo)
         /\ bfModem'.batching = bfModem.batching /\ bfModem'.fifo = <<>>
  BY BfReportedDoes DEF BfFull, BfTypesNow, BfOnlyBelow, BfStepsAre

LEMMA BfHandlesDoes ==
  ASSUME BfTypesNow, NEW c, BfHandles(c)
  PROVE  /\ bfAsked' \in Seq(BfCommand) /\ bfAsked # <<>> /\ bfAsked[1] = c /\ 1 \in 1..Len(bfAsked)
         /\ Len(bfAsked') = Len(bfAsked) - 1
         /\ \A i \in 1..Len(bfAsked') : i + 1 \in 1..Len(bfAsked) /\ bfAsked'[i] = bfAsked[i + 1]
  BY HeadTailProperties DEF BfTypesNow, BfHandles

LEMMA BfHandleStartDoes ==
  ASSUME BfTypesNow, BfStepsAre, BfHandleStart
  PROVE  /\ BfTypesNow' /\ BfStepsAre'
         /\ bfModem'.batching = TRUE /\ bfModem'.fifo = <<>>
<1>2. bfModem' \in BfModems /\ bfModem'.batching = TRUE /\ bfModem'.fifo = <<>>
  BY DEF BfHandleStart, BfModems
<1> QED BY <1>2, BfHandlesDoes DEF BfTypesNow, BfHandleStart, BfHandles, BfOnlyBelow, BfStepsAre

LEMMA BfHandleGetDoes ==
  ASSUME BfTypesNow, BfStepsAre, BfHandleGet
  PROVE  /\ BfTypesNow' /\ BfStepsAre' /\ bfModem'.batching = bfModem.batching
         /\ \/ bfModem.batching /\ bfReports' = Append(bfReports, bfModem.fifo) /\ bfModem'.fifo = <<>>
            \/ ~bfModem.batching /\ UNCHANGED <<bfReports, bfModem>>
<1>2. /\ bfReports' \in Seq(Seq(BfFix)) /\ bfModem' \in BfModems
      /\ bfModem'.batching = bfModem.batching
      /\ \/ bfModem.batching /\ bfReports' = Append(bfReports, bfModem.fifo) /\ bfModem'.fifo = <<>>
         \/ ~bfModem.batching /\ UNCHANGED <<bfReports, bfModem>>
  <2>1. CASE bfModem.batching
    BY <2>1, BfReportedDoes DEF BfHandleGet
  <2>2. CASE ~bfModem.batching
    BY <2>2 DEF BfHandleGet, BfTypesNow
  <2> QED BY <2>1, <2>2
<1> QED BY <1>2, BfHandlesDoes DEF BfHandleGet, BfHandles, BfOnlyBelow, BfStepsAre, BfTypesNow

LEMMA BfHandleStopDoes ==
  ASSUME BfTypesNow, BfStepsAre, BfOneSession, BfHandleStop
  PROVE  /\ BfTypesNow' /\ BfStepsAre'
         /\ bfModem'.batching = FALSE /\ bfModem'.fifo = <<>>
         /\ bfStops' = IF bfModem.batching THEN 1 ELSE bfStops
<1>2. bfModem' \in BfModems /\ bfModem'.batching = FALSE /\ bfModem'.fifo = <<>>
  BY DEF BfHandleStop, BfModems
<1>3. bfStops' \in {0, 1} /\ bfStops' = IF bfModem.batching THEN 1 ELSE bfStops
  BY DEF BfHandleStop, BfOneSession, BfTypesNow
<1>4. bfGone' \subseteq BfFix
  BY DEF BfHandleStop, BfTypesNow, BfModems, ToSet
<1> QED BY <1>2, <1>3, <1>4, BfHandlesDoes DEF BfTypesNow, BfHandleStop, BfHandles, BfOnlyBelow,
  BfStepsAre

LEMMA BfAnsweredDoes ==
  ASSUME BfTypesNow, BfStepsAre, BfStopAnswered
  PROVE  BfTypesNow' /\ BfStepsAre' /\ bfStops = 1 /\ bfStops' = 0
<1>1. bfStops = 1 /\ bfStops' = 0
  BY DEF BfStopAnswered, BfTypesNow
<1> QED BY <1>1 DEF BfTypesNow, BfStopAnswered, BfOnlyBelow, BfStepsAre

LEMMA BfTakeDoes ==
  ASSUME BfTypesNow, BfStepsAre, BfTake
  PROVE  /\ BfTypesNow' /\ BfStepsAre' /\ bfThreads["adapter"].at = "idle"
         /\ bfThreads'["adapter"].at = "enter" /\ bfThreads'["adapter"].batch = Head(bfReports)
         /\ \A u \in BfReporter \ {"adapter"} : bfThreads'[u] = bfThreads[u]
         /\ Head(bfReports) \in Seq(BfFix) /\ bfReports # <<>> /\ bfReports' = Tail(bfReports)
         /\ Len(bfReports') = Len(bfReports) - 1
<1> DEFINE h == [at |-> "enter", batch |-> Head(bfReports)]
<1> HIDE DEF h
<1> QED BY BfThreadMoves, BfHandFacts, HeadTailProperties DEF BfTypesNow, BfTake, BfOnlyReports,
  bfGhosts, BfStepsAre

LEMMA BfEntersDoes ==
  ASSUME BfTypesNow, NEW t \in BfReporter, BfEnters(t)
  PROVE  /\ bfTrouble' \in BfTroubles /\ bfTrouble'.hasty = bfTrouble.hasty
         /\ bfTrouble'.overlap = (bfTrouble.overlap \/ BfOverlaps(t))
<1> DEFINE v == bfTrouble.overlap \/ BfOverlaps(t)
<1>1. v \in BOOLEAN
  BY Zenon
<1> HIDE DEF v
<1> QED BY <1>1, BfOverlapSet DEF v, BfEnters

LEMMA BfCacheDoes ==
  ASSUME BfTypesNow, BfStepsAre, NEW t \in BfReporter, BfCache(t)
  PROVE  /\ BfTypesNow' /\ BfStepsAre'
         /\ bfTrouble'.hasty = bfTrouble.hasty
         /\ bfTrouble'.overlap = (bfTrouble.overlap \/ BfOverlaps(t))
         /\ bfFront'.state = "STOPPED" /\ bfFront'.cache = bfFront.cache \o bfThreads[t].batch
         /\ bfFront'.iface = bfFront.iface
         /\ bfThreads'[t].at = "idle" /\ bfThreads'[t].batch = <<>>
         /\ \A u \in BfReporter \ {t} : bfThreads'[u] = bfThreads[u]
<1>1. /\ BfEnters(t) /\ bfThreads' = [bfThreads EXCEPT ![t] = BfIdle]
      /\ bfFront' = [bfFront EXCEPT !.state = "STOPPED", !.cache = bfFront.cache \o bfThreads[t].batch]
  BY DEF BfCache
<1>2. bfFront.cache \o bfThreads[t].batch \in Seq(BfFix)
  BY DEF BfTypesNow, BfFronts, BfHands
<1>3. /\ bfFront' \in BfFronts /\ bfFront'.state = "STOPPED" /\ bfFront'.iface = bfFront.iface
      /\ bfFront'.cache = bfFront.cache \o bfThreads[t].batch
  BY <1>1, <1>2, BfCacheSet
<1>5. /\ bfThreads' \in [BfReporter -> BfHands] /\ bfThreads'[t] = BfIdle
      /\ \A u \in BfReporter \ {t} : bfThreads'[u] = bfThreads[u]
  BY <1>1, BfHandFacts, BfThreadMoves
<1> QED BY <1>1, <1>3, <1>5, BfHandFacts, BfEntersDoes DEF BfTypesNow, BfCache, BfEnters,
  BfOnlyReports, BfStepsAre

LEMMA BfCopyDoes ==
  ASSUME BfTypesNow, BfStepsAre, NEW t \in BfReporter, BfCopy(t)
  PROVE  /\ BfTypesNow' /\ BfStepsAre'
         /\ bfTrouble'.hasty = bfTrouble.hasty
         /\ bfTrouble'.overlap = (bfTrouble.overlap \/ BfOverlaps(t))
         /\ bfThreads'[t].at = "tell"
         /\ bfThreads'[t].batch = bfFront.cache \o bfThreads[t].batch
         /\ \A u \in BfReporter \ {t} : bfThreads'[u] = bfThreads[u]
<1> DEFINE h == [at |-> "tell", batch |-> bfFront.cache \o bfThreads[t].batch]
<1>1. BfEnters(t) /\ bfThreads' = [bfThreads EXCEPT ![t] = h]
  BY DEF BfCopy
<1>2. bfFront.cache \o bfThreads[t].batch \in Seq(BfFix)
  BY DEF BfTypesNow, BfFronts, BfHands
<1>3. h \in BfHands /\ h.at = "tell" /\ h.batch = bfFront.cache \o bfThreads[t].batch
  BY <1>2, BfHandFacts
<1> HIDE DEF h
<1>7. BfStepsAre'
  BY DEF BfStepsAre, BfCopy, BfEnters, BfOnlyReports
<1> QED BY <1>1, <1>3, <1>7, BfThreadMoves, BfEntersDoes DEF BfTypesNow, BfCopy, BfEnters,
  BfOnlyReports

LEMMA BfDropDoes ==
  ASSUME BfTypesNow, BfStepsAre, NEW t \in BfReporter, BfDrop(t)
  PROVE  /\ BfTypesNow' /\ BfStepsAre'
         /\ bfTrouble'.hasty = bfTrouble.hasty
         /\ bfTrouble'.overlap = (bfTrouble.overlap \/ BfOverlaps(t))
         /\ bfThreads'[t].at = "clear" /\ bfThreads'[t].batch = <<>>
         /\ \A u \in BfReporter \ {t} : bfThreads'[u] = bfThreads[u]
<1> DEFINE h == [at |-> "clear", batch |-> <<>>]
<1>1. BfEnters(t) /\ bfThreads' = [bfThreads EXCEPT ![t] = h]
  BY DEF BfDrop
<1>2. bfThreads[t].batch \o bfFront.cache \in Seq(BfFix)
  BY DEF BfTypesNow, BfFronts, BfHands
<1>3. h \in BfHands /\ h.at = "clear" /\ h.batch = <<>>
  BY BfHandFacts
<1> HIDE DEF h
<1>6. bfGone' \subseteq BfFix
  <2>1. ToSet(bfThreads[t].batch \o bfFront.cache) \subseteq BfFix
    BY <1>2, ElementsOf
  <2> QED BY <2>1 DEF BfDrop, BfTypesNow
<1>8. BfStepsAre'
  BY DEF BfStepsAre, BfDrop, BfEnters, BfOnlyReports
<1> QED BY <1>1, <1>3, <1>6, <1>8, BfThreadMoves, BfEntersDoes DEF BfTypesNow, BfDrop, BfEnters,
  BfOnlyReports

LEMMA BfTellDoes ==
  ASSUME BfTypesNow, BfStepsAre, NEW t \in BfReporter, BfTell(t)
  PROVE  /\ BfTypesNow' /\ BfStepsAre' /\ bfTold' = bfTold \o bfThreads[t].batch
         /\ bfThreads'[t].at = "clear" /\ bfThreads'[t].batch = <<>>
         /\ \A u \in BfReporter \ {t} : bfThreads'[u] = bfThreads[u]
<1> DEFINE h == [at |-> "clear", batch |-> <<>>]
<1>1. bfTold' = bfTold \o bfThreads[t].batch /\ bfThreads' = [bfThreads EXCEPT ![t] = h]
  BY DEF BfTell
<1>2. bfTold' \in Seq(BfFix)
  BY <1>1 DEF BfTypesNow, BfHands
<1>3. h \in BfHands /\ h.at = "clear" /\ h.batch = <<>>
  BY BfHandFacts
<1> HIDE DEF h
<1> QED BY <1>1, <1>2, <1>3, BfThreadMoves DEF BfStepsAre, BfTell, BfOnlyReports, BfTypesNow

LEMMA BfClearDoes ==
  ASSUME BfTypesNow, BfStepsAre, NEW t \in BfReporter, BfClear(t)
  PROVE  /\ BfTypesNow' /\ BfStepsAre'
         /\ bfFront'.state = bfFront.state /\ bfFront'.cache = <<>>
         /\ bfFront'.iface = bfFront.iface
         /\ bfThreads'[t].at = "idle" /\ bfThreads'[t].batch = <<>>
         /\ \A u \in BfReporter \ {t} : bfThreads'[u] = bfThreads[u]
  BY BfCacheSet, BfHandFacts, BfThreadMoves DEF BfClear, BfTypesNow, BfOnlyReports, bfGhosts,
    BfStepsAre

-----------------------------------------------------------------------------
(* The types and the rest of each operation stay as they are *)

LEMMA BfTypesStep ==
  ASSUME BfTypesNow, BfStepsAre, BfOneSession, BfHandsAre, BfNext
  PROVE  BfTypesNow' /\ BfStepsAre'
<1>1. ASSUME BfOperation PROVE BfTypesNow' /\ BfStepsAre'
  <2>1. CASE BfBegins("framework", BfStarting)
    BY <2>1, BfBeginsWhat DEF BfLeft, BfBinder
  <2>2. CASE BfBegins("framework", BfStopSteps)
    BY <2>2, BfBeginsWhat DEF BfLeft, BfBinder
  <2>3. CASE BfBegins("framework", BfFlushing)
    BY <2>3, BfBeginsWhat DEF BfLeft, BfBinder
  <2>4. ASSUME NEW b \in BfBinder, BfBegins(b, BfCleanup) PROVE BfTypesNow' /\ BfStepsAre'
    BY <2>4, BfBeginsWhat DEF BfLeft
  <2> QED BY <1>1, <2>1, <2>2, <2>3, <2>4, BfLists DEF BfOperation, BfStarting, BfFlushing
<1>2. ASSUME NEW c \in BfCallback, BfSetCallback(c) PROVE BfTypesNow' /\ BfStepsAre'
  BY <1>2, BfSetDoes
<1>3. ASSUME NEW b \in BfBinder, BfStarted(b) PROVE BfTypesNow' /\ BfStepsAre'
  BY <1>3, BfStartedDoes
<1>4. ASSUME NEW b \in BfBinder, BfStoppingState(b) PROVE BfTypesNow' /\ BfStepsAre'
  BY <1>4, BfStoppingDoes
<1>5. ASSUME NEW b \in BfBinder, BfUnset(b) PROVE BfTypesNow' /\ BfStepsAre'
  BY <1>5, BfUnsetDoes
<1>6. ASSUME NEW b \in BfBinder, BfStart(b) PROVE BfTypesNow' /\ BfStepsAre'
  BY <1>6, BfStartDoes
<1>7. ASSUME NEW b \in BfBinder, BfFlush(b) PROVE BfTypesNow' /\ BfStepsAre'
  BY <1>7, BfFlushDoes
<1>8. ASSUME NEW b \in BfBinder, NEW c \in {"get", "stop"}, BfAsk(b, c) PROVE BfTypesNow' /\ BfStepsAre'
  BY <1>8, BfAskDoes
<1>9. ASSUME BfFixDetermined PROVE BfTypesNow' /\ BfStepsAre'
  BY <1>9, BfFixDoes
<1>10. ASSUME BfFull PROVE BfTypesNow' /\ BfStepsAre'
  BY <1>10, BfFullDoes
<1>11. ASSUME BfHandleStart PROVE BfTypesNow' /\ BfStepsAre'
  BY <1>11, BfHandleStartDoes
<1>12. ASSUME BfHandleGet PROVE BfTypesNow' /\ BfStepsAre'
  BY <1>12, BfHandleGetDoes
<1>13. ASSUME BfHandleStop PROVE BfTypesNow' /\ BfStepsAre'
  BY <1>13, BfHandleStopDoes
<1>14. ASSUME BfStopAnswered PROVE BfTypesNow' /\ BfStepsAre'
  BY <1>14, BfAnsweredDoes
<1>15. ASSUME BfTake PROVE BfTypesNow' /\ BfStepsAre'
  BY <1>15, BfTakeDoes
<1>16. ASSUME NEW t \in BfReporter, BfCache(t) PROVE BfTypesNow' /\ BfStepsAre'
  BY <1>16, BfCacheDoes
<1>17. ASSUME NEW t \in BfReporter, BfCopy(t) PROVE BfTypesNow' /\ BfStepsAre'
  BY <1>17, BfCopyDoes
<1>18. ASSUME NEW t \in BfReporter, BfDrop(t) PROVE BfTypesNow' /\ BfStepsAre'
  BY <1>18, BfDropDoes
<1>19. ASSUME NEW t \in BfReporter, BfTell(t) PROVE BfTypesNow' /\ BfStepsAre'
  BY <1>19, BfTellDoes
<1>20. ASSUME NEW t \in BfReporter, BfClear(t) PROVE BfTypesNow' /\ BfStepsAre'
  BY <1>20, BfClearDoes
<1> QED BY <1>1, <1>2, <1>3, <1>4, <1>5, <1>6, <1>7, <1>8, <1>9, <1>10, <1>11, <1>12, <1>13, <1>14, <1>15, <1>16, <1>17, <1>18, <1>19, <1>20 DEF BfNext

LEMMA BfAppended ==
  ASSUME BfTypesNow, NEW c \in BfCommand, bfAsked' = Append(bfAsked, c)
  PROVE  /\ Len(bfAsked') = Len(bfAsked) + 1 /\ Len(bfAsked) \in Nat
         /\ bfAsked'[Len(bfAsked) + 1] = c
         /\ \A i \in 1..Len(bfAsked) : bfAsked'[i] = bfAsked[i]
  BY DEF BfTypesNow

LEMMA BfStopAsked ==
  ASSUME BfTypesNow
  PROVE  BfUnanswered <=> bfStops = 1 \/ \E i \in 1..Len(bfAsked) : bfAsked[i] = "stop"
  BY ElementsOf DEF BfTypesNow, BfUnanswered

(* A session is known while it is asked for, runs or is being stopped *)
LEMMA BfSessionStep ==
  ASSUME BfTypesNow, BfStepsAre, BfOneSession, BfHandsAre, BfNext
  PROVE  BfOneSession'
<1>1. ASSUME BfOperation PROVE BfOneSession'
  <2>1. UNCHANGED <<bfSession, bfAsked, bfStops, bfModem>>
    BY <1>1 DEF BfOperation, BfBegins, bfBelow
  <2> QED BY <2>1 DEF BfOneSession, BfStartAt
<1>2. ASSUME NEW c \in BfCallback, BfSetCallback(c) PROVE BfOneSession'
  BY <1>2 DEF BfSetCallback, bfBelow, bfGhosts, BfOneSession, BfStartAt
<1>3. ASSUME NEW b \in BfBinder, BfStarted(b) PROVE BfOneSession'
  BY <1>3 DEF BfStarted, BfDoes, bfBelow, BfOneSession, BfStartAt
<1>4. ASSUME NEW b \in BfBinder, BfStoppingState(b) PROVE BfOneSession'
  BY <1>4 DEF BfStoppingState, BfDoes, bfBelow, BfOneSession, BfStartAt
<1>5. ASSUME NEW b \in BfBinder, BfUnset(b) PROVE BfOneSession'
  BY <1>5 DEF BfUnset, BfDoes, bfBelow, BfOneSession, BfStartAt
<1>6. ASSUME NEW b \in BfBinder, BfStart(b) PROVE BfOneSession'
  <2>1. CASE bfSession
    BY <1>6, <2>1 DEF BfStart, BfDoes, bfBelow, BfOneSession, BfStartAt
  <2>2. CASE ~bfSession
    <3>1. bfSession' = TRUE /\ bfAsked' = Append(bfAsked, "start") /\ UNCHANGED <<bfStops, bfModem>>
      BY <1>6, <2>2 DEF BfStart, BfDoes, bfBelow
    <3> QED BY <2>2, <3>1, BfAppended DEF BfOneSession, BfStartAt, BfTypesNow, BfModems,
      BfCommand
  <2> QED BY <2>1, <2>2
<1>7. ASSUME NEW b \in BfBinder, BfFlush(b) PROVE BfOneSession'
  <2>1. CASE UNCHANGED bfAsked
    BY <1>7, <2>1 DEF BfFlush, BfDoes, bfBelow, BfOneSession, BfStartAt
  <2>2. CASE bfAsked' = Append(bfAsked, "get")
    <3>1. /\ Len(bfAsked') = Len(bfAsked) + 1 /\ Len(bfAsked) \in Nat
          /\ bfAsked'[Len(bfAsked) + 1] = "get"
          /\ \A i \in 1..Len(bfAsked) : bfAsked'[i] = bfAsked[i]
      BY <1>7, <2>2, BfAppended DEF BfCommand
    <3> QED BY <1>7, <3>1 DEF BfOneSession, BfStartAt, BfFlush, BfDoes, bfBelow
  <2> QED BY <1>7, <2>1, <2>2 DEF BfFlush, BfDoes
<1>8. ASSUME NEW b \in BfBinder, NEW c \in {"get", "stop"}, BfAsk(b, c) PROVE BfOneSession'
  <2>1. CASE UNCHANGED bfAsked
    BY <1>8, <2>1 DEF BfAsk, BfDoes, bfBelow, BfOneSession, BfStartAt
  <2>2. CASE bfAsked' = Append(bfAsked, c)
    <3>1. /\ Len(bfAsked') = Len(bfAsked) + 1 /\ Len(bfAsked) \in Nat
          /\ bfAsked'[Len(bfAsked) + 1] = c
          /\ \A i \in 1..Len(bfAsked) : bfAsked'[i] = bfAsked[i]
      BY <1>8, <2>2, BfAppended DEF BfCommand
    <3> QED BY <1>8, <3>1 DEF BfOneSession, BfAsk, BfDoes, bfBelow, BfStartAt
  <2> QED BY <1>8, <2>1, <2>2 DEF BfAsk, BfDoes
<1>9. ASSUME BfFixDetermined PROVE BfOneSession'
  BY <1>9, BfFixDoes DEF BfFixDetermined, BfOnlyBelow, BfOneSession, BfStartAt
<1>10. ASSUME BfFull PROVE BfOneSession'
  BY <1>10, BfFullDoes DEF BfFull, BfOnlyBelow, BfOneSession, BfStartAt
<1>11. ASSUME BfHandleStart PROVE BfOneSession'
  <2>1. /\ bfAsked[1] = "start" /\ 1 \in 1..Len(bfAsked)
        /\ Len(bfAsked') = Len(bfAsked) - 1 /\ Len(bfAsked) \in Nat
        /\ \A i \in 1..Len(bfAsked') : i + 1 \in 1..Len(bfAsked) /\ bfAsked'[i] = bfAsked[i + 1]
    BY <1>11, BfHandlesDoes DEF BfHandleStart, BfTypesNow
  <2>3. \A k : BfStartAt(k) => k = 1 \/ BfStartAt(k - 1)'
    BY <2>1 DEF BfStartAt
  <2>4. \A k, l \in 1..Len(bfAsked') : k + 1 = l + 1 => k = l
    BY <2>1
  <2> QED BY <1>11, <2>1, BfHandleStartDoes DEF BfOneSession, BfHandleStart, BfHandles,
    BfOnlyBelow, BfStartAt
<1>12. ASSUME BfHandleGet PROVE BfOneSession'
  <2>1. /\ bfAsked[1] = "get" /\ 1 \in 1..Len(bfAsked)
        /\ Len(bfAsked') = Len(bfAsked) - 1 /\ Len(bfAsked) \in Nat
        /\ \A i \in 1..Len(bfAsked') : i + 1 \in 1..Len(bfAsked) /\ bfAsked'[i] = bfAsked[i + 1]
    BY <1>12, BfHandlesDoes DEF BfHandleGet, BfTypesNow
  <2>2. \A k : BfStartAt(k)' => BfStartAt(k + 1)
    BY <2>1 DEF BfStartAt
  <2>3. \A k : BfStartAt(k) => k = 1 \/ BfStartAt(k - 1)'
    BY <2>1 DEF BfStartAt
  <2>4. \A k, l \in 1..Len(bfAsked') : k + 1 = l + 1 => k = l
    BY <2>1
  <2>5. \A k : BfStartAt(k) => k \in 1..Len(bfAsked)
    BY DEF BfStartAt
  <2>6. \A k : BfStartAt(k)' => k \in 1..Len(bfAsked')
    BY DEF BfStartAt
  <2>7. ~BfStartAt(1)
    BY <2>1 DEF BfStartAt
  <2>8. /\ bfModem'.batching = bfModem.batching /\ UNCHANGED <<bfSession, bfStops>>
        /\ ~bfModem.batching => bfModem'.fifo = bfModem.fifo
    BY <1>12, BfHandleGetDoes DEF BfHandleGet, BfHandles, BfOnlyBelow
  <2> QED BY <2>2, <2>3, <2>4, <2>5, <2>6, <2>7, <2>8 DEF BfOneSession
<1>13. ASSUME BfHandleStop PROVE BfOneSession'
  <2>1. /\ bfAsked[1] = "stop" /\ 1 \in 1..Len(bfAsked)
        /\ Len(bfAsked') = Len(bfAsked) - 1 /\ Len(bfAsked) \in Nat
        /\ \A i \in 1..Len(bfAsked') : i + 1 \in 1..Len(bfAsked) /\ bfAsked'[i] = bfAsked[i + 1]
    BY <1>13, BfHandlesDoes DEF BfHandleStop, BfTypesNow
  <2>2. \A k : BfStartAt(k)' => BfStartAt(k + 1)
    BY <2>1 DEF BfStartAt
  <2>3. \A k : BfStartAt(k) => k = 1 \/ BfStartAt(k - 1)'
    BY <2>1 DEF BfStartAt
  <2>4. \A k, l \in 1..Len(bfAsked') : k + 1 = l + 1 => k = l
    BY <2>1
  <2>5. \A k : BfStartAt(k) => k \in 1..Len(bfAsked)
    BY DEF BfStartAt
  <2>6. \A k : BfStartAt(k)' => k \in 1..Len(bfAsked')
    BY DEF BfStartAt
  <2>7. ~BfStartAt(1)
    BY <2>1 DEF BfStartAt
  <2>8. /\ bfModem'.batching = FALSE /\ bfModem'.fifo = <<>> /\ UNCHANGED bfSession
        /\ bfStops' = IF bfModem.batching THEN 1 ELSE bfStops
    BY <1>13, BfHandleStopDoes DEF BfHandleStop, BfHandles, BfOnlyBelow
  <2>9. bfStops \in {0, 1}
    BY DEF BfTypesNow
  <2> QED BY <2>2, <2>3, <2>4, <2>5, <2>6, <2>7, <2>8, <2>9 DEF BfOneSession
<1>14. ASSUME BfStopAnswered PROVE BfOneSession'
  BY <1>14, BfAnsweredDoes DEF BfStopAnswered, BfOneSession, BfStartAt
<1>15. ASSUME BfTake PROVE BfOneSession'
  BY <1>15 DEF BfTake, BfOnlyReports, bfGhosts, BfOneSession, BfStartAt
<1>16. ASSUME NEW t \in BfReporter, BfCache(t) PROVE BfOneSession'
  BY <1>16 DEF BfCache, BfEnters, BfOnlyReports, BfOneSession, BfStartAt
<1>17. ASSUME NEW t \in BfReporter, BfCopy(t) PROVE BfOneSession'
  BY <1>17 DEF BfCopy, BfEnters, BfOnlyReports, BfOneSession, BfStartAt
<1>18. ASSUME NEW t \in BfReporter, BfDrop(t) PROVE BfOneSession'
  BY <1>18 DEF BfDrop, BfEnters, BfOnlyReports, BfOneSession, BfStartAt
<1>19. ASSUME NEW t \in BfReporter, BfTell(t) PROVE BfOneSession'
  BY <1>19 DEF BfTell, BfOnlyReports, BfOneSession, BfStartAt
<1>20. ASSUME NEW t \in BfReporter, BfClear(t) PROVE BfOneSession'
  BY <1>20 DEF BfClear, BfOnlyReports, bfGhosts, BfOneSession, BfStartAt
<1> QED BY <1>1, <1>2, <1>3, <1>4, <1>5, <1>6, <1>7, <1>8, <1>9, <1>10, <1>11, <1>12, <1>13, <1>14, <1>15, <1>16, <1>17, <1>18, <1>19, <1>20 DEF BfNext

(* The batches of the threads that do not handle one are empty *)
LEMMA BfHandsStep ==
  ASSUME BfTypesNow, BfStepsAre, BfOneSession, BfHandsAre, BfNext
  PROVE  BfHandsAre'
<1>1. ASSUME BfOperation PROVE BfHandsAre'
  BY <1>1 DEF BfOperation, BfBegins, bfBelow, BfHandsAre
<1>2. ASSUME NEW c \in BfCallback, BfSetCallback(c) PROVE BfHandsAre'
  BY <1>2 DEF BfSetCallback, bfBelow, bfGhosts, BfHandsAre
<1>3. ASSUME NEW b \in BfBinder, BfStarted(b) PROVE BfHandsAre'
  BY <1>3 DEF BfStarted, BfDoes, bfBelow, BfHandsAre
<1>4. ASSUME NEW b \in BfBinder, BfStoppingState(b) PROVE BfHandsAre'
  BY <1>4 DEF BfStoppingState, BfDoes, bfBelow, BfHandsAre
<1>5. ASSUME NEW b \in BfBinder, BfUnset(b) PROVE BfHandsAre'
  BY <1>5 DEF BfUnset, BfDoes, bfBelow, BfHandsAre
<1>6. ASSUME NEW b \in BfBinder, BfStart(b) PROVE BfHandsAre'
  BY <1>6 DEF BfStart, BfDoes, bfBelow, BfHandsAre
<1>7. ASSUME NEW b \in BfBinder, BfFlush(b) PROVE BfHandsAre'
  BY <1>7, BfFlushDoes DEF BfHandsAre
<1>8. ASSUME NEW b \in BfBinder, NEW c \in {"get", "stop"}, BfAsk(b, c) PROVE BfHandsAre'
  BY <1>8 DEF BfAsk, BfDoes, bfBelow, BfHandsAre
<1>9. ASSUME BfFixDetermined PROVE BfHandsAre'
  BY <1>9 DEF BfFixDetermined, BfOnlyBelow, BfHandsAre
<1>10. ASSUME BfFull PROVE BfHandsAre'
  BY <1>10 DEF BfFull, BfOnlyBelow, BfHandsAre
<1>11. ASSUME BfHandleStart PROVE BfHandsAre'
  BY <1>11 DEF BfHandleStart, BfHandles, BfOnlyBelow, BfHandsAre
<1>12. ASSUME BfHandleGet PROVE BfHandsAre'
  BY <1>12 DEF BfHandleGet, BfHandles, BfOnlyBelow, BfHandsAre
<1>13. ASSUME BfHandleStop PROVE BfHandsAre'
  BY <1>13 DEF BfHandleStop, BfHandles, BfOnlyBelow, BfHandsAre
<1>14. ASSUME BfStopAnswered PROVE BfHandsAre'
  BY <1>14 DEF BfStopAnswered, BfOnlyBelow, BfHandsAre
<1>15. ASSUME BfTake PROVE BfHandsAre'
  BY <1>15, BfTakeDoes DEF BfHandsAre
<1>16. ASSUME NEW t \in BfReporter, BfCache(t) PROVE BfHandsAre'
  BY <1>16, BfCacheDoes DEF BfHandsAre
<1>17. ASSUME NEW t \in BfReporter, BfCopy(t) PROVE BfHandsAre'
  BY <1>17, BfCopyDoes DEF BfHandsAre
<1>18. ASSUME NEW t \in BfReporter, BfDrop(t) PROVE BfHandsAre'
  BY <1>18, BfDropDoes DEF BfHandsAre
<1>19. ASSUME NEW t \in BfReporter, BfTell(t) PROVE BfHandsAre'
  BY <1>19, BfTellDoes DEF BfHandsAre
<1>20. ASSUME NEW t \in BfReporter, BfClear(t) PROVE BfHandsAre'
  BY <1>20, BfClearDoes DEF BfHandsAre
<1> QED BY <1>1, <1>2, <1>3, <1>4, <1>5, <1>6, <1>7, <1>8, <1>9, <1>10, <1>11, <1>12, <1>13, <1>14, <1>15, <1>16, <1>17, <1>18, <1>19, <1>20 DEF BfNext

-----------------------------------------------------------------------------
(* What the modem will do, and what the framework wants *)

LEMMA BfDistinct ==
  /\ BfFlushing \notin {<<>>, BfStarting, BfToStart, BfStopSteps, BfToHalt, BfLast, BfCleanup}
  /\ BfStarting \notin {<<>>, BfToStart, BfStopSteps, BfToHalt, BfLast, BfCleanup}
  /\ BfToStart \notin {<<>>, BfStopSteps, BfToHalt, BfLast, BfCleanup}
  /\ BfStopSteps \notin {<<>>, BfToHalt, BfLast, BfCleanup}
  /\ BfToHalt \notin {<<>>, BfLast, BfCleanup}
  /\ BfLast \notin {<<>>, BfCleanup} /\ BfCleanup # <<>>
  BY BfLists

LEMMA BfBatchesSame ==
  ASSUME UNCHANGED bfAsked, bfModem'.batching = bfModem.batching
  PROVE  /\ \A n : BfBatchesAt(n)' <=> BfBatchesAt(n)
         /\ BfWillBatch' <=> BfWillBatch
  BY DEF BfBatchesAt, BfWillBatch

LEMMA BfBatchesAppended ==
  ASSUME BfTypesNow, NEW c \in BfCommand, bfAsked' = Append(bfAsked, c),
         bfModem'.batching = bfModem.batching
  PROVE  /\ \A n \in 1..(Len(bfAsked) + 1) : BfBatchesAt(n)' <=> BfBatchesAt(n)
         /\ BfWillBatch' <=> (c = "start" \/ (c # "stop" /\ BfWillBatch))
<1>0. PICK last : last = Len(bfAsked)
  OBVIOUS
<1>1. /\ Len(bfAsked') = last + 1 /\ last \in Nat /\ bfAsked'[last + 1] = c
      /\ \A i \in 1..last : bfAsked'[i] = bfAsked[i]
  BY <1>0, BfAppended
<1>2. ASSUME NEW n \in 1..(last + 1) PROVE BfBatchesAt(n)' <=> BfBatchesAt(n)
  BY <1>1 DEF BfBatchesAt
<1>3. BfBatchesAt(last + 2)' <=> (c = "start" \/ (c # "stop" /\ BfBatchesAt(last + 1)))
  <2>1. (last + 2) - 1 = last + 1 /\ (last + 1) - 1 = last
    BY <1>1
  <2>2. \A j : j \in 1..(last + 1) <=> j \in 1..last \/ j = last + 1
    BY <1>1
  <2>3. BfBatchesAt(last + 1) <=>
          \/ bfModem.batching /\ \A j \in 1..last : bfAsked[j] # "stop"
          \/ \E k \in 1..last : bfAsked[k] = "start" /\ \A j \in 1..last : j > k => bfAsked[j] # "stop"
    BY <2>1 DEF BfBatchesAt
  <2>4. BfBatchesAt(last + 2)' <=>
          \/ bfModem.batching /\ \A j \in 1..(last + 1) : bfAsked'[j] # "stop"
          \/ \E k \in 1..(last + 1) :
               bfAsked'[k] = "start" /\ \A j \in 1..(last + 1) : j > k => bfAsked'[j] # "stop"
    BY <2>1 DEF BfBatchesAt
  <2>5. CASE c = "start"
    BY <1>1, <2>4, <2>5
  <2>6. CASE c = "stop"
    BY <1>1, <2>2, <2>4, <2>6
  <2>7. CASE c # "start" /\ c # "stop"
    BY <1>1, <2>2, <2>3, <2>4, <2>7
  <2> QED BY <2>5, <2>6, <2>7
<1>4. BfWillBatch' <=> BfBatchesAt(last + 2)'
  <2>1. Len(bfAsked') + 1 = last + 2
    BY <1>1
  <2> QED BY <2>1 DEF BfWillBatch, BfBatchesAt
<1> QED BY <1>0, <1>2, <1>3, <1>4 DEF BfWillBatch

LEMMA BfBatchesHandled ==
  ASSUME BfTypesNow, BfOneSession, NEW c \in BfCommand, BfHandles(c),
         bfModem'.batching = IF c = "start" THEN TRUE
                             ELSE IF c = "stop" THEN FALSE ELSE bfModem.batching
  PROVE  /\ \A n \in 1..Len(bfAsked) : BfBatchesAt(n)' <=> BfBatchesAt(n + 1)
         /\ BfWillBatch' <=> BfWillBatch
<1>0. PICK last : last = Len(bfAsked')
  OBVIOUS
<1>1. /\ bfAsked[1] = c /\ 1 \in 1..Len(bfAsked) /\ Len(bfAsked) = last + 1 /\ last \in Nat
      /\ \A i \in 1..last : bfAsked'[i] = bfAsked[i + 1]
  BY <1>0, BfHandlesDoes DEF BfTypesNow
<1>3. ASSUME NEW n \in 1..(last + 1) PROVE BfBatchesAt(n)' <=> BfBatchesAt(n + 1)
  <2> DEFINE NoStop == \A j \in 1..(n - 1) : bfAsked'[j] # "stop"
             Begins == \E k \in 1..(n - 1) :
               bfAsked'[k] = "start" /\ \A j \in 1..(n - 1) : j > k => bfAsked'[j] # "stop"
  <2>1. BfBatchesAt(n)' <=> (bfModem'.batching /\ NoStop) \/ Begins
    BY DEF BfBatchesAt
  <2>2. /\ n \in Nat /\ (n + 1) - 1 = n
        /\ \A j \in 1..(n - 1) : j \in 1..last /\ j + 1 \in 1..n /\ bfAsked'[j] = bfAsked[j + 1]
        /\ \A j \in 1..n : j = 1 \/ (j - 1 \in 1..(n - 1) /\ bfAsked[j] = bfAsked'[j - 1])
    BY <1>1
  <2>4. 1 \in 1..n
    BY <2>2
  <2>5. (\A j \in 1..n : bfAsked[j] # "stop") <=> c # "stop" /\ NoStop
    BY <1>1, <2>2, <2>4
  <2>6. (\A j \in 1..n : j > 1 => bfAsked[j] # "stop") <=> NoStop
    BY <2>2
  <2>7. ASSUME NEW k \in 1..(n - 1)
        PROVE  (\A j \in 1..n : j > k + 1 => bfAsked[j] # "stop") <=>
               (\A j \in 1..(n - 1) : j > k => bfAsked'[j] # "stop")
    BY <2>2
  <2>8. (\E k \in 1..n : bfAsked[k] = "start" /\ \A j \in 1..n : j > k => bfAsked[j] # "stop")
        <=> (c = "start" /\ NoStop) \/ Begins
    <3>1. ASSUME NEW k \in 1..n, bfAsked[k] = "start", \A j \in 1..n : j > k => bfAsked[j] # "stop"
          PROVE  (c = "start" /\ NoStop) \/ Begins
      <4>1. CASE k = 1
        BY <1>1, <2>6, <3>1, <4>1
      <4>2. CASE k # 1
        BY <2>2, <2>7, <3>1, <4>2
      <4> QED BY <4>1, <4>2
    <3>2. ASSUME c = "start", NoStop
          PROVE  \E k \in 1..n : bfAsked[k] = "start" /\ \A j \in 1..n : j > k => bfAsked[j] # "stop"
      BY <1>1, <2>4, <2>6, <3>2
    <3>3. ASSUME NEW k \in 1..(n - 1), bfAsked'[k] = "start",
                 \A j \in 1..(n - 1) : j > k => bfAsked'[j] # "stop"
          PROVE  \E l \in 1..n : bfAsked[l] = "start" /\ \A j \in 1..n : j > l => bfAsked[j] # "stop"
      BY <2>2, <2>7, <3>3
    <3> QED BY <3>1, <3>2, <3>3
  <2> HIDE DEF NoStop, Begins
  <2> QED BY <1>1, <2>1, <2>2, <2>5, <2>8 DEF BfBatchesAt, BfOneSession, BfStartAt
<1>5. BfWillBatch' <=> BfWillBatch
  <2>3. BfWillBatch' <=> BfBatchesAt(last + 1)'
    BY <1>0 DEF BfWillBatch, BfBatchesAt
  <2> QED BY <1>1, <1>3, <2>3 DEF BfWillBatch
<1> QED BY <1>1, <1>3, <1>5

BfWas == BfTypesNow /\ BfStepsAre /\ BfOneSession /\ BfHandsAre

LEMMA BfBeginsHasty ==
  ASSUME BfTypesNow, NEW b \in BfBinder, NEW steps, BfBegins(b, steps)
  PROVE  /\ bfTrouble'.overlap = bfTrouble.overlap
         /\ steps = BfFlushing => bfTrouble'.hasty = bfTrouble.hasty
         /\ steps # BfFlushing =>
              bfTrouble'.hasty = \E c \in BfBinder \ {b} : bfSteps[c] # <<>>
<1> DEFINE v == IF steps = BfFlushing THEN bfTrouble.hasty
                ELSE \E c \in BfBinder \ {b} : bfSteps[c] # <<>>
<1> HIDE DEF v
<1> QED BY BfHastySet DEF v, BfBegins, BfFlushing, BfTypesNow, BfTroubles

LEMMA BfBeginsFollows ==
  ASSUME BfWas, BfFollows, NEW b \in BfBinder, NEW steps \in BfLeft, BfBegins(b, steps),
         b = "death" => steps = BfCleanup,
         steps \in {BfStarting, BfStopSteps, BfFlushing, BfCleanup}
  PROVE  BfFollows'
<1>1. /\ bfSteps[b] = <<>> /\ bfSteps'[b] = steps
      /\ \A c \in BfBinder \ {b} : bfSteps'[c] = bfSteps[c]
  BY BfBeginsWhat DEF BfWas
<1>3. (BfWillBatch' <=> BfWillBatch) /\ (BfWants' <=> BfWants)
  BY BfBatchesSame DEF BfWants, BfBegins, bfBelow
<1>4. BfBinder = {"framework", "death"}
  BY DEF BfBinder
<1>5. CASE steps = BfFlushing
  BY <1>1, <1>3, <1>4, <1>5, BfBeginsHasty, BfDistinct DEF BfWas, BfSettled, BfIdleOrFlush,
    BfFollows
<1>6. CASE steps # BfFlushing
  <2>3. ASSUME ~bfTrouble'.hasty PROVE \A c \in BfBinder \ {b} : bfSteps'[c] = <<>>
    BY <1>1, <1>6, <2>3, BfBeginsHasty DEF BfWas
  <2> QED BY <1>1, <1>4, <1>6, <2>3, BfDistinct DEF BfFollows, BfIdleOrFlush, BfSettled
<1> QED BY <1>5, <1>6

LEMMA BfFollowsSame ==
  ASSUME BfFollows, UNCHANGED bfSteps, ~bfTrouble'.hasty => ~bfTrouble.hasty,
         BfWillBatch' <=> BfWillBatch, BfWants' <=> BfWants
  PROVE  BfFollows'
  BY DEF BfFollows, BfSettled

LEMMA BfFollowsStep ==
  ASSUME BfWas, BfFollows, BfNext
  PROVE  BfFollows'
<1>1. ASSUME BfOperation PROVE BfFollows'
  <2>1. CASE BfBegins("framework", BfStarting)
    BY <2>1, BfBeginsFollows DEF BfLeft, BfBinder
  <2>2. CASE BfBegins("framework", BfStopSteps)
    BY <2>2, BfBeginsFollows DEF BfLeft, BfBinder
  <2>3. CASE BfBegins("framework", BfFlushing)
    BY <2>3, BfBeginsFollows DEF BfLeft, BfBinder
  <2>4. ASSUME NEW b \in BfBinder, BfBegins(b, BfCleanup) PROVE BfFollows'
    BY <2>4, BfBeginsFollows DEF BfLeft
  <2> QED BY <1>1, <2>1, <2>2, <2>3, <2>4, BfLists DEF BfOperation, BfStarting, BfFlushing
<1>2. ASSUME NEW c \in BfCallback, BfSetCallback(c) PROVE BfFollows'
  BY <1>2, BfSetDoes, BfBatchesSame, BfFollowsSame DEF BfWas, BfSetCallback, bfBelow, bfGhosts,
    BfWants
<1>3. ASSUME NEW b \in BfBinder, BfStarted(b) PROVE BfFollows'
  <2>2. PICK left \in BfLeft :
           /\ bfSteps'[b] = left /\ \A e \in BfBinder \ {b} : bfSteps'[e] = bfSteps[e]
           /\ bfSteps[b] = BfStarting /\ left = BfToStart /\ b = "framework"
    BY <1>3, BfDoesWhat DEF BfWas, BfStarted
  <2>3. BfWants' /\ (bfTrouble'.hasty <=> bfTrouble.hasty)
    BY <1>3, BfStartedDoes DEF BfWas, BfWants, BfStarted
  <2> QED BY <2>2, <2>3, BfDistinct DEF BfFollows, BfIdleOrFlush, BfBinder, BfSettled
<1>4. ASSUME NEW b \in BfBinder, BfStoppingState(b) PROVE BfFollows'
  <2>2. PICK left \in BfLeft :
           /\ bfSteps'[b] = left /\ \A e \in BfBinder \ {b} : bfSteps'[e] = bfSteps[e]
           /\ bfSteps[b] = BfStopSteps /\ left = BfToHalt
    BY <1>4, BfDoesWhat DEF BfWas, BfStoppingState
  <2>3. ~BfWants' /\ (bfTrouble'.hasty <=> bfTrouble.hasty)
    BY <1>4, BfStoppingDoes DEF BfWas, BfWants, BfStoppingState
  <2>4. ~BfSettled'
    BY <2>2, BfDistinct DEF BfSettled, BfIdleOrFlush
  <2>5. CASE b = "framework"
    BY <2>2, <2>3, <2>4, <2>5, BfDistinct DEF BfBinder, BfFollows, BfIdleOrFlush
  <2>6. CASE b = "death"
    BY <2>2, <2>3, <2>4, <2>6, BfDistinct DEF BfBinder, BfFollows, BfIdleOrFlush
  <2> QED BY <2>5, <2>6 DEF BfBinder
<1>5. ASSUME NEW b \in BfBinder, BfUnset(b) PROVE BfFollows'
  <2>2. PICK left \in BfLeft :
           /\ bfSteps'[b] = left /\ \A e \in BfBinder \ {b} : bfSteps'[e] = bfSteps[e]
           /\ bfSteps[b] = BfCleanup /\ left = BfStopSteps
    BY <1>5, BfDoesWhat DEF BfWas, BfUnset
  <2>3. (BfWants' <=> BfWants) /\ (bfTrouble'.hasty <=> bfTrouble.hasty)
    BY <1>5, BfUnsetDoes DEF BfWas, BfWants, BfUnset
  <2>4. ~BfSettled'
    BY <2>2, BfDistinct DEF BfSettled, BfIdleOrFlush
  <2>5. CASE b = "framework"
    BY <2>2, <2>3, <2>4, <2>5, BfDistinct DEF BfBinder, BfFollows, BfIdleOrFlush
  <2>6. CASE b = "death"
    BY <2>2, <2>3, <2>4, <2>6, BfDistinct DEF BfBinder, BfFollows, BfIdleOrFlush
  <2> QED BY <2>5, <2>6 DEF BfBinder
<1>6. ASSUME NEW b \in BfBinder, BfStart(b) PROVE BfFollows'
  <2>2. PICK left \in BfLeft :
           /\ bfSteps'[b] = left /\ \A e \in BfBinder \ {b} : bfSteps'[e] = bfSteps[e]
           /\ bfSteps[b] = BfToStart /\ left = <<>> /\ b = "framework"
    BY <1>6, BfDoesWhat DEF BfWas, BfStart
  <2>3. /\ bfTrouble'.hasty = (bfTrouble.hasty \/ (bfSession /\ BfStopping))
        /\ UNCHANGED bfFront /\ UNCHANGED bfModem
    BY <1>6, BfStartDoes DEF BfWas, BfStart, BfDoes, bfBelow
  <2>6. ASSUME ~bfTrouble'.hasty PROVE ~bfTrouble.hasty /\ bfSteps["death"] = <<>> /\ BfWants /\ BfWillBatch'
    <3>1. ~bfTrouble.hasty /\ ~(bfSession /\ BfStopping)
      BY <2>3, <2>6
    <3>2. bfSteps["death"] = <<>> /\ BfWants
      BY <2>2, <3>1, BfDistinct DEF BfFollows, BfIdleOrFlush
    <3>3. CASE bfSession
      <4>1. UNCHANGED bfAsked /\ ~BfUnanswered
        BY <1>6, <3>1, <3>3 DEF BfStart, BfStopping
      <4>4. Len(bfAsked) \in Nat /\ (Len(bfAsked) + 1) - 1 = Len(bfAsked)
        BY DEF BfWas, BfTypesNow
      <4>6. BfWillBatch
        BY <3>3, <4>1, <4>4, BfStopAsked DEF BfWillBatch, BfBatchesAt, BfStartAt, BfWas,
          BfOneSession
      <4> QED BY <2>3, <3>1, <3>2, <4>1, <4>6, BfBatchesSame
    <3>4. CASE ~bfSession
      BY <1>6, <2>3, <3>1, <3>2, <3>4, BfBatchesAppended DEF BfStart, BfWas, BfCommand
    <3> QED BY <3>3, <3>4
  <2> QED BY <2>2, <2>3, <2>6, BfDistinct DEF BfFollows, BfIdleOrFlush, BfBinder, BfWants
<1>7. ASSUME NEW b \in BfBinder, BfFlush(b) PROVE BfFollows'
  <2>2. PICK left \in BfLeft :
           /\ bfSteps'[b] = left /\ \A e \in BfBinder \ {b} : bfSteps'[e] = bfSteps[e]
           /\ bfSteps[b] = BfFlushing /\ left = <<>> /\ b = "framework"
    BY <1>7, BfDoesWhat DEF BfWas, BfFlush
  <2>3. UNCHANGED <<bfFront, bfModem, bfTrouble>> /\ (UNCHANGED bfAsked \/ bfAsked' = Append(bfAsked, "get"))
    BY <1>7 DEF BfFlush, BfDoes, bfBelow
  <2>5. BfWillBatch' <=> BfWillBatch
    BY <2>3, BfBatchesSame, BfBatchesAppended DEF BfWas, BfCommand
  <2> QED BY <2>2, <2>3, <2>5, BfDistinct DEF BfFollows, BfIdleOrFlush, BfBinder, BfWants,
    BfSettled
<1>8. ASSUME NEW b \in BfBinder, NEW c \in {"get", "stop"}, BfAsk(b, c) PROVE BfFollows'
  <2>2. PICK left \in BfLeft :
           /\ bfSteps'[b] = left /\ \A e \in BfBinder \ {b} : bfSteps'[e] = bfSteps[e]
           /\ \/ c = "get" /\ bfSteps[b] = BfToHalt /\ left = BfLast
              \/ c = "stop" /\ bfSteps[b] = BfLast /\ left = <<>>
    BY <1>8, BfDoesWhat DEF BfWas, BfAsk
  <2>3. UNCHANGED <<bfFront, bfModem, bfTrouble>> /\ bfAsked' = IF bfSession THEN Append(bfAsked, c) ELSE bfAsked
    BY <1>8 DEF BfAsk, BfDoes, bfBelow
  <2>4. (BfWants' <=> BfWants) /\ (bfTrouble'.hasty <=> bfTrouble.hasty)
    BY <2>3 DEF BfWants
  <2>5. ~bfTrouble.hasty => ~BfWants
    BY <2>2 DEF BfFollows
  <2>6. c = "stop" => ~BfWillBatch'
    <3>1. CASE bfSession
      BY <2>3, <3>1, BfBatchesAppended DEF BfWas, BfCommand
    <3>2. CASE ~bfSession
      <4>2. Len(bfAsked) \in Nat /\ (Len(bfAsked) + 1) - 1 = Len(bfAsked)
        BY DEF BfWas, BfTypesNow
      <4> QED BY <2>3, <3>2, <4>2, BfBatchesSame DEF BfWillBatch, BfBatchesAt, BfWas,
        BfOneSession, BfStartAt
    <3> QED BY <3>1, <3>2
  <2>7. c = "get" => ~BfSettled'
    BY <2>2, BfDistinct DEF BfSettled, BfIdleOrFlush
  <2>8. CASE b = "framework"
    <3>1. bfSteps'["framework"] = left /\ bfSteps'["death"] = bfSteps["death"]
      BY <2>2, <2>8 DEF BfBinder
    <3>2. ~bfTrouble.hasty => bfSteps["death"] = <<>>
      BY <2>2, <2>8, BfDistinct DEF BfFollows, BfIdleOrFlush
    <3> QED BY <2>2, <2>4, <2>5, <2>6, <2>7, <3>1, <3>2, BfDistinct DEF BfFollows, BfIdleOrFlush, BfBinder
  <2>9. CASE b = "death"
    <3>1. bfSteps'["death"] = left /\ bfSteps'["framework"] = bfSteps["framework"]
      BY <2>2, <2>9 DEF BfBinder
    <3>2. ~bfTrouble.hasty => bfSteps["framework"] \in BfIdleOrFlush
      BY <2>2, <2>9, BfDistinct DEF BfFollows
    <3> QED BY <2>2, <2>4, <2>5, <2>6, <2>7, <3>1, <3>2, BfDistinct DEF BfFollows, BfIdleOrFlush, BfBinder
  <2> QED BY <2>8, <2>9 DEF BfBinder
<1>9. ASSUME BfFixDetermined PROVE BfFollows'
  BY <1>9, BfFixDoes, BfBatchesSame, BfFollowsSame DEF BfWas, BfFixDetermined, BfOnlyBelow,
    BfWants
<1>10. ASSUME BfFull PROVE BfFollows'
  BY <1>10, BfFullDoes, BfBatchesSame, BfFollowsSame DEF BfWas, BfFull, BfOnlyBelow, BfWants
<1>11. ASSUME BfHandleStart PROVE BfFollows'
  <2>1. BfWillBatch' <=> BfWillBatch
    BY <1>11, BfHandleStartDoes, BfBatchesHandled DEF BfWas, BfCommand, BfHandleStart
  <2> QED BY <1>11, <2>1, BfFollowsSame, BfHandleStartDoes DEF BfWas, BfHandleStart, BfHandles,
    BfOnlyBelow, BfWants
<1>12. ASSUME BfHandleGet PROVE BfFollows'
  <2>1. BfWillBatch' <=> BfWillBatch
    BY <1>12, BfHandleGetDoes, BfBatchesHandled DEF BfWas, BfCommand, BfHandleGet
  <2> QED BY <1>12, <2>1, BfFollowsSame, BfHandleGetDoes DEF BfWas, BfHandleGet, BfHandles,
    BfOnlyBelow, BfWants
<1>13. ASSUME BfHandleStop PROVE BfFollows'
  <2>1. BfWillBatch' <=> BfWillBatch
    BY <1>13, BfHandleStopDoes, BfBatchesHandled DEF BfWas, BfCommand, BfHandleStop
  <2> QED BY <1>13, <2>1, BfFollowsSame, BfHandleStopDoes DEF BfWas, BfHandleStop, BfHandles,
    BfOnlyBelow, BfWants
<1>14. ASSUME BfStopAnswered PROVE BfFollows'
  BY <1>14, BfAnsweredDoes, BfBatchesSame, BfFollowsSame DEF BfWas, BfStopAnswered, BfOnlyBelow,
    BfWants
<1>15. ASSUME BfTake PROVE BfFollows'
  BY <1>15, BfTakeDoes, BfBatchesSame, BfFollowsSame DEF BfWas, BfTake, BfOnlyReports, bfGhosts,
    BfWants
<1>16. ASSUME NEW t \in BfReporter, BfCache(t) PROVE BfFollows'
  BY <1>16, BfCacheDoes, BfBatchesSame, BfFollowsSame DEF BfWas, BfCache, BfEnters,
    BfOnlyReports, BfWants
<1>17. ASSUME NEW t \in BfReporter, BfCopy(t) PROVE BfFollows'
  BY <1>17, BfCopyDoes, BfBatchesSame, BfFollowsSame DEF BfWas, BfCopy, BfEnters, BfOnlyReports,
    BfWants
<1>18. ASSUME NEW t \in BfReporter, BfDrop(t) PROVE BfFollows'
  BY <1>18, BfDropDoes, BfBatchesSame, BfFollowsSame DEF BfWas, BfDrop, BfEnters, BfOnlyReports,
    BfWants
<1>19. ASSUME NEW t \in BfReporter, BfTell(t) PROVE BfFollows'
  BY <1>19, BfTellDoes, BfBatchesSame, BfFollowsSame DEF BfWas, BfTell, BfOnlyReports, BfWants
<1>20. ASSUME NEW t \in BfReporter, BfClear(t) PROVE BfFollows'
  BY <1>20, BfClearDoes, BfBatchesSame, BfFollowsSame DEF BfWas, BfClear, BfOnlyReports,
    bfGhosts, BfWants
<1> QED BY <1>1, <1>2, <1>3, <1>4, <1>5, <1>6, <1>7, <1>8, <1>9, <1>10, <1>11, <1>12, <1>13, <1>14, <1>15, <1>16, <1>17, <1>18, <1>19, <1>20 DEF BfNext

-----------------------------------------------------------------------------
(* The reports on their way *)

BfTwoGets == \E m, n \in 1..Len(bfAsked) : m # n /\ BfGetAt(m) /\ BfGetAt(n)

LEMMA BfTwoComeIs ==
  BfTwoCome <=>
    \/ \E t, u \in BfReporter : t # u /\ BfEntering(t) /\ BfEntering(u)
    \/ \E t \in BfReporter : BfEntering(t) /\ (bfReports # <<>> \/ BfGetComes)
    \/ Len(bfReports) > 1
    \/ bfReports # <<>> /\ BfGetComes
    \/ BfTwoGets
  BY DEF BfTwoCome, BfTwoGets

LEMMA BfReportsLength ==
  ASSUME BfTypesNow
  PROVE  /\ Len(bfReports) \in Nat /\ (bfReports = <<>> <=> Len(bfReports) = 0)
         /\ Len(Append(bfReports, bfModem.fifo)) = Len(bfReports) + 1
  BY DEF BfTypesNow, BfModems

LEMMA BfTwoIsOne ==
  ASSUME BfTypesNow, BfTwoCome PROVE BfOneComes
  BY BfReportsLength DEF BfTwoCome, BfOneComes, BfGetComes

LEMMA BfComeKeeps ==
  ASSUME BfTypesNow, BfTypesNow', \A t \in BfReporter : BfEntering(t) => BfEntering(t)',
         Len(bfReports') >= Len(bfReports), BfGetComes => BfGetComes', BfTwoGets => BfTwoGets'
  PROVE  (BfOneComes => BfOneComes') /\ (BfTwoCome => BfTwoCome')
<1>1. /\ Len(bfReports) \in Nat /\ (bfReports = <<>> <=> Len(bfReports) = 0)
      /\ Len(bfReports') \in Nat /\ (bfReports' = <<>> <=> Len(bfReports') = 0)
  BY BfReportsLength DEF BfTypesNow
<1> QED BY <1>1, BfTwoComeIs DEF BfOneComes, BfTwoCome, BfTwoGets

LEMMA BfGetsSame ==
  ASSUME UNCHANGED bfAsked, bfModem'.batching = bfModem.batching
  PROVE  (BfGetComes => BfGetComes') /\ (BfTwoGets => BfTwoGets')
  BY BfBatchesSame DEF BfGetAt, BfGetComes, BfTwoGets

LEMMA BfGetsAppended ==
  ASSUME BfTypesNow, NEW c \in BfCommand, bfAsked' = Append(bfAsked, c),
         bfModem'.batching = bfModem.batching
  PROVE  /\ (BfGetComes => BfGetComes') /\ (BfTwoGets => BfTwoGets')
         /\ c = "get" /\ BfWillBatch => BfGetComes' /\ (BfGetComes => BfTwoGets')
<1>0. PICK last : last = Len(bfAsked)
  OBVIOUS
<1>1. /\ Len(bfAsked') = last + 1 /\ last \in Nat /\ bfAsked'[last + 1] = c
      /\ \A i \in 1..last : bfAsked'[i] = bfAsked[i]
  BY <1>0, BfAppended
<1>2. \A n \in 1..(last + 1) : BfBatchesAt(n)' <=> BfBatchesAt(n)
  BY <1>0, BfBatchesAppended
<1>3. 1..last \subseteq 1..(last + 1) /\ last + 1 \in 1..(last + 1) /\ last + 1 \notin 1..last
  BY <1>1
<1>4. \A n \in 1..last : BfGetAt(n) => BfGetAt(n)'
  BY <1>0, <1>1, <1>2, <1>3 DEF BfGetAt
<1>5. c = "get" /\ BfWillBatch => BfGetAt(last + 1)'
  BY <1>0, <1>1, <1>2, <1>3 DEF BfWillBatch, BfGetAt
<1>6. BfGetComes <=> \E n \in 1..last : BfGetAt(n)
  BY <1>0 DEF BfGetComes
<1>7. BfGetComes' <=> \E n \in 1..(last + 1) : BfGetAt(n)'
  BY <1>1 DEF BfGetComes
<1>8. BfTwoGets <=> \E m, n \in 1..last : m # n /\ BfGetAt(m) /\ BfGetAt(n)
  BY <1>0 DEF BfTwoGets
<1>9. BfTwoGets' <=> \E m, n \in 1..(last + 1) : m # n /\ BfGetAt(m)' /\ BfGetAt(n)'
  BY <1>1 DEF BfTwoGets
<1> QED BY <1>3, <1>4, <1>5, <1>6, <1>7, <1>8, <1>9

LEMMA BfGetsHandled ==
  ASSUME BfTypesNow, BfOneSession, NEW c \in BfCommand, BfHandles(c),
         bfModem'.batching = IF c = "start" THEN TRUE
                             ELSE IF c = "stop" THEN FALSE ELSE bfModem.batching
  PROVE  /\ c # "get" \/ ~bfModem.batching =>
              (BfGetComes => BfGetComes') /\ (BfTwoGets => BfTwoGets')
         /\ BfTwoGets => BfGetComes'
<1>0. PICK last : last = Len(bfAsked')
  OBVIOUS
<1>1. /\ bfAsked[1] = c /\ 1 \in 1..Len(bfAsked) /\ Len(bfAsked) = last + 1 /\ last \in Nat
      /\ \A i \in 1..last : bfAsked'[i] = bfAsked[i + 1]
  BY <1>0, BfHandlesDoes DEF BfTypesNow
<1>2. \A n \in 1..(last + 1) : BfBatchesAt(n)' <=> BfBatchesAt(n + 1)
  BY <1>1, BfBatchesHandled
<1>3. ASSUME NEW n \in 1..(last + 1), n # 1, BfGetAt(n)
      PROVE  n - 1 \in 1..last /\ BfGetAt(n - 1)'
  BY <1>0, <1>1, <1>2, <1>3 DEF BfGetAt
<1>4. c # "get" \/ ~bfModem.batching => ~BfGetAt(1)
  BY <1>1 DEF BfGetAt, BfBatchesAt
<1>6. BfGetComes' <=> \E n \in 1..last : BfGetAt(n)'
  BY <1>0 DEF BfGetComes
<1>7. BfTwoGets <=> \E m, n \in 1..(last + 1) : m # n /\ BfGetAt(m) /\ BfGetAt(n)
  BY <1>1 DEF BfTwoGets
<1>11. ASSUME ~BfGetAt(1) PROVE (BfGetComes => BfGetComes') /\ (BfTwoGets => BfTwoGets')
  <2>2. ASSUME NEW m \in 1..(last + 1), NEW n \in 1..(last + 1), m # n, BfGetAt(m), BfGetAt(n)
        PROVE  BfTwoGets'
    BY <1>0, <1>1, <1>3, <1>11, <2>2 DEF BfTwoGets
  <2> QED BY <1>1, <1>3, <1>6, <1>7, <1>11, <2>2 DEF BfGetComes
<1> QED BY <1>3, <1>4, <1>6, <1>7, <1>11

(* A flush is reported: what keeps it so *)
LEMMA BfOwesKept ==
  ASSUME BfOwes, bfOwed' => bfOwed, bfFront.iface # BfNone => bfFront'.iface # BfNone,
         bfFront'.state = bfFront.state, UNCHANGED bfSteps, ~BfUnanswered => ~BfUnanswered',
         BfTelling => BfTelling', BfOneComes => BfOneComes', BfTwoCome => BfTwoCome'
  PROVE  BfOwes'
  BY DEF BfOwes, BfStopGets

LEMMA BfSessionBatches ==
  ASSUME BfWas, bfSession, ~BfUnanswered
  PROVE  BfWillBatch
<1>2. Len(bfAsked) \in Nat /\ (Len(bfAsked) + 1) - 1 = Len(bfAsked)
  BY DEF BfWas, BfTypesNow
<1> QED BY <1>2, BfStopAsked DEF BfWillBatch, BfBatchesAt, BfStartAt, BfWas, BfOneSession

LEMMA BfStopsListed ==
  /\ "stop" \in ToSet(BfStopSteps) /\ "stop" \in ToSet(BfToHalt) /\ "stop" \in ToSet(BfLast)
  /\ "stop" \in ToSet(BfCleanup)
  BY DEF ToSet, BfStopSteps, BfToHalt, BfLast, BfCleanup

LEMMA BfThreadsSame ==
  ASSUME UNCHANGED bfThreads
  PROVE  /\ \A t \in BfReporter : BfEntering(t) => BfEntering(t)'
         /\ BfTelling => BfTelling'
  BY DEF BfEntering, BfTelling

LEMMA BfBeginsOwes ==
  ASSUME BfWas, BfOwes, NEW b \in BfBinder, NEW steps \in BfLeft, BfBegins(b, steps),
         b = "death" => steps = BfCleanup, steps # BfToHalt
  PROVE  BfOwes'
<1>2. UNCHANGED <<bfFront, bfThreads, bfAsked, bfStops, bfModem, bfReports, bfOwed>>
  BY DEF BfBegins, bfBelow
<1>3. /\ BfTelling' <=> BfTelling
      /\ BfOneComes' <=> BfOneComes
      /\ BfTwoCome' <=> BfTwoCome
      /\ BfUnanswered' <=> BfUnanswered
  BY <1>2 DEF BfTelling, BfOneComes, BfTwoCome, BfUnanswered, BfGetComes, BfGetAt, BfEntering, BfBatchesAt
<1> QED BY <1>2, <1>3, BfDistinct, BfBeginsWhat DEF BfOwes, BfBinder, BfStopGets, BfWas

LEMMA BfOwesStep ==
  ASSUME BfWas, BfOwes, BfNext
  PROVE  BfOwes'
<1>1. ASSUME BfOperation PROVE BfOwes'
  <2>1. CASE BfBegins("framework", BfStarting)
    BY <2>1, BfBeginsOwes, BfDistinct DEF BfLeft, BfBinder
  <2>2. CASE BfBegins("framework", BfStopSteps)
    BY <2>2, BfBeginsOwes, BfDistinct DEF BfLeft, BfBinder
  <2>3. CASE BfBegins("framework", BfFlushing)
    BY <2>3, BfBeginsOwes, BfDistinct DEF BfLeft, BfBinder
  <2>4. ASSUME NEW b \in BfBinder, BfBegins(b, BfCleanup) PROVE BfOwes'
    BY <2>4, BfBeginsOwes, BfDistinct DEF BfLeft
  <2> QED BY <1>1, <2>1, <2>2, <2>3, <2>4, BfLists DEF BfOperation, BfStarting, BfFlushing
<1>2. ASSUME NEW c \in BfCallback, BfSetCallback(c) PROVE BfOwes'
  <2>1. UNCHANGED <<bfThreads, bfAsked, bfStops, bfModem, bfReports>>
    BY <1>2 DEF BfSetCallback, bfBelow
  <2>2. /\ BfTelling' <=> BfTelling
        /\ BfOneComes' <=> BfOneComes
        /\ BfTwoCome' <=> BfTwoCome
        /\ BfUnanswered' <=> BfUnanswered
    BY <2>1 DEF BfTelling, BfOneComes, BfTwoCome, BfUnanswered, BfGetComes, BfGetAt, BfEntering, BfBatchesAt
  <2> QED BY <1>2, <2>2, BfOwesKept, BfSetDoes, BfAssumption DEF BfWas, BfSetCallback, bfGhosts
<1>3. ASSUME NEW b \in BfBinder, BfStarted(b) PROVE BfOwes'
  <2>1. UNCHANGED <<bfThreads, bfAsked, bfStops, bfModem, bfReports>>
    BY <1>3 DEF BfStarted, BfDoes, bfBelow
  <2>2. /\ BfTelling' <=> BfTelling
        /\ BfOneComes' <=> BfOneComes
        /\ BfTwoCome' <=> BfTwoCome
        /\ BfUnanswered' <=> BfUnanswered
    BY <2>1 DEF BfTelling, BfOneComes, BfTwoCome, BfUnanswered, BfGetComes, BfGetAt, BfEntering, BfBatchesAt
  <2> QED BY <1>3, <2>2, BfStartedDoes, BfTwoIsOne, BfDistinct, BfDoesWhat DEF BfOwes, BfWas,
    BfStarted, BfStopGets, BfBinder
<1>4. ASSUME NEW b \in BfBinder, BfStoppingState(b) PROVE BfOwes'
  <2>1. UNCHANGED <<bfThreads, bfAsked, bfStops, bfModem, bfReports>>
    BY <1>4 DEF BfStoppingState, BfDoes, bfBelow
  <2>2. /\ BfTelling' <=> BfTelling
        /\ BfOneComes' <=> BfOneComes
        /\ BfTwoCome' <=> BfTwoCome
        /\ BfUnanswered' <=> BfUnanswered
    BY <2>1 DEF BfTelling, BfOneComes, BfTwoCome, BfUnanswered, BfGetComes, BfGetAt, BfEntering, BfBatchesAt
  <2>3. /\ bfFront'.state = "STOPPING" /\ bfFront'.iface = bfFront.iface
        /\ bfOwed' => bfOwed /\ bfFront.state = "STARTED" /\ ~BfUnanswered
    BY <1>4, BfStoppingDoes DEF BfWas, BfStoppingState
  <2>6. ASSUME bfOwed'
        PROVE  /\ bfSteps["death"] \in {<<>>, BfCleanup} /\ bfFront.iface # BfNone
               /\ BfTelling \/ BfOneComes \/ BfStopGets
    BY <2>3, <2>6 DEF BfOwes
  <2>7. ASSUME bfOwed'
        PROVE  /\ bfSteps'["death"] = bfSteps["death"] /\ BfStopGets' /\ ~BfStopGets
    BY <1>4, <2>6, <2>7, BfDistinct, BfDoesWhat DEF BfBinder, BfStopGets, BfWas, BfStoppingState
  <2> QED BY <2>2, <2>3, <2>6, <2>7 DEF BfOwes
<1>5. ASSUME NEW b \in BfBinder, BfUnset(b) PROVE BfOwes'
  BY <1>5 DEF BfUnset, BfOwes
<1>6. ASSUME NEW b \in BfBinder, BfStart(b) PROVE BfOwes'
  <2>1. BfDoes(b, "start") /\ UNCHANGED <<bfFront, bfThreads, bfOwed, bfModem, bfReports>>
    BY <1>6 DEF BfStart, BfDoes, bfBelow
  <2>3. (BfGetComes => BfGetComes') /\ (BfTwoGets => BfTwoGets')
    BY <1>6, <2>1, BfGetsSame, BfGetsAppended DEF BfStart, BfWas, BfCommand
  <2>4. /\ \A t \in BfReporter : BfEntering(t) => BfEntering(t)'
        /\ BfTelling => BfTelling'
    BY <2>1, BfThreadsSame
  <2>5. BfTypesNow /\ BfTypesNow'
    BY <1>6, BfStartDoes DEF BfWas
  <2>7. (BfOneComes => BfOneComes') /\ (BfTwoCome => BfTwoCome')
    BY <2>1, <2>3, <2>4, <2>5, BfComeKeeps, BfReportsLength
  <2> QED BY <2>1, <2>4, <2>7, BfDistinct, BfDoesWhat DEF BfOwes, BfStopGets, BfWas, BfBinder
<1>7. ASSUME NEW b \in BfBinder, BfFlush(b) PROVE BfOwes'
  <2>1. BfDoes(b, "flush") /\ UNCHANGED <<bfFront, bfModem, bfReports>>
    BY <1>7 DEF BfFlush, BfDoes, bfBelow
  <2>2. /\ bfSteps["framework"] = BfFlushing /\ bfSteps'["framework"] = <<>>
        /\ bfSteps'["death"] = bfSteps["death"]
    BY <2>1, BfDoesWhat DEF BfWas, BfBinder
  <2>3. ~BfStopGets /\ ~BfStopGets'
    BY <2>2, BfDistinct DEF BfStopGets
  <2>4. /\ BfTypesNow /\ BfTypesNow'
        /\ \/ bfSession /\ bfAsked' = Append(bfAsked, "get") /\ UNCHANGED bfThreads
           \/ ~bfSession /\ UNCHANGED bfAsked
              /\ \E t \in BfReporter \ {"adapter"} :
                   /\ bfThreads[t].at = "idle"
                   /\ bfThreads'[t] = [at |-> "enter", batch |-> <<>>]
                   /\ \A u \in BfReporter \ {t} : bfThreads'[u] = bfThreads[u]
    BY <1>7, BfFlushDoes DEF BfWas
  <2>5. (BfGetComes => BfGetComes') /\ (BfTwoGets => BfTwoGets')
    BY <2>1, <2>4, BfGetsSame, BfGetsAppended DEF BfCommand
  <2>6. /\ \A t \in BfReporter : BfEntering(t) => BfEntering(t)'
        /\ BfTelling => BfTelling'
    BY <2>4 DEF BfEntering, BfTelling
  <2>8. (BfOneComes => BfOneComes') /\ (BfTwoCome => BfTwoCome')
    BY <2>1, <2>4, <2>5, <2>6, BfComeKeeps, BfReportsLength
  <2>9. CASE bfOwed
    BY <2>1, <2>2, <2>3, <2>6, <2>8, <2>9 DEF BfOwes
  <2>10. CASE ~bfOwed
    <3> SUFFICES ASSUME bfFront.iface # BfNone, ~BfStopping, bfFront.state # "STOPPING" PROVE BfOwes'
      BY <1>7, <2>10 DEF BfOwes, BfFlush
    <3>2. ~BfUnanswered /\ "stop" \notin ToSet(bfSteps["death"])
      BY DEF BfStopping, BfBinder
    <3>4. BfOneComes'
      BY <2>1, <2>4, <3>2, BfSessionBatches, BfGetsAppended DEF BfCommand, BfOneComes,
        BfEntering
    <3> QED BY <2>1, <2>2, <2>3, <3>2, <3>4, BfStopsListed DEF BfOwes, BfWas, BfStepsAre,
      BfLeft, BfBinder
  <2> QED BY <2>9, <2>10
<1>8. ASSUME NEW b \in BfBinder, NEW c \in {"get", "stop"}, BfAsk(b, c) PROVE BfOwes'
  <2>1. BfDoes(b, c) /\ UNCHANGED <<bfFront, bfThreads, bfModem, bfReports>>
    BY <1>8 DEF BfAsk, BfDoes, bfBelow
  <2>2. PICK left \in BfLeft :
           /\ bfSteps'[b] = left /\ \A e \in BfBinder \ {b} : bfSteps'[e] = bfSteps[e]
           /\ \/ c = "get" /\ bfSteps[b] = BfToHalt /\ left = BfLast
              \/ c = "stop" /\ bfSteps[b] = BfLast /\ left = <<>>
    BY <2>1, BfDoesWhat DEF BfWas
  <2> SUFFICES ASSUME bfOwed' PROVE BfOwes'
    BY DEF BfOwes
  <2>3. bfOwed /\ bfSession /\ bfAsked' = Append(bfAsked, c)
    BY <1>8 DEF BfAsk
  <2>4. b = "framework"
    BY <2>2, <2>3, BfDistinct DEF BfOwes, BfBinder
  <2>5. bfSteps'["framework"] = left /\ bfSteps'["death"] = bfSteps["death"]
    BY <2>2, <2>4 DEF BfBinder
  <2>6. ~BfStopGets'
    BY <2>2, <2>5, BfDistinct DEF BfStopGets
  <2>7. /\ (BfGetComes => BfGetComes') /\ (BfTwoGets => BfTwoGets')
        /\ c = "get" /\ BfWillBatch => BfGetComes' /\ (BfGetComes => BfTwoGets')
    BY <2>1, <2>3, BfGetsAppended DEF BfWas, BfCommand
  <2>8. /\ \A t \in BfReporter : BfEntering(t) => BfEntering(t)'
        /\ BfTelling => BfTelling'
    BY <2>1, BfThreadsSame
  <2>9. BfTypesNow /\ BfTypesNow'
    BY <1>8, BfAskDoes DEF BfWas
  <2>11. (BfOneComes => BfOneComes') /\ (BfTwoCome => BfTwoCome')
    BY <2>1, <2>7, <2>8, <2>9, BfComeKeeps, BfReportsLength
  <2>12. CASE BfStopGets
    <3>1. c = "get"
      BY <2>2, <2>4, <2>12, BfDistinct DEF BfStopGets
    <3>2. BfWillBatch
      BY <2>3, <2>12, BfSessionBatches DEF BfOwes
    <3>3. BfOneComes'
      BY <2>7, <3>1, <3>2 DEF BfOneComes
    <3>4. BfOneComes => BfTwoCome'
      BY <2>1, <2>7, <2>8, <3>1, <3>2 DEF BfTwoCome, BfTwoGets, BfOneComes
    <3> QED BY <2>1, <2>3, <2>5, <2>6, <2>8, <2>11, <3>3, <3>4 DEF BfOwes
  <2>13. CASE ~BfStopGets
    BY <2>1, <2>3, <2>5, <2>6, <2>8, <2>11, <2>13 DEF BfOwes
  <2> QED BY <2>12, <2>13
<1>9. ASSUME BfFixDetermined PROVE BfOwes'
  <2>1. UNCHANGED <<bfSteps, bfThreads, bfFront>> /\ (bfOwed' <=> bfOwed)
    BY <1>9 DEF BfFixDetermined, BfOnlyBelow
  <2>2. BfTypesNow /\ BfTypesNow'
    BY <1>9, BfFixDoes DEF BfWas
  <2>3. (BfGetComes => BfGetComes') /\ (BfTwoGets => BfTwoGets')
    BY <1>9, BfFixDoes, BfGetsSame DEF BfWas, BfFixDetermined, BfOnlyBelow
  <2>4. /\ \A t \in BfReporter : BfEntering(t) => BfEntering(t)'
        /\ BfTelling => BfTelling'
    BY <2>1, BfThreadsSame
  <2>5. Len(bfReports') >= Len(bfReports)
    BY <1>9, <2>2, BfFixDoes, BfReportsLength DEF BfWas, BfFixDetermined, BfOnlyBelow
  <2>6. (BfOneComes => BfOneComes') /\ (BfTwoCome => BfTwoCome')
    BY <2>2, <2>3, <2>4, <2>5, BfComeKeeps
  <2> QED BY <1>9, <2>1, <2>4, <2>6, BfOwesKept DEF BfUnanswered, BfFixDetermined, BfOnlyBelow
<1>10. ASSUME BfFull PROVE BfOwes'
  <2>1. UNCHANGED <<bfSteps, bfThreads, bfFront>> /\ (bfOwed' <=> bfOwed)
    BY <1>10 DEF BfFull, BfOnlyBelow
  <2>2. BfTypesNow /\ BfTypesNow'
    BY <1>10, BfFullDoes DEF BfWas
  <2>3. (BfGetComes => BfGetComes') /\ (BfTwoGets => BfTwoGets')
    BY <1>10, BfFullDoes, BfGetsSame DEF BfWas, BfFull, BfOnlyBelow
  <2>4. /\ \A t \in BfReporter : BfEntering(t) => BfEntering(t)'
        /\ BfTelling => BfTelling'
    BY <2>1, BfThreadsSame
  <2>5. Len(bfReports') >= Len(bfReports)
    BY <1>10, <2>2, BfFullDoes, BfReportsLength DEF BfWas, BfFull, BfOnlyBelow
  <2>6. (BfOneComes => BfOneComes') /\ (BfTwoCome => BfTwoCome')
    BY <2>2, <2>3, <2>4, <2>5, BfComeKeeps
  <2> QED BY <1>10, <2>1, <2>4, <2>6, BfOwesKept DEF BfUnanswered, BfFull, BfOnlyBelow
<1>11. ASSUME BfHandleStart PROVE BfOwes'
  <2>1. UNCHANGED <<bfSteps, bfThreads, bfFront>> /\ (bfOwed' <=> bfOwed)
    BY <1>11 DEF BfHandleStart, BfHandles, BfOnlyBelow
  <2>2. BfTypesNow /\ BfTypesNow'
    BY <1>11, BfHandleStartDoes DEF BfWas
  <2>3. (BfGetComes => BfGetComes') /\ (BfTwoGets => BfTwoGets')
    BY <1>11, BfHandleStartDoes, BfGetsHandled DEF BfWas, BfCommand, BfHandleStart
  <2>4. /\ \A t \in BfReporter : BfEntering(t) => BfEntering(t)'
        /\ BfTelling => BfTelling'
    BY <2>1, BfThreadsSame
  <2>5. Len(bfReports') >= Len(bfReports)
    BY <1>11, <2>2, BfHandleStartDoes, BfReportsLength DEF BfWas, BfHandleStart, BfHandles,
      BfOnlyBelow
  <2>6. (BfOneComes => BfOneComes') /\ (BfTwoCome => BfTwoCome')
    BY <2>2, <2>3, <2>4, <2>5, BfComeKeeps
  <2>7. ~BfUnanswered => ~BfUnanswered'
    <3>2. BfUnanswered' <=> bfStops' = 1 \/ \E i \in 1..Len(bfAsked') : bfAsked'[i] = "stop"
      <4>1. bfAsked' \in Seq(BfCommand) /\ bfStops' \in {0, 1}
        BY <2>2 DEF BfTypesNow
      <4> QED BY <4>1, ElementsOf DEF BfUnanswered
    <3> QED BY <1>11, <2>2, <3>2, BfStopAsked, BfHandlesDoes DEF BfWas, BfHandleStart
  <2> QED BY <2>1, <2>4, <2>6, <2>7, BfOwesKept
<1>12. ASSUME BfHandleGet PROVE BfOwes'
  <2>1. UNCHANGED <<bfSteps, bfThreads, bfFront>> /\ (bfOwed' <=> bfOwed)
    BY <1>12 DEF BfHandleGet, BfHandles, BfOnlyBelow
  <2>2. BfTypesNow /\ BfTypesNow'
    BY <1>12, BfHandleGetDoes DEF BfWas
  <2>4. /\ \A t \in BfReporter : BfEntering(t) => BfEntering(t)'
        /\ BfTelling => BfTelling'
    BY <2>1, BfThreadsSame
  <2>5. Len(bfReports') >= Len(bfReports)
    BY <1>12, <2>2, BfHandleGetDoes, BfReportsLength DEF BfWas, BfHandleGet, BfHandles,
      BfOnlyBelow
  <2>6. (BfOneComes => BfOneComes') /\ (BfTwoCome => BfTwoCome')
    <3>1. /\ ~bfModem.batching => (BfGetComes => BfGetComes') /\ (BfTwoGets => BfTwoGets')
          /\ BfTwoGets => BfGetComes'
      BY <1>12, BfHandleGetDoes, BfGetsHandled DEF BfWas, BfCommand, BfHandleGet
    <3>2. CASE ~bfModem.batching
      BY <2>2, <2>4, <2>5, <3>1, <3>2, BfComeKeeps
    <3>3. CASE bfModem.batching
      <4>2. bfReports' # <<>> /\ (bfReports # <<>> => Len(bfReports') > 1) /\ (Len(bfReports) > 1 => Len(bfReports') > 1)
        BY <1>12, <2>2, <3>3, BfReportsLength, BfHandleGetDoes DEF BfWas
      <4> QED BY <2>4, <3>1, <4>2, BfTwoComeIs DEF BfOneComes, BfTwoCome, BfTwoGets
    <3> QED BY <3>2, <3>3
  <2>7. ~BfUnanswered => ~BfUnanswered'
    <3>2. BfUnanswered' <=> bfStops' = 1 \/ \E i \in 1..Len(bfAsked') : bfAsked'[i] = "stop"
      <4>1. bfAsked' \in Seq(BfCommand) /\ bfStops' \in {0, 1}
        BY <2>2 DEF BfTypesNow
      <4> QED BY <4>1, ElementsOf DEF BfUnanswered
    <3> QED BY <1>12, <2>2, <3>2, BfStopAsked, BfHandlesDoes DEF BfWas, BfHandleGet
  <2> QED BY <2>1, <2>4, <2>6, <2>7, BfOwesKept
<1>13. ASSUME BfHandleStop PROVE BfOwes'
  <2>1. UNCHANGED <<bfSteps, bfThreads, bfFront>> /\ (bfOwed' <=> bfOwed)
    BY <1>13 DEF BfHandleStop, BfHandles, BfOnlyBelow
  <2>2. BfTypesNow /\ BfTypesNow'
    BY <1>13, BfHandleStopDoes DEF BfWas
  <2>3. (BfGetComes => BfGetComes') /\ (BfTwoGets => BfTwoGets')
    BY <1>13, BfHandleStopDoes, BfGetsHandled DEF BfWas, BfCommand, BfHandleStop
  <2>4. /\ \A t \in BfReporter : BfEntering(t) => BfEntering(t)'
        /\ BfTelling => BfTelling'
    BY <2>1, BfThreadsSame
  <2>5. Len(bfReports') >= Len(bfReports)
    BY <1>13, <2>2, BfHandleStopDoes, BfReportsLength DEF BfWas, BfHandleStop, BfHandles,
      BfOnlyBelow
  <2>6. (BfOneComes => BfOneComes') /\ (BfTwoCome => BfTwoCome')
    BY <2>2, <2>3, <2>4, <2>5, BfComeKeeps
  <2>7. BfUnanswered
    BY <1>13, <2>2, BfHandlesDoes, BfStopAsked DEF BfWas, BfHandleStop
  <2> QED BY <2>1, <2>4, <2>6, <2>7, BfOwesKept
<1>14. ASSUME BfStopAnswered PROVE BfOwes'
  <2>1. UNCHANGED <<bfSteps, bfThreads, bfFront>> /\ (bfOwed' <=> bfOwed)
    BY <1>14 DEF BfStopAnswered, BfOnlyBelow
  <2>2. BfTypesNow /\ BfTypesNow'
    BY <1>14, BfAnsweredDoes DEF BfWas
  <2>3. (BfGetComes => BfGetComes') /\ (BfTwoGets => BfTwoGets')
    BY <1>14, BfAnsweredDoes, BfGetsSame DEF BfWas, BfStopAnswered, BfOnlyBelow
  <2>4. /\ \A t \in BfReporter : BfEntering(t) => BfEntering(t)'
        /\ BfTelling => BfTelling'
    BY <2>1, BfThreadsSame
  <2>5. Len(bfReports') >= Len(bfReports)
    BY <1>14, <2>2, BfAnsweredDoes, BfReportsLength DEF BfWas, BfStopAnswered, BfOnlyBelow
  <2>6. (BfOneComes => BfOneComes') /\ (BfTwoCome => BfTwoCome')
    BY <2>2, <2>3, <2>4, <2>5, BfComeKeeps
  <2> QED BY <1>14, <2>1, <2>4, <2>6, BfOwesKept, BfAnsweredDoes DEF BfWas, BfStopAnswered,
    BfUnanswered
<1>15. ASSUME BfTake PROVE BfOwes'
  <2>1. /\ BfTypesNow /\ BfTypesNow' /\ bfThreads["adapter"].at = "idle" /\ bfThreads'["adapter"].at = "enter"
        /\ \A u \in BfReporter \ {"adapter"} : bfThreads'[u] = bfThreads[u]
        /\ Len(bfReports') = Len(bfReports) - 1 /\ bfReports # <<>>
    BY <1>15, BfTakeDoes DEF BfWas
  <2>2. UNCHANGED <<bfFront, bfOwed, bfSteps, bfAsked, bfStops, bfModem>>
    BY <1>15 DEF BfTake, BfOnlyReports, bfGhosts
  <2>4. "adapter" \in BfReporter /\ BfEntering("adapter")' /\ ~BfEntering("adapter")
    BY <2>1, BfHandFacts DEF BfEntering
  <2>5. /\ \A t \in BfReporter : BfEntering(t) => BfEntering(t)' /\ t # "adapter"
        /\ BfTelling => BfTelling'
    BY <2>1 DEF BfEntering, BfTelling
  <2>6. Len(bfReports) > 1 => bfReports' # <<>>
    BY <2>1, BfReportsLength
  <2>9. BfTwoCome => BfTwoCome'
    BY <2>2, <2>4, <2>5, <2>6, BfTwoComeIs, BfGetsSame DEF BfTwoCome, BfTwoGets, BfGetComes
  <2> QED BY <2>2, <2>4, <2>5, <2>9, BfOwesKept DEF BfUnanswered, BfOneComes
<1>16. ASSUME NEW t \in BfReporter, BfCache(t) PROVE BfOwes'
  <2>1. /\ BfTypesNow /\ bfThreads'[t].at = "idle" /\ \A u \in BfReporter \ {t} : bfThreads'[u] = bfThreads[u]
        /\ bfFront'.state = "STOPPED" /\ bfFront'.iface = bfFront.iface
    BY <1>16, BfCacheDoes DEF BfWas
  <2>2. /\ UNCHANGED <<bfOwed, bfSteps, bfAsked, bfStops, bfModem, bfReports>>
        /\ bfThreads[t].at = "enter" /\ bfFront.state = "STOPPING"
    BY <1>16 DEF BfCache, BfEnters, BfOnlyReports
  <2>3. (BfGetComes => BfGetComes') /\ (BfStopGets' <=> BfStopGets) /\ (BfUnanswered' <=> BfUnanswered)
    BY <2>2, BfGetsSame DEF BfStopGets, BfUnanswered
  <2>4. /\ \A u \in BfReporter \ {t} : BfEntering(u) => BfEntering(u)'
        /\ BfTelling => BfTelling'
    BY <2>1, <2>2 DEF BfEntering, BfTelling
  <2> QED BY <2>1, <2>2, <2>3, <2>4, BfTwoComeIs, BfReportsLength DEF BfOwes, BfOneComes,
    BfTwoGets, BfGetComes
<1>17. ASSUME NEW t \in BfReporter, BfCopy(t) PROVE BfOwes'
  <2>2. UNCHANGED <<bfFront, bfOwed, bfSteps, bfAsked, bfStops>>
    BY <1>17 DEF BfCopy, BfEnters, BfOnlyReports
  <2> QED BY <1>17, <2>2, BfCopyDoes DEF BfOwes, BfTelling, BfStopGets, BfUnanswered, BfWas
<1>18. ASSUME NEW t \in BfReporter, BfDrop(t) PROVE BfOwes'
  BY <1>18 DEF BfDrop, BfOwes
<1>19. ASSUME NEW t \in BfReporter, BfTell(t) PROVE BfOwes'
  BY <1>19 DEF BfTell, BfOwes
<1>20. ASSUME NEW t \in BfReporter, BfClear(t) PROVE BfOwes'
  <2>1. /\ BfTypesNow /\ BfTypesNow' /\ bfThreads'[t].at = "idle"
        /\ \A u \in BfReporter \ {t} : bfThreads'[u] = bfThreads[u]
        /\ bfFront'.state = bfFront.state /\ bfFront'.iface = bfFront.iface
    BY <1>20, BfClearDoes DEF BfWas
  <2>2. UNCHANGED <<bfOwed, bfSteps, bfAsked, bfStops, bfModem, bfReports>> /\ bfThreads[t].at = "clear"
    BY <1>20 DEF BfClear, BfOnlyReports, bfGhosts
  <2>4. /\ \A u \in BfReporter : BfEntering(u) => BfEntering(u)'
        /\ BfTelling => BfTelling'
    BY <2>1, <2>2 DEF BfEntering, BfTelling
  <2>6. (BfOneComes => BfOneComes') /\ (BfTwoCome => BfTwoCome')
    BY <2>1, <2>2, <2>4, BfComeKeeps, BfGetsSame, BfReportsLength
  <2> QED BY <2>1, <2>2, <2>4, <2>6, BfOwesKept DEF BfUnanswered
<1> QED BY <1>1, <1>2, <1>3, <1>4, <1>5, <1>6, <1>7, <1>8, <1>9, <1>10, <1>11, <1>12, <1>13, <1>14, <1>15, <1>16, <1>17, <1>18, <1>19, <1>20 DEF BfNext

-----------------------------------------------------------------------------
(* The line of locations: told, in hand, taken, reported and in the modem  *)

(* A location goes from one place to the next, and the line stays          *)
LEMMA LineMoves ==
  ASSUME NEW S, NEW a \in Seq(S), NEW x \in Seq(S), NEW e \in Seq(S), NEW f \in Seq(S), NEW m \in Seq(S)
  PROVE  /\ Line(a \o x, <<>>, e, f, m) = Line(a, x, e, f, m)
         /\ Line(a, x \o e, <<>>, f, m) = Line(a, x, e, f, m)
         /\ Line(a, x, <<>>, e \o f, m) = Line(a, x, e, f, m)
         /\ Line(a, x, e, f \o m, <<>>) = Line(a, x, e, f, m)
<1> DEFINE JLine(i, j, k, l, n) == Join(Join(Join(Join(i, j), k), l), n)
<1>1. \A i, j, k, l, n : Line(i, j, k, l, n) = JLine(i, j, k, l, n)
  BY DEF Line, Join
<1>2. /\ a \in Lists(S) /\ x \in Lists(S) /\ e \in Lists(S) /\ f \in Lists(S) /\ m \in Lists(S)
      /\ a \o x = Join(a, x) /\ x \o e = Join(x, e) /\ e \o f = Join(e, f) /\ f \o m = Join(f, m)
      /\ <<>> = Nothing
  BY DEF Lists, Join, Nothing
<1>3. /\ \A i, j \in Lists(S) : Join(i, j) \in Lists(S)
      /\ \A i, j, k \in Lists(S) : Join(Join(i, j), k) = Join(i, Join(j, k))
      /\ \A i \in Lists(S) : Join(i, Nothing) = i /\ Join(Nothing, i) = i
  BY Joins
<1>4. JLine(Join(a, x), Nothing, e, f, m) = JLine(a, x, e, f, m)
  BY <1>2, <1>3
<1>5. JLine(a, Join(x, e), Nothing, f, m) = JLine(a, x, e, f, m)
  BY <1>2, <1>3
<1>6. JLine(a, x, Nothing, Join(e, f), m) = JLine(a, x, e, f, m)
  BY <1>2, <1>3
<1>7. JLine(a, x, e, Join(f, m), Nothing) = JLine(a, x, e, f, m)
  <2>1. PICK k \in Lists(S) : k = Join(Join(a, x), e)
    BY <1>2, <1>3
  <2> QED BY <1>2, <1>3, <2>1
<1> HIDE DEF JLine
<1> QED BY <1>1, <1>2, <1>4, <1>5, <1>6, <1>7

(* Locations are taken out of the line, and are gone *)
LEMMA TakenOut ==
  ASSUME NEW S, S \subseteq Nat, NEW p \in Seq(S), NEW d \in Seq(S), NEW q \in Seq(S), NEW n, NEW g,
         Exactly(p \o (d \o q), n, g)
  PROVE  Exactly(p \o q, n, g \cup ToSet(d)) /\ ToSet(d) \subseteq 1..n
<1>0. PICK dq : dq = d \o q
  OBVIOUS
<1>1. dq \in Seq(S) /\ dq = d \o q
  BY <1>0
<1>2. InOrder(p \o dq) /\ ToSet(p \o dq) = (1..n) \ g
  BY <1>1 DEF Exactly
<1>3. InOrder(p) /\ InOrder(dq) /\ \A x \in ToSet(p), y \in ToSet(dq) : x < y
  BY <1>1, <1>2, BothInOrder
<1>4. InOrder(d) /\ InOrder(q) /\ \A x \in ToSet(d), y \in ToSet(q) : x < y
  BY <1>1, <1>3, BothInOrder
<1>5. ToSet(p \o dq) = ToSet(p) \cup ToSet(dq)
  <2>1. dq \in Seq(S)
    BY <1>1
  <2> QED BY <2>1, ElementsOfBoth
<1>6. ToSet(dq) = ToSet(d) \cup ToSet(q)
  BY <1>1, ElementsOfBoth
<1>8. InOrder(p \o q)
  BY <1>3, <1>4, <1>6, BothInOrder
<1>9. ToSet(p) \subseteq Nat /\ ToSet(d) \subseteq Nat /\ ToSet(q) \subseteq Nat
  BY ElementsOf
<1>10. \A x \in ToSet(p) : x \notin ToSet(d)
  BY <1>3, <1>6, <1>9
<1>11. \A x \in ToSet(q) : x \notin ToSet(d)
  BY <1>4, <1>9
<1>12. ToSet(p \o q) = (1..n) \ (g \cup ToSet(d))
  BY <1>2, <1>5, <1>6, <1>10, <1>11, ElementsOfBoth
<1> QED BY <1>2, <1>5, <1>6, <1>8, <1>12 DEF Exactly

(* A location is determined, the latest *)
LEMMA OneMore ==
  ASSUME NEW S, S \subseteq Nat, NEW s \in Seq(S), NEW n \in Nat, n + 1 \in S, NEW g,
         g \subseteq 1..n, Exactly(s, n, g)
  PROVE  Exactly(Append(s, n + 1), n + 1, g)
<1>1. PICK v \in S : v = n + 1
  OBVIOUS
<1>0. PICK u : u = <<v>>
  OBVIOUS
<1>2. u \in Seq(S) /\ u = <<v>>
  BY <1>0
<1>3. Append(s, v) = s \o u
  BY <1>2, AppendIsConcat
<1>4. ToSet(u) = {v} /\ InOrder(u)
  BY <1>1, <1>2 DEF ToSet, InOrder
<1>5. ToSet(s) = (1..n) \ g /\ InOrder(s)
  BY DEF Exactly
<1>6. InOrder(s \o u)
  <2>1. \A x \in ToSet(s), y \in ToSet(u) : x < y
    BY <1>1, <1>4, <1>5
  <2> QED BY <1>2, <1>4, <1>5, <2>1, BothInOrder
<1>7. ToSet(Append(s, v)) = ToSet(s) \cup {v}
  BY ElementsWith
<1>8. (1..(n + 1)) \ g = ((1..n) \ g) \cup {n + 1}
  OBVIOUS
<1> QED BY <1>1, <1>3, <1>5, <1>6, <1>7, <1>8 DEF Exactly

LEMMA LineDrops ==
  ASSUME NEW S, S \subseteq Nat, NEW a \in Seq(S), NEW x \in Seq(S), NEW e \in Seq(S), NEW f \in Seq(S),
         NEW m \in Seq(S), NEW n, NEW g, Exactly(Line(a, x, e, f, m), n, g)
  PROVE  /\ Exactly(Line(a, <<>>, e, f, m), n, g \cup ToSet(x)) /\ ToSet(x) \subseteq 1..n
         /\ Exactly(Line(a, x, e, f, <<>>), n, g \cup ToSet(m)) /\ ToSet(m) \subseteq 1..n
<1> DEFINE JLine(i, j, k, l, w) == Join(Join(Join(Join(i, j), k), l), w)
<1>1. \A i, j, k, l, w : Line(i, j, k, l, w) = JLine(i, j, k, l, w)
  BY DEF Line, Join
<1>2. /\ a \in Lists(S) /\ x \in Lists(S) /\ e \in Lists(S) /\ f \in Lists(S) /\ m \in Lists(S)
      /\ <<>> = Nothing
  BY DEF Lists, Nothing
<1>3. /\ \A i, j \in Lists(S) : Join(i, j) \in Lists(S)
      /\ \A i, j, k \in Lists(S) : Join(Join(i, j), k) = Join(i, Join(j, k))
      /\ \A i \in Lists(S) : Join(i, Nothing) = i /\ Join(Nothing, i) = i
      /\ Nothing \in Lists(S)
  BY Joins
<1>4. PICK q \in Lists(S) : q = Join(Join(e, f), m)
  BY <1>2, <1>3
<1>5. PICK r \in Lists(S) : r = Join(Join(Join(a, x), e), f)
  BY <1>2, <1>3
<1>6. JLine(a, x, e, f, m) = Join(a, Join(x, q))
  <2>1. PICK k \in Lists(S) : k = Join(a, x)
    BY <1>2, <1>3
  <2> QED BY <1>2, <1>3, <1>4, <2>1
<1>7. JLine(a, Nothing, e, f, m) = Join(a, q)
  BY <1>2, <1>3, <1>4
<1>8. JLine(a, x, e, f, m) = Join(r, Join(m, Nothing)) /\ JLine(a, x, e, f, Nothing) = Join(r, Nothing)
  BY <1>2, <1>3, <1>5
<1> HIDE DEF JLine
<1>9. q \in Seq(S) /\ r \in Seq(S)
  BY DEF Lists
<1>10. Exactly(a \o (x \o q), n, g) /\ Exactly(r \o (m \o <<>>), n, g)
  BY <1>1, <1>6, <1>8 DEF Join, Nothing
<1>11. Exactly(a \o q, n, g \cup ToSet(x)) /\ ToSet(x) \subseteq 1..n
  BY <1>9, <1>10, TakenOut
<1>12. Exactly(r \o <<>>, n, g \cup ToSet(m)) /\ ToSet(m) \subseteq 1..n
  <2>1. r \in Seq(S) /\ <<>> \in Seq(S) /\ Exactly(r \o (m \o <<>>), n, g)
    BY <1>9, <1>10
  <2> QED BY <2>1, TakenOut
<1> QED BY <1>1, <1>2, <1>7, <1>8, <1>11, <1>12 DEF Join, Nothing

LEMMA LineAppend ==
  ASSUME NEW S, NEW a \in Seq(S), NEW x \in Seq(S), NEW e \in Seq(S), NEW f \in Seq(S), NEW m \in Seq(S),
         NEW v \in S
  PROVE  Line(a, x, e, f, Append(m, v)) = Append(Line(a, x, e, f, m), v) /\ Line(a, x, e, f, m) \in Seq(S)
<1>1. PICK b : b = ((a \o x) \o e) \o f
  OBVIOUS
<1>2. b \in Seq(S)
  BY <1>1
<1>3. PICK u : u = <<v>>
  OBVIOUS
<1>5. PICK bm : bm = b \o m
  OBVIOUS
<1>6. bm \in Seq(S)
  BY <1>2, <1>5
<1>7. Append(m, v) = m \o u
  BY <1>3, AppendIsConcat
<1>8. Append(bm, v) = bm \o u
  BY <1>3, <1>6, AppendIsConcat
<1>9. bm \o u = b \o (m \o u)
  <2>2. b \in Lists(S) /\ m \in Lists(S) /\ u \in Lists(S)
    BY <1>2, <1>3 DEF Lists
  <2>3. Join(Join(b, m), u) = Join(b, Join(m, u))
    BY <2>2, Joins
  <2> QED BY <1>5, <2>3 DEF Join
<1> QED BY <1>1, <1>5, <1>6, <1>7, <1>8, <1>9 DEF Line

-----------------------------------------------------------------------------
(* Each location is told once, in order, or on its way                     *)

BfFixLists == Seq(BfFix)

LEMMA BfLineTypes ==
  ASSUME BfTypesNow
  PROVE  /\ bfTold \in BfFixLists /\ bfFront.cache \in BfFixLists /\ BfTaken \in BfFixLists
         /\ FlattenSeq(bfReports) \in BfFixLists /\ bfModem.fifo \in BfFixLists
         /\ \A t \in BfReporter : bfThreads[t].batch \in BfFixLists
         /\ bfFixes \in Nat /\ BfFix \subseteq Nat /\ <<>> \in BfFixLists
<1>3. \A t \in BfReporter : bfThreads[t].batch \in Seq(BfFix)
  BY DEF BfTypesNow, BfHands
<1>4. BfTaken \in Seq(BfFix)
  BY <1>3 DEF BfTaken, BfReporter
<1> QED BY <1>3, <1>4, BfAssumption, FlattenTypes DEF BfFixLists, BfTypesNow, BfFronts,
  BfModems, BfFix

(* No thread has made something of the cache, or one has                   *)
LEMMA BfHandOfNone ==
  ASSUME \A t \in BfReporter : bfThreads[t].at \notin {"tell", "clear"}
  PROVE  /\ \A t, u \in BfTellers : t = u
         /\ \A x : BfHand(x) <=> x = bfFront.cache
  BY DEF BfTellers, BfHand

LEMMA BfHandOfTeller ==
  ASSUME NEW t \in BfReporter, bfThreads[t].at = "tell",
         \A u \in BfReporter \ {t} : bfThreads[u].at \notin {"tell", "clear"}
  PROVE  /\ \A v, u \in BfTellers : v = u
         /\ \A x : BfHand(x) <=> x = bfThreads[t].batch
  BY DEF BfTellers, BfHand

LEMMA BfHandOfClearer ==
  ASSUME NEW t \in BfReporter, bfThreads[t].at = "clear",
         \A u \in BfReporter \ {t} : bfThreads[u].at \notin {"tell", "clear"}
  PROVE  /\ \A v, u \in BfTellers : v = u
         /\ \A x : BfHand(x) <=> x = <<>>
  BY DEF BfTellers, BfHand

(* The only one that is at it *)
LEMMA BfOnlyTeller ==
  ASSUME BfEachThere, NEW t \in BfReporter, bfThreads[t].at \in {"tell", "clear"}
  PROVE  \A u \in BfReporter \ {t} : bfThreads[u].at \notin {"tell", "clear"}
  BY DEF BfEachThere, BfTellers

LEMMA BfHandSame ==
  ASSUME bfFront'.cache = bfFront.cache,
         \A t \in BfReporter :
           \/ bfThreads'[t] = bfThreads[t]
           \/ bfThreads[t].at \notin {"tell", "clear"} /\ bfThreads'[t].at \notin {"tell", "clear"}
  PROVE  BfTellers' = BfTellers /\ \A x : BfHand(x)' <=> BfHand(x)
  BY DEF BfTellers, BfHand

(* Steps that leave the hands and the numbers as they are: it is enough    *)
(* that the line stays                                                     *)
LEMMA BfLineKept ==
  ASSUME BfEachThere, BfTellers' = BfTellers, \A x : BfHand(x)' <=> BfHand(x),
         \A x \in BfFixLists : BfLineIs(x)' = BfLineIs(x), UNCHANGED <<bfFixes, bfGone>>
  PROVE  BfEachThere'
  BY DEF BfEachThere, BfFixLists

LEMMA BfLineSame ==
  ASSUME BfEachThere, UNCHANGED <<bfTold, bfReports, bfModem, bfFixes, bfGone>>,
         bfFront'.cache = bfFront.cache,
         \A t \in BfReporter :
           \/ bfThreads'[t] = bfThreads[t]
           \/ /\ t # "adapter"
              /\ bfThreads[t].at \notin {"tell", "clear"} /\ bfThreads'[t].at \notin {"tell", "clear"}
  PROVE  BfEachThere'
  BY BfHandSame, BfLineKept DEF BfTaken, BfReporter, BfLineIs

LEMMA BfOldLine ==
  ASSUME BfEachThere, NEW h \in BfFixLists, BfHand(h)
  PROVE  Exactly(BfLineIs(h), bfFixes, bfGone)
  BY DEF BfEachThere, BfFixLists

LEMMA BfNewLine ==
  ASSUME NEW h, \A t, u \in BfTellers' : t = u, \A x : BfHand(x)' <=> x = h,
         bfGone' \subseteq 1..bfFixes', Exactly(BfLineIs(h)', bfFixes', bfGone')
  PROVE  BfEachThere'
  BY DEF BfEachThere

LEMMA BfTakeLine ==
  ASSUME BfTypesNow, BfStepsAre, BfEachThere, BfTake
  PROVE  BfEachThere'
<1>1. /\ bfThreads["adapter"].at = "idle"
      /\ bfThreads'["adapter"].at = "enter" /\ bfThreads'["adapter"].batch = Head(bfReports)
      /\ \A u \in BfReporter \ {"adapter"} : bfThreads'[u] = bfThreads[u]
      /\ Head(bfReports) \in Seq(BfFix) /\ bfReports # <<>> /\ bfReports' = Tail(bfReports)
  BY BfTakeDoes
<1>2. UNCHANGED <<bfFront, bfTold, bfModem, bfFixes, bfGone>>
  BY DEF BfTake, bfGhosts, BfOnlyReports
<1>4. PICK e : e = Head(bfReports)
  OBVIOUS
<1>5. PICK f : f = FlattenSeq(Tail(bfReports))
  OBVIOUS
<1>6. Tail(bfReports) \in Seq(Seq(BfFix)) /\ bfReports \in Seq(Seq(BfFix))
  BY <1>1 DEF BfTypesNow
<1>8. f \in Seq(BfFix)
  BY <1>5, <1>6, FlattenTypes
<1>9. FlattenSeq(bfReports) = e \o f
  BY <1>1, <1>4, <1>5, <1>6, FlattenHead
<1>10. BfTaken = <<>> /\ BfTaken' = e /\ FlattenSeq(bfReports') = f
  BY <1>1, <1>4, <1>5 DEF BfTaken
<1>11. PICK a \in BfFixLists, m \in BfFixLists : a = bfTold /\ m = bfModem.fifo
  BY BfLineTypes
<1>12. ASSUME NEW x \in BfFixLists PROVE BfLineIs(x)' = BfLineIs(x)
  <2>2. Line(a, x, <<>>, e \o f, m) = Line(a, x, e, f, m)
    BY <1>1, <1>4, <1>8, LineMoves DEF BfFixLists
  <2> QED BY <1>2, <1>9, <1>10, <1>11, <2>2 DEF BfLineIs
<1> QED BY <1>1, <1>2, <1>12, BfLineKept, BfHandSame

LEMMA BfReportedLine ==
  ASSUME BfTypesNow, BfEachThere, bfReports' = Append(bfReports, bfModem.fifo), bfModem'.fifo = <<>>,
         UNCHANGED <<bfFront, bfThreads, bfTold, bfFixes, bfGone>>
  PROVE  BfEachThere'
<1>2. PICK a \in BfFixLists, e \in BfFixLists, f \in BfFixLists, m \in BfFixLists :
        a = bfTold /\ e = BfTaken /\ f = FlattenSeq(bfReports) /\ m = bfModem.fifo
  BY BfLineTypes
<1>3. FlattenSeq(bfReports') = f \o m
  BY <1>2, FlattenAppend DEF BfTypesNow, BfFixLists
<1>4. BfTaken' = e
  BY <1>2 DEF BfTaken
<1>5. ASSUME NEW x \in BfFixLists PROVE BfLineIs(x)' = BfLineIs(x)
  BY <1>2, <1>3, <1>4, LineMoves DEF BfFixLists, BfLineIs
<1> QED BY <1>5, BfLineKept, BfHandSame

LEMMA BfFixLine ==
  ASSUME BfTypesNow, BfStepsAre, BfEachThere, BfFixDetermined
  PROVE  BfEachThere'
<1>1. bfModem'.fifo = Append(bfModem.fifo, bfFixes + 1) /\ bfFixes' = bfFixes + 1
  BY BfFixDoes DEF BfFixDetermined
<1>2. UNCHANGED <<bfFront, bfThreads, bfTold, bfReports, bfGone>>
  BY DEF BfFixDetermined, BfOnlyBelow
<1>3. BfTellers' = BfTellers /\ \A x : BfHand(x)' <=> BfHand(x)
  BY <1>2, BfHandSame
<1>4. PICK a \in BfFixLists, e \in BfFixLists, f \in BfFixLists, m \in BfFixLists, n \in Nat :
        a = bfTold /\ e = BfTaken /\ f = FlattenSeq(bfReports) /\ m = bfModem.fifo /\ n = bfFixes
  BY BfLineTypes
<1>6. n + 1 \in BfFix /\ BfFix \subseteq Nat
  BY <1>4, BfLineTypes, BfAssumption DEF BfFixDetermined, BfMore, BfTypesNow, BfFix
<1>7. PICK g : g = bfGone
  OBVIOUS
<1>8. g \subseteq 1..n /\ \A t, u \in BfTellers : t = u
  BY <1>4, <1>7 DEF BfEachThere
<1>9. g \subseteq 1..(n + 1)
  BY <1>8
<1>10. ASSUME NEW x \in BfFixLists, BfHand(x) PROVE Exactly(BfLineIs(x)', n + 1, g)
  <2>2. PICK v \in BfFix : v = n + 1
    BY <1>6
  <2>3. /\ Line(a, x, e, f, Append(m, v)) = Append(Line(a, x, e, f, m), v)
        /\ Line(a, x, e, f, m) \in Seq(BfFix)
    BY LineAppend DEF BfFixLists
  <2>5. BfLineIs(x)' = Line(a, x, e, f, Append(m, v))
    BY <1>1, <1>2, <1>4, <2>2 DEF BfLineIs, BfTaken
  <2>6. Exactly(Line(a, x, e, f, m), n, g)
    BY <1>4, <1>7, <1>10, BfOldLine DEF BfLineIs
  <2>7. PICK s \in Seq(BfFix) : s = Line(a, x, e, f, m)
    BY <2>3
  <2>9. Exactly(Append(s, n + 1), n + 1, g)
    BY <1>6, <1>8, <2>6, <2>7, OneMore
  <2> QED BY <2>2, <2>3, <2>5, <2>7, <2>9
<1> QED BY <1>1, <1>2, <1>3, <1>4, <1>7, <1>8, <1>9, <1>10 DEF BfEachThere, BfFixLists

LEMMA BfStopLine ==
  ASSUME BfTypesNow, BfStepsAre, BfOneSession, BfEachThere, BfHandleStop
  PROVE  BfEachThere'
<1>1. bfModem'.fifo = <<>> /\ bfGone' = bfGone \cup ToSet(bfModem.fifo)
  BY BfHandleStopDoes DEF BfHandleStop
<1>2. UNCHANGED <<bfFront, bfThreads, bfTold, bfReports, bfFixes>>
  BY DEF BfHandleStop, BfHandles, BfOnlyBelow
<1>3. BfTellers' = BfTellers /\ \A x : BfHand(x)' <=> BfHand(x)
  BY <1>2, BfHandSame
<1>4. PICK a \in BfFixLists, e \in BfFixLists, f \in BfFixLists, m \in BfFixLists, n \in Nat :
        a = bfTold /\ e = BfTaken /\ f = FlattenSeq(bfReports) /\ m = bfModem.fifo /\ n = bfFixes
  BY BfLineTypes
<1>6. PICK g : g = bfGone
  OBVIOUS
<1>7. g \subseteq 1..n /\ \A t, u \in BfTellers : t = u
  BY <1>4, <1>6 DEF BfEachThere
<1>9. ASSUME NEW x \in BfFixLists, BfHand(x)
      PROVE  Exactly(BfLineIs(x)', n, g \cup ToSet(m)) /\ ToSet(m) \subseteq 1..n
  <2>2. BfLineIs(x) = Line(a, x, e, f, m) /\ BfLineIs(x)' = Line(a, x, e, f, <<>>)
    BY <1>1, <1>2, <1>4 DEF BfLineIs, BfTaken
  <2>3. Exactly(Line(a, x, e, f, m), n, g)
    BY <1>4, <1>6, <1>9, <2>2, BfOldLine
  <2>4. Exactly(Line(a, x, e, f, <<>>), n, g \cup ToSet(m)) /\ ToSet(m) \subseteq 1..n
    BY <2>3, LineDrops, BfLineTypes DEF BfFixLists
  <2> QED BY <2>2, <2>4
<1>10. \E x \in BfFixLists : BfHand(x)
  <2>1. CASE \E t \in BfReporter : bfThreads[t].at = "tell"
    BY <2>1, BfLineTypes DEF BfHand
  <2>2. CASE \E t \in BfReporter : bfThreads[t].at = "clear"
    BY <2>2, BfLineTypes DEF BfHand
  <2>3. CASE BfTellers = {}
    BY <2>3, BfLineTypes DEF BfHand
  <2> QED BY <2>1, <2>2, <2>3 DEF BfTellers
<1>11. bfGone' \subseteq 1..bfFixes'
  BY <1>1, <1>2, <1>4, <1>6, <1>7, <1>9, <1>10
<1> QED BY <1>1, <1>2, <1>3, <1>4, <1>6, <1>7, <1>9, <1>11 DEF BfEachThere, BfFixLists

(* A thread enters, and no other is telling *)
LEMMA BfEntersAlone ==
  ASSUME BfTypesNow, BfEachThere, NEW t \in BfReporter, bfThreads[t].at = "enter", ~BfOverlaps(t)
  PROVE  /\ \A u \in BfReporter : bfThreads[u].at \notin {"tell", "clear"}
         /\ BfHand(bfFront.cache)
         /\ Exactly(BfLineIs(bfFront.cache), bfFixes, bfGone)
  BY BfHandOfNone, BfLineTypes, BfOldLine DEF BfOverlaps

(* What a thread takes from the adapter's place is taken from there        *)
LEMMA BfEntersLine ==
  ASSUME BfTypesNow, BfHandsAre, NEW t \in BfReporter, bfThreads[t].at = "enter",
         NEW a \in BfFixLists, NEW f \in BfFixLists, NEW m \in BfFixLists, NEW c \in BfFixLists,
         NEW b \in BfFixLists, b = bfThreads[t].batch,
         bfThreads'[t].at # "enter", \A u \in BfReporter \ {t} : bfThreads'[u] = bfThreads[u]
  PROVE  /\ Line(a, c \o b, BfTaken', f, m) = Line(a, c, BfTaken, f, m)
         /\ BfTaken' \in BfFixLists
<1>1. /\ a \in Seq(BfFix) /\ f \in Seq(BfFix) /\ m \in Seq(BfFix) /\ c \in Seq(BfFix) /\ b \in Seq(BfFix)
      /\ BfTaken \in BfFixLists /\ <<>> \in BfFixLists
  BY BfLineTypes DEF BfFixLists
<1>2. CASE t = "adapter"
  BY <1>1, <1>2, LineMoves DEF BfTaken
<1>3. CASE t # "adapter"
  BY <1>1, <1>3, ConcatEmptySeq DEF BfTaken, BfHandsAre, BfReporter
<1> QED BY <1>2, <1>3

LEMMA BfCacheLine ==
  ASSUME BfTypesNow, BfStepsAre, BfHandsAre, BfEachThere, NEW t \in BfReporter, BfCache(t),
         ~bfTrouble'.overlap
  PROVE  BfEachThere'
<1>1. /\ bfTrouble'.overlap = (bfTrouble.overlap \/ BfOverlaps(t))
      /\ bfFront'.cache = bfFront.cache \o bfThreads[t].batch
      /\ bfThreads'[t].at = "idle"
      /\ \A u \in BfReporter \ {t} : bfThreads'[u] = bfThreads[u]
  BY BfCacheDoes
<1>2. UNCHANGED <<bfTold, bfReports, bfModem, bfFixes, bfGone>>
  BY DEF BfCache, BfEnters, BfOnlyReports
<1>3. bfThreads[t].at = "enter" /\ ~BfOverlaps(t)
  BY <1>1 DEF BfCache, BfEnters
<1>4. /\ \A u \in BfReporter : bfThreads[u].at \notin {"tell", "clear"}
      /\ Exactly(BfLineIs(bfFront.cache), bfFixes, bfGone)
  BY <1>3, BfEntersAlone
<1>5. PICK a \in BfFixLists, f \in BfFixLists, m \in BfFixLists, c \in BfFixLists, b \in BfFixLists, n \in Nat :
        /\ a = bfTold /\ f = FlattenSeq(bfReports) /\ m = bfModem.fifo
        /\ c = bfFront.cache /\ b = bfThreads[t].batch /\ n = bfFixes
  BY BfLineTypes
<1>6. PICK g : g = bfGone
  OBVIOUS
<1>7. PICK e \in BfFixLists, d \in BfFixLists : e = BfTaken' /\ d = BfTaken /\ Line(a, c \o b, e, f, m) = Line(a, c, d, f, m)
  BY <1>1, <1>3, <1>5, BfEntersLine, BfLineTypes
<1>8. Exactly(Line(a, c, d, f, m), n, g) /\ g \subseteq 1..n
  BY <1>4, <1>5, <1>6, <1>7 DEF BfLineIs, BfEachThere
<1>9. Exactly(Line(a, c \o b, e, f, m), n, g)
  BY <1>7, <1>8
<1>10. PICK h : h = c \o b
  OBVIOUS
<1>11. BfLineIs(h)' = Line(a, h, e, f, m)
  BY <1>2, <1>5, <1>7 DEF BfLineIs
<1>15. Exactly(BfLineIs(h)', bfFixes', bfGone') /\ bfGone' \subseteq 1..bfFixes'
  BY <1>2, <1>5, <1>6, <1>8, <1>9, <1>10, <1>11
<1> QED BY <1>1, <1>4, <1>5, <1>10, <1>15, BfNewLine DEF BfTellers, BfHand

LEMMA BfCopyLine ==
  ASSUME BfTypesNow, BfStepsAre, BfHandsAre, BfEachThere, NEW t \in BfReporter, BfCopy(t),
         ~bfTrouble'.overlap
  PROVE  BfEachThere'
<1>1. /\ bfTrouble'.overlap = (bfTrouble.overlap \/ BfOverlaps(t))
      /\ bfThreads'[t].at = "tell"
      /\ bfThreads'[t].batch = bfFront.cache \o bfThreads[t].batch
      /\ \A u \in BfReporter \ {t} : bfThreads'[u] = bfThreads[u]
  BY BfCopyDoes
<1>2. UNCHANGED <<bfTold, bfReports, bfModem, bfFixes, bfGone>>
  BY DEF BfCopy, BfEnters, BfOnlyReports
<1>3. bfThreads[t].at = "enter" /\ ~BfOverlaps(t)
  BY <1>1 DEF BfCopy, BfEnters
<1>4. /\ \A u \in BfReporter : bfThreads[u].at \notin {"tell", "clear"}
      /\ Exactly(BfLineIs(bfFront.cache), bfFixes, bfGone)
  BY <1>3, BfEntersAlone
<1>5. PICK a \in BfFixLists, f \in BfFixLists, m \in BfFixLists, c \in BfFixLists, b \in BfFixLists, n \in Nat :
        /\ a = bfTold /\ f = FlattenSeq(bfReports) /\ m = bfModem.fifo
        /\ c = bfFront.cache /\ b = bfThreads[t].batch /\ n = bfFixes
  BY BfLineTypes
<1>6. PICK g : g = bfGone
  OBVIOUS
<1>7. PICK e \in BfFixLists, d \in BfFixLists : e = BfTaken' /\ d = BfTaken /\ Line(a, c \o b, e, f, m) = Line(a, c, d, f, m)
  BY <1>1, <1>3, <1>5, BfEntersLine, BfLineTypes
<1>8. Exactly(Line(a, c, d, f, m), n, g) /\ g \subseteq 1..n
  BY <1>4, <1>5, <1>6, <1>7 DEF BfLineIs, BfEachThere
<1>9. Exactly(Line(a, c \o b, e, f, m), n, g)
  BY <1>7, <1>8
<1>10. PICK h : h = c \o b
  OBVIOUS
<1>11. BfLineIs(h)' = Line(a, h, e, f, m)
  BY <1>2, <1>5, <1>7 DEF BfLineIs
<1>12. \A u \in BfReporter \ {t} : bfThreads'[u].at \notin {"tell", "clear"}
  BY <1>1, <1>4
<1>13. BfTellers' = {t}
  BY <1>1, <1>12 DEF BfTellers
<1>14. \A x : BfHand(x)' <=> x = h
  BY <1>1, <1>5, <1>10, <1>12, <1>13 DEF BfHand
<1>15. Exactly(BfLineIs(h)', bfFixes', bfGone') /\ bfGone' \subseteq 1..bfFixes'
  BY <1>2, <1>5, <1>6, <1>8, <1>9, <1>10, <1>11
<1> QED BY <1>13, <1>14, <1>15, BfNewLine

LEMMA BfDropLine ==
  ASSUME BfTypesNow, BfStepsAre, BfHandsAre, BfEachThere, NEW t \in BfReporter, BfDrop(t),
         ~bfTrouble'.overlap
  PROVE  BfEachThere'
<1>1. /\ bfTrouble'.overlap = (bfTrouble.overlap \/ BfOverlaps(t))
      /\ bfThreads'[t].at = "clear"
      /\ \A u \in BfReporter \ {t} : bfThreads'[u] = bfThreads[u]
  BY BfDropDoes
<1>2. /\ UNCHANGED <<bfTold, bfReports, bfModem, bfFixes>>
      /\ bfGone' = bfGone \cup ToSet(bfThreads[t].batch \o bfFront.cache)
  BY DEF BfDrop, BfEnters, BfOnlyReports
<1>3. bfThreads[t].at = "enter" /\ ~BfOverlaps(t)
  BY <1>1 DEF BfDrop, BfEnters
<1>4. /\ \A u \in BfReporter : bfThreads[u].at \notin {"tell", "clear"}
      /\ Exactly(BfLineIs(bfFront.cache), bfFixes, bfGone)
  BY <1>3, BfEntersAlone
<1>5. PICK a \in BfFixLists, f \in BfFixLists, m \in BfFixLists, c \in BfFixLists, b \in BfFixLists, n \in Nat :
        /\ a = bfTold /\ f = FlattenSeq(bfReports) /\ m = bfModem.fifo
        /\ c = bfFront.cache /\ b = bfThreads[t].batch /\ n = bfFixes
  BY BfLineTypes
<1>6. PICK g : g = bfGone
  OBVIOUS
<1>7. PICK e \in BfFixLists, d \in BfFixLists : e = BfTaken' /\ d = BfTaken /\ Line(a, c \o b, e, f, m) = Line(a, c, d, f, m)
  BY <1>1, <1>3, <1>5, BfEntersLine, BfLineTypes
<1>8. Exactly(Line(a, c, d, f, m), n, g) /\ g \subseteq 1..n
  BY <1>4, <1>5, <1>6, <1>7 DEF BfLineIs, BfEachThere
<1>10. PICK h : h = c \o b
  OBVIOUS
<1>11. /\ h \in Seq(BfFix) /\ a \in Seq(BfFix) /\ e \in Seq(BfFix) /\ f \in Seq(BfFix) /\ m \in Seq(BfFix)
       /\ BfFix \subseteq Nat
  BY <1>10, BfLineTypes DEF BfFixLists
<1>12. Exactly(Line(a, <<>>, e, f, m), n, g \cup ToSet(h)) /\ ToSet(h) \subseteq 1..n
  BY <1>7, <1>8, <1>10, <1>11, LineDrops
<1>13. bfGone' = g \cup ToSet(h)
  BY <1>2, <1>5, <1>6, <1>10, ElementsOfBoth DEF BfFixLists
<1>14. BfLineIs(<<>>)' = Line(a, <<>>, e, f, m)
  BY <1>2, <1>5, <1>7 DEF BfLineIs
<1>15. \A u \in BfReporter \ {t} : bfThreads'[u].at \notin {"tell", "clear"}
  BY <1>1, <1>4
<1>16. BfTellers' = {t}
  BY <1>1, <1>15 DEF BfTellers
<1>17. \A x : BfHand(x)' <=> x = <<>>
  BY <1>1, <1>15, <1>16 DEF BfHand
<1>18. PICK z : z = <<>>
  OBVIOUS
<1>19. /\ Exactly(BfLineIs(z)', bfFixes', bfGone') /\ bfGone' \subseteq 1..bfFixes'
       /\ \A x : BfHand(x)' <=> x = z
  BY <1>2, <1>5, <1>8, <1>12, <1>13, <1>14, <1>17, <1>18
<1> QED BY <1>16, <1>19, BfNewLine

LEMMA BfTellLine ==
  ASSUME BfTypesNow, BfStepsAre, BfHandsAre, BfEachThere, NEW t \in BfReporter, BfTell(t)
  PROVE  BfEachThere'
<1>1. /\ bfTold' = bfTold \o bfThreads[t].batch
      /\ bfThreads'[t].at = "clear"
      /\ \A u \in BfReporter \ {t} : bfThreads'[u] = bfThreads[u]
  BY BfTellDoes
<1>2. UNCHANGED <<bfFront, bfReports, bfModem, bfFixes, bfGone>> /\ bfThreads[t].at = "tell"
  BY DEF BfTell, BfOnlyReports
<1>4. PICK a \in BfFixLists, e \in BfFixLists, f \in BfFixLists, m \in BfFixLists, b \in BfFixLists :
        /\ a = bfTold /\ f = FlattenSeq(bfReports) /\ m = bfModem.fifo /\ e = BfTaken
        /\ b = bfThreads[t].batch
  BY BfLineTypes
<1>5. BfTaken' = e
  <2>1. CASE t = "adapter"
    BY <1>1, <1>2, <1>4, <2>1 DEF BfTaken
  <2>2. CASE t # "adapter"
    BY <1>1, <1>4, <2>2 DEF BfReporter, BfTaken
  <2> QED BY <2>1, <2>2
<1>6. Exactly(Line(a, b, e, f, m), bfFixes, bfGone) /\ bfGone \subseteq 1..bfFixes
  BY <1>2, <1>4, BfOldLine DEF BfHand, BfLineIs, BfEachThere
<1>8. PICK z : z = <<>>
  OBVIOUS
<1>9. BfLineIs(z)' = Line(a, b, e, f, m)
  BY <1>1, <1>2, <1>4, <1>5, <1>8, LineMoves DEF BfLineIs, BfFixLists
<1>10. \A u \in BfReporter \ {t} : bfThreads'[u].at \notin {"tell", "clear"}
  BY <1>1, <1>2, BfOnlyTeller
<1>11. BfTellers' = {t}
  BY <1>1, <1>10 DEF BfTellers
<1>12. \A x : BfHand(x)' <=> x = z
  BY <1>1, <1>8, <1>10, <1>11 DEF BfHand
<1> QED BY <1>2, <1>6, <1>9, <1>11, <1>12, BfNewLine

LEMMA BfClearLine ==
  ASSUME BfTypesNow, BfStepsAre, BfHandsAre, BfEachThere, NEW t \in BfReporter, BfClear(t)
  PROVE  BfEachThere'
<1>1. /\ bfFront'.cache = <<>> /\ bfThreads'[t].at = "idle"
      /\ \A u \in BfReporter \ {t} : bfThreads'[u] = bfThreads[u]
  BY BfClearDoes
<1>2. UNCHANGED <<bfTold, bfReports, bfModem, bfFixes, bfGone>> /\ bfThreads[t].at = "clear"
  BY DEF BfClear, BfOnlyReports, bfGhosts
<1>4. PICK z : z = <<>>
  OBVIOUS
<1>5. BfTaken' = BfTaken
  <2>1. CASE t = "adapter"
    BY <1>1, <1>2, <2>1 DEF BfTaken
  <2>2. CASE t # "adapter"
    BY <1>1, <2>2 DEF BfReporter, BfTaken
  <2> QED BY <2>1, <2>2
<1>6. Exactly(BfLineIs(z), bfFixes, bfGone) /\ bfGone \subseteq 1..bfFixes
  BY <1>2, <1>4, BfLineTypes, BfOldLine DEF BfHand, BfEachThere
<1>9. (\A v, u \in BfTellers' : v = u) /\ \A x : BfHand(x)' <=> x = bfFront'.cache
  BY <1>1, <1>2, BfOnlyTeller DEF BfTellers, BfHand
<1>10. \A x : BfHand(x)' <=> x = z
  BY <1>1, <1>4, <1>9
<1> QED BY <1>2, <1>5, <1>6, <1>9, <1>10, BfNewLine DEF BfLineIs

LEMMA BfOrderedStep ==
  ASSUME BfWas, BfOrdered, BfNext
  PROVE  BfOrdered'
<1> SUFFICES ASSUME ~bfTrouble'.overlap PROVE BfEachThere'
  BY DEF BfOrdered
<1>0. BfTypesNow /\ BfStepsAre /\ BfOneSession /\ BfHandsAre
  BY DEF BfWas
<1>a. ~bfTrouble.overlap
  <2>1. ASSUME UNCHANGED bfTrouble PROVE ~bfTrouble.overlap
    BY <2>1
  <2>2. ASSUME NEW v, bfTrouble' = [bfTrouble EXCEPT !.hasty = v] PROVE ~bfTrouble.overlap
    BY <1>0, <2>2 DEF BfTypesNow, BfTroubles
  <2>3. ASSUME NEW t \in BfReporter, BfEnters(t) PROVE ~bfTrouble.overlap
    BY <1>0, <2>3, BfEntersDoes
  <2>4. ASSUME BfOperation PROVE ~bfTrouble.overlap
    BY <2>2, <2>4 DEF BfOperation, BfBegins
  <2>5. ASSUME NEW b \in BfBinder,
               BfStarted(b) \/ BfStoppingState(b) \/ BfUnset(b) \/ BfFlush(b)
                 \/ \E c \in {"get", "stop"} : BfAsk(b, c)
        PROVE  ~bfTrouble.overlap
    BY <2>1, <2>5 DEF BfStarted, BfStoppingState, BfUnset, BfFlush, BfAsk
  <2>6. ASSUME NEW b \in BfBinder, BfStart(b) PROVE ~bfTrouble.overlap
    BY <2>2, <2>6 DEF BfStart
  <2>7. ASSUME NEW c \in BfCallback, BfSetCallback(c) PROVE ~bfTrouble.overlap
    BY <2>1, <2>7 DEF BfSetCallback, bfGhosts
  <2>8. ASSUME BfFixDetermined \/ BfFull \/ BfHandleStart \/ BfHandleGet \/ BfHandleStop
                 \/ BfStopAnswered
        PROVE  ~bfTrouble.overlap
    BY <2>1, <2>8 DEF BfFixDetermined, BfFull, BfHandleStart, BfHandleGet, BfHandleStop,
                      BfStopAnswered, BfHandles, BfOnlyBelow
  <2>9. ASSUME BfTake PROVE ~bfTrouble.overlap
    BY <2>1, <2>9 DEF BfTake, bfGhosts
  <2>10. ASSUME NEW t \in BfReporter, BfCache(t) \/ BfCopy(t) \/ BfDrop(t) PROVE ~bfTrouble.overlap
    BY <2>3, <2>10 DEF BfCache, BfCopy, BfDrop
  <2>11. ASSUME NEW t \in BfReporter, BfTell(t) \/ BfClear(t) PROVE ~bfTrouble.overlap
    BY <2>1, <2>11 DEF BfTell, BfClear, bfGhosts
  <2> QED BY <2>4, <2>5, <2>6, <2>7, <2>8, <2>9, <2>10, <2>11 DEF BfNext
<1>b. BfEachThere
  BY <1>a DEF BfOrdered
<1>1. ASSUME BfOperation PROVE BfEachThere'
  BY <1>b, <1>1, BfLineSame DEF BfOperation, BfBegins, bfBelow
<1>2. ASSUME NEW c \in BfCallback, BfSetCallback(c) PROVE BfEachThere'
  BY <1>b, <1>0, <1>2, BfSetDoes, BfLineSame DEF BfSetCallback, bfBelow, bfGhosts
<1>3. ASSUME NEW b \in BfBinder, BfStarted(b) PROVE BfEachThere'
  BY <1>b, <1>0, <1>3, BfStartedDoes, BfLineSame DEF BfStarted, BfDoes, bfBelow
<1>4. ASSUME NEW b \in BfBinder, BfStoppingState(b) PROVE BfEachThere'
  BY <1>b, <1>0, <1>4, BfStoppingDoes, BfLineSame DEF BfStoppingState, BfDoes, bfBelow
<1>5. ASSUME NEW b \in BfBinder, BfUnset(b) PROVE BfEachThere'
  BY <1>b, <1>0, <1>5, BfUnsetDoes, BfLineSame DEF BfUnset, BfDoes, bfBelow
<1>6. ASSUME NEW b \in BfBinder, BfStart(b) PROVE BfEachThere'
  BY <1>b, <1>0, <1>6, BfLineSame DEF BfStart, BfDoes, bfBelow
<1>7. ASSUME NEW b \in BfBinder, BfFlush(b) PROVE BfEachThere'
  <2>1. UNCHANGED <<bfFront, bfTold, bfReports, bfModem, bfFixes, bfGone>>
    BY <1>7 DEF BfFlush, BfDoes, bfBelow
  <2>2. CASE bfSession
    BY <1>b, <1>7, <2>1, <2>2, BfLineSame DEF BfFlush
  <2>3. CASE ~bfSession
    <3>1. PICK t \in BfReporter : /\ BfMayReport(t)
                                  /\ bfThreads' = [bfThreads EXCEPT ![t].at = "enter"]
      BY <1>7, <2>3 DEF BfFlush
    <3> QED BY <1>b, <1>0, <2>1, <3>1, BfLineSame DEF BfTypesNow, BfHands, BfMayReport
  <2> QED BY <2>2, <2>3
<1>8. ASSUME NEW b \in BfBinder, NEW c \in {"get", "stop"}, BfAsk(b, c) PROVE BfEachThere'
  BY <1>b, <1>0, <1>8, BfLineSame DEF BfAsk, BfDoes, bfBelow
<1>9. ASSUME BfFixDetermined PROVE BfEachThere'
  BY <1>0, <1>9, <1>b, BfFixLine
<1>10. ASSUME BfFull PROVE BfEachThere'
  BY <1>b, <1>0, <1>10, BfFullDoes, BfReportedLine DEF BfFull, BfOnlyBelow
<1>11. ASSUME BfHandleStart PROVE BfEachThere'
  <2>2. bfModem.fifo = <<>>
    BY <1>0, <1>11, BfHandlesDoes DEF BfHandleStart, BfStartAt, BfOneSession
  <2>3. bfModem'.fifo = <<>>
    BY <1>0, <1>11, BfHandleStartDoes
  <2> QED BY <1>b, <1>11, <2>2, <2>3, BfLineKept, BfHandSame DEF BfLineIs, BfTaken,
    BfHandleStart, BfHandles, BfOnlyBelow
<1>12. ASSUME BfHandleGet PROVE BfEachThere'
  <2>1. UNCHANGED <<bfFront, bfThreads, bfTold, bfFixes, bfGone>>
    BY <1>12 DEF BfHandleGet, BfHandles, BfOnlyBelow
  <2>3. CASE bfReports' = Append(bfReports, bfModem.fifo) /\ bfModem'.fifo = <<>>
    BY <1>0, <1>b, <2>1, <2>3, BfReportedLine
  <2>4. CASE UNCHANGED <<bfReports, bfModem>>
    BY <1>b, <2>1, <2>4, BfLineSame
  <2> QED BY <1>0, <1>12, <2>3, <2>4, BfHandleGetDoes
<1>13. ASSUME BfHandleStop PROVE BfEachThere'
  BY <1>0, <1>13, <1>b, BfStopLine
<1>14. ASSUME BfStopAnswered PROVE BfEachThere'
  BY <1>b, <1>14, BfLineSame DEF BfStopAnswered, BfOnlyBelow
<1>15. ASSUME BfTake PROVE BfEachThere'
  BY <1>0, <1>15, <1>b, BfTakeLine
<1>16. ASSUME NEW t \in BfReporter, BfCache(t) PROVE BfEachThere'
  BY <1>0, <1>16, <1>b, BfCacheLine
<1>17. ASSUME NEW t \in BfReporter, BfCopy(t) PROVE BfEachThere'
  BY <1>0, <1>17, <1>b, BfCopyLine
<1>18. ASSUME NEW t \in BfReporter, BfDrop(t) PROVE BfEachThere'
  BY <1>0, <1>18, <1>b, BfDropLine
<1>19. ASSUME NEW t \in BfReporter, BfTell(t) PROVE BfEachThere'
  BY <1>0, <1>19, <1>b, BfTellLine
<1>20. ASSUME NEW t \in BfReporter, BfClear(t) PROVE BfEachThere'
  BY <1>0, <1>20, <1>b, BfClearLine
<1> QED BY <1>1, <1>2, <1>3, <1>4, <1>5, <1>6, <1>7, <1>8, <1>9, <1>10, <1>11, <1>12, <1>13, <1>14, <1>15, <1>16, <1>17, <1>18, <1>19, <1>20 DEF BfNext

BfInv == BfWas /\ BfFollows /\ BfOwes /\ BfOrdered

LEMMA BfInvInit == BfInit => BfInv
<1> SUFFICES ASSUME BfInit PROVE BfInv
  OBVIOUS
<1>1. PICK callback \in BfCallback : bfFront = [state |-> "STOPPED", cache |-> <<>>, iface |-> callback]
  BY DEF BfInit
<1>2. /\ bfSteps = [b \in BfBinder |-> <<>>] /\ bfThreads = [t \in BfReporter |-> BfIdle]
      /\ bfSession = FALSE /\ bfAsked = <<>> /\ bfStops = 0
      /\ bfModem = [batching |-> FALSE, fifo |-> <<>>]
      /\ bfReports = <<>> /\ bfTold = <<>>
      /\ bfFixes = 0 /\ bfOps = 0 /\ bfGone = {} /\ bfOwed = FALSE
      /\ bfTrouble = [overlap |-> FALSE, hasty |-> FALSE]
  BY DEF BfInit
<1>3. /\ bfFront \in BfFronts /\ bfFront.state = "STOPPED" /\ bfFront.cache = <<>>
  BY <1>1 DEF BfFronts
<1>4. /\ bfModem \in BfModems /\ ~bfModem.batching /\ bfModem.fifo = <<>>
      /\ bfTrouble \in BfTroubles
  BY <1>2 DEF BfModems, BfTroubles
<1>5. /\ bfThreads \in [BfReporter -> BfHands]
      /\ \A t \in BfReporter : bfThreads[t].at = "idle" /\ bfThreads[t].batch = <<>>
  BY <1>2, BfHandFacts
<1>6. bfSteps \in [BfBinder -> Seq(BfStep)] /\ \A b \in BfBinder : bfSteps[b] = <<>>
  BY <1>2
<1>7. BfTypesNow
  <2>1. bfFixes \in 0..MaxBfEvents /\ bfOps \in 0..MaxBfEvents /\ bfOps + bfFixes <= MaxBfEvents
    BY <1>2, BfAssumption
  <2>2. <<>> \in Seq(BfCommand) /\ <<>> \in Seq(Seq(BfFix)) /\ <<>> \in Seq(BfFix)
    OBVIOUS
  <2>3. bfAsked \in Seq(BfCommand) /\ bfReports \in Seq(Seq(BfFix)) /\ bfTold \in Seq(BfFix)
    BY <1>2, <2>2, Zenon
  <2>4. bfStops \in {0, 1} /\ bfSession \in BOOLEAN /\ bfGone \subseteq BfFix /\ bfOwed \in BOOLEAN
    BY <1>2, Zenon
  <2> QED BY <1>3, <1>4, <1>5, <1>6, <2>1, <2>3, <2>4 DEF BfTypesNow
<1>8. "death" \in BfBinder /\ "framework" \in BfBinder
  BY DEF BfBinder
<1>9. BfStepsAre
  BY <1>6, <1>8, BfLists DEF BfLeft, BfStepsAre
<1>10. Len(bfAsked) = 0 /\ 1..Len(bfAsked) = {}
  BY <1>2
<1>11. BfOneSession
  BY <1>2, <1>4, <1>10 DEF BfOneSession
<1>12. BfHandsAre
  BY <1>5 DEF BfHandsAre
<1>13. BfFollows
  BY <1>3, <1>4, <1>6, <1>8, <1>10, BfLists DEF BfWants, BfWillBatch, BfBatchesAt, BfFollows
<1>14. BfOwes
  BY <1>2 DEF BfOwes
<1>15. BfEachThere
  <2>4. BfLineIs(<<>>) = <<>>
    BY <1>2, <1>4, <1>5 DEF BfLineIs, Line, FlattenSeq, BfTaken, BfReporter
  <2> QED BY <1>2, <1>3, <1>5, <2>4, BfHandOfNone DEF BfEachThere, Exactly, InOrder, ToSet
<1> QED BY <1>7, <1>9, <1>11, <1>12, <1>13, <1>14, <1>15 DEF BfInv, BfWas, BfOrdered

LEMMA BfInvStep ==
  ASSUME BfInv, [BfNext]_bfVars
  PROVE  BfInv'
<1>1. CASE BfNext
  <2>2. BfFollows' /\ BfOwes' /\ BfOrdered'
    BY <1>1, BfFollowsStep, BfOwesStep, BfOrderedStep DEF BfInv
  <2> QED BY <1>1, <2>2, BfTypesStep, BfSessionStep, BfHandsStep DEF BfInv, BfWas
<1>2. CASE UNCHANGED bfVars
  <2>0. UNCHANGED <<bfFront, bfSteps, bfThreads, bfSession, bfAsked, bfStops, bfModem,
                    bfReports, bfTold, bfFixes, bfOps, bfGone, bfOwed, bfTrouble>>
    BY <1>2 DEF bfVars
  <2>1. BfWas'
    BY <2>0 DEF BfInv, BfWas, BfTypesNow, BfStepsAre, BfOneSession, BfHandsAre, BfStartAt
  <2>2. BfFollows'
    BY <2>0 DEF BfInv, BfFollows, BfSettled, BfWillBatch, BfBatchesAt, BfWants
  <2>3. BfOwes'
    BY <2>0 DEF BfInv, BfOwes, BfStopGets, BfUnanswered, BfTelling, BfTwoCome, BfOneComes, BfEntering,
                BfGetComes, BfGetAt, BfBatchesAt
  <2>4. BfOrdered'
    BY <2>0 DEF BfInv, BfOrdered, BfEachThere, BfTellers, BfHand, BfLineIs, BfTaken
  <2> QED BY <2>1, <2>2, <2>3, <2>4 DEF BfInv
<1> QED BY <1>1, <1>2

LEMMA FrameworkPart == BatchSpec => []BfInv
<1>1. BatchInit => BfInv
  BY BfInvInit DEF BatchInit
<1>2. BfInv /\ [BatchNext]_batchVars => BfInv'
  <2> SUFFICES ASSUME BfInv, [BatchNext]_batchVars PROVE BfInv'
    OBVIOUS
  <2>1. [BfNext]_bfVars
    BY DEF BatchNext, AdapterStep, FrameworkStep, BatteryStep, StoreStep, HandoverStep,
           CardsStep, batchVars, utilityVars
  <2> QED BY <2>1, BfInvStep
<1> QED BY <1>1, <1>2, PTL DEF BatchSpec

(* Whatever the framework starts, stops and flushes, and however the       *)
(* threads that report take turns: while no two of them overlap, each      *)
(* location is told once and in the order it was determined; a flush that  *)
(* meets no stop is reported; and the modem batches while the framework    *)
(* wants it (BatchingAPIClient.cpp:85-97, 116-131, 137-143, 150-203).      *)
THEOREM BatchesAlwaysReach == BatchSpec => []BatchesReachTheFramework
<1>1. BfInv => BatchesReachTheFramework
  <2> SUFFICES ASSUME BfInv PROVE BatchesReachTheFramework
    OBVIOUS
  <2>0. BfTypesNow /\ BfFollows /\ BfOwes /\ BfOrdered
    BY DEF BfInv, BfWas
  <2>1. BfEachOnce
    <3> SUFFICES ASSUME BfNobodyReports, ~bfTrouble.overlap
                 PROVE  InOrder(BfAll) /\ ToSet(BfAll) = (1..bfFixes) \ bfGone
      BY DEF BfEachOnce, InOrder
    <3>4. BfTaken = <<>>
      BY DEF BfTaken, BfNobodyReports, BfReporter
    <3>5. PICK k : k = bfTold \o bfFront.cache
      OBVIOUS
    <3>8. BfLineIs(bfFront.cache) = BfAll
      BY <2>0, <3>4, <3>5, ConcatEmptySeq DEF BfLineIs, Line, BfAll, BfTypesNow, BfFronts
    <3> QED BY <2>0, <3>8, BfLineTypes, BfOldLine, BfHandOfNone DEF Exactly, BfOrdered,
      BfNobodyReports
  <2>2. BfFlushReports
    <3> SUFFICES ASSUME BfQuiet, bfOwed PROVE FALSE
      BY DEF BfFlushReports
    <3>1. /\ \A t \in BfReporter : bfThreads[t].at = "idle"
          /\ bfReports = <<>> /\ bfAsked = <<>> /\ bfSteps["framework"] = <<>>
      BY DEF BfQuiet, BfNobodyReports, BfBinder
    <3>3. ~BfStopGets
      BY <3>1, BfLists DEF BfStopGets
    <3>4. 1..Len(bfAsked) = {}
      BY <3>1
    <3>5. ~BfGetComes
      BY <3>4 DEF BfGetComes
    <3> QED BY <2>0, <3>1, <3>3, <3>4, <3>5 DEF BfOwes, BfOneComes, BfTwoCome, BfTelling,
      BfEntering
  <2>3. BfModemFollows
    <3> SUFFICES ASSUME BfQuiet, ~bfTrouble.hasty
                 PROVE  bfModem.batching <=> bfFront.state = "STARTED"
      BY DEF BfModemFollows
    <3>1. BfSettled /\ bfAsked = <<>>
      BY DEF BfQuiet, BfSettled, BfIdleOrFlush
    <3> QED BY <2>0, <3>1 DEF BfWants, BfFollows, BfWillBatch, BfBatchesAt
  <2> QED BY <2>1, <2>2, <2>3 DEF BatchesReachTheFramework
<1> QED BY <1>1, FrameworkPart, PTL

=============================================================================
