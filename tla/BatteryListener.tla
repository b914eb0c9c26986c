-------------------------- MODULE BatteryListener --------------------------
(***************************************************************************)
(* How the HAL learns whether the battery is charged: the listener to the  *)
(* health service (android/utils/battery_listener.cpp, its AIDL half).     *)
(*                                                                         *)
(* A thread connects the listener and starts a worker.  The service calls  *)
(* healthInfoChanged, which notes the status and wakes the worker, which   *)
(* tells the HAL.  When the service dies, a binder thread waits for the    *)
(* worker to end and connects again, with mLock held all the while.        *)
(*                                                                         *)
(* The service is external: it calls a callback that registers, and then   *)
(* whenever the status changes, one call after the other.  A call of one   *)
(* that died meanwhile is still carried out.                               *)
(***************************************************************************)
EXTENDS Naturals

CONSTANTS
  BlStatus,      \* what the battery may do, of BatteryStatus
  MaxBlChanges,  \* bound: changes of the battery
  MaxBlDeaths    \* bound: deaths of the service

ASSUME BlAssumption ==
  /\ BlStatus \subseteq {"charging", "full", "discharging", "not_charging"}
  /\ MaxBlChanges \in Nat /\ MaxBlDeaths \in Nat

VARIABLES
  blBattery,   \* what the battery does
  blService,   \* is the service up, and what did it tell the callback
  blCalls,     \* calls of healthInfoChanged under way, of this service and
               \* of the one before
  blListener,  \* mHealth, is its death linked to, mStatus, mDone, who has mLock
  blWorker,    \* where mThread is, and its local_status
  blAt,        \* where the two threads are that connect
  blHeard,     \* what the HAL was told last
  blStale,     \* what is known to be wrong: the HAL was not told the status
               \* that the worker began with, or something older after it; the
               \* call of a dead service came last
  blGaveUp,    \* init failed, and nobody tries again
  blEvents     \* changes and deaths so far

blVars == <<blBattery, blService, blCalls, blListener, blWorker, blAt, blHeard,
            blStale, blGaveUp, blEvents>>

blGhosts == <<blStale, blGaveUp>>
blWorld == <<blBattery, blEvents>>

-----------------------------------------------------------------------------
(* Types *)

BlThread == {"init", "death"}
BlKnown == BlStatus \cup {"unknown"}
BlStep == {"idle", "died", "clear", "join", "lock", "connect", "get", "thread",
           "register", "link", "ask", "tell"}

BlTypeOK ==
  /\ blBattery \in BlStatus
  /\ blService \in [up: BOOLEAN, told: BlStatus \cup {"deaf", "nothing"}]
  /\ blCalls \in [{"fresh", "late"} -> BlStatus \cup {"none"}]
  /\ blListener \in [health: {"none", "live", "dead"}, linked: BOOLEAN, status: BlKnown,
                     done: BOOLEAN, lock: BOOLEAN]
  /\ blWorker \in [at: {"none", "start", "wait", "woken", "defer", "call", "end"},
                   local: BlKnown]
  /\ blAt \in [BlThread -> BlStep]
  /\ blHeard \in BOOLEAN /\ blGaveUp \in BOOLEAN
  /\ blStale \in [begun: BOOLEAN, late: BOOLEAN]
  /\ blEvents \in [changes: 0..MaxBlChanges, deaths: 0..MaxBlDeaths]

(* statusToBool *)
BlCharging(status) == status \in {"charging", "full"}

-----------------------------------------------------------------------------
(* The battery and the health service *)

BlBatteryChanges(status) ==
  /\ status # blBattery /\ blEvents.changes < MaxBlChanges
  /\ blBattery' = status
  /\ blEvents' = [blEvents EXCEPT !.changes = @ + 1]
  /\ UNCHANGED <<blService, blCalls, blListener, blWorker, blAt, blHeard, blGhosts>>

BlServiceCalls ==
  /\ blService.up /\ blService.told \notin {"deaf", blBattery} /\ blCalls.fresh = "none"
  /\ blService' = [blService EXCEPT !.told = blBattery]
  /\ blCalls' = [blCalls EXCEPT !.fresh = blBattery]
  /\ UNCHANGED <<blWorld, blListener, blWorker, blAt, blHeard, blGhosts>>

BlServiceDies ==
  /\ blService.up /\ blEvents.deaths < MaxBlDeaths /\ blCalls.late = "none"
  /\ blEvents' = [blEvents EXCEPT !.deaths = @ + 1]
  /\ blService' = [up |-> FALSE, told |-> "deaf"]
  /\ blCalls' = [fresh |-> "none", late |-> blCalls.fresh]
  /\ blListener' = [blListener EXCEPT !.health = IF @ = "live" THEN "dead" ELSE @,
                                      !.linked = FALSE]
  /\ blAt' = [blAt EXCEPT !.death = IF blListener.linked THEN "died" ELSE @]
  /\ UNCHANGED <<blBattery, blWorker, blHeard, blGhosts>>

BlServiceComes ==
  /\ ~blService.up
  /\ blService' = [blService EXCEPT !.up = TRUE]
  /\ UNCHANGED <<blWorld, blCalls, blListener, blWorker, blAt, blHeard, blGhosts>>

-----------------------------------------------------------------------------
(* The worker *)

BlNotified == [blWorker EXCEPT !.at = IF @ = "wait" THEN "woken" ELSE @]

(* Mutant: the worker is not woken *)
MutantBlHealthInfoChanged(which) ==
  /\ blCalls[which] # "none" /\ ~blListener.lock
  /\ blCalls' = [blCalls EXCEPT ![which] = "none"]
  /\ blListener' = [blListener EXCEPT !.status = blCalls[which]]
  /\ UNCHANGED <<blWorld, blService, blWorker, blAt, blHeard, blGhosts>>

(* A call of a service that died may be carried out after those of the one *)
(* that came in its place.                                                 *)
BlHealthInfoChanged(which) ==
  LET status == blCalls[which]
      changed == status # blListener.status
  IN /\ status # "none" /\ ~blListener.lock
     /\ blCalls' = [blCalls EXCEPT ![which] = "none"]
     /\ blListener' = [blListener EXCEPT !.status = status]
     /\ blWorker' = IF changed THEN BlNotified ELSE blWorker
     /\ blStale' = [blStale EXCEPT !.late = which = "late" /\ blListener.linked
                                             /\ (changed \/ @)]
     /\ UNCHANGED <<blWorld, blService, blAt, blHeard, blGaveUp>>

(* The loop of the worker, up to where it lets go of mLock *)
BlLoop(local) ==
  CASE blListener.done -> [at |-> "end", local |-> local]
    [] ~blListener.done /\ blListener.status = local -> [at |-> "wait", local |-> local]
    [] OTHER -> [at |-> IF blListener.status = "not_charging" THEN "defer" ELSE "call",
                 local |-> blListener.status]

BlWorkerStep ==
  /\ ~blListener.lock
  /\ UNCHANGED <<blWorld, blService, blCalls, blListener, blAt, blGaveUp>>

(* It begins with the status of that moment, which it does not report.     *)
BlWorkerStarts ==
  /\ blWorker.at = "start" /\ BlWorkerStep
  /\ blWorker' = BlLoop(blListener.status)
  /\ blStale' = [blStale EXCEPT !.begun = @ \/ BlCharging(blListener.status) # blHeard]
  /\ UNCHANGED blHeard

BlWorkerWakes ==
  /\ blWorker.at = "woken" /\ BlWorkerStep
  /\ blWorker' = BlLoop(blWorker.local)
  /\ UNCHANGED <<blHeard, blStale>>

(* wait_for ends when the status has changed, or after three seconds       *)
BlWorkerDefers ==
  /\ blWorker.at = "defer" /\ BlWorkerStep
  /\ blWorker' = IF blListener.status # blWorker.local
                 THEN BlLoop(blWorker.local)
                 ELSE [blWorker EXCEPT !.at = "call"]
  /\ UNCHANGED <<blHeard, blStale>>

(* Mutant: it takes the status for told that came meanwhile                *)
MutantBlWorkerCalls ==
  /\ blWorker.at = "call"
  /\ blHeard' = BlCharging(blWorker.local)
  /\ blWorker' = [at |-> "woken", local |-> blListener.status]
  /\ blStale' = [blStale EXCEPT !.begun = FALSE]
  /\ UNCHANGED <<blWorld, blService, blCalls, blListener, blAt, blGaveUp>>

(* The callback is called without mLock *)
BlWorkerCalls ==
  /\ blWorker.at = "call"
  /\ blHeard' = BlCharging(blWorker.local)
  /\ blWorker' = [blWorker EXCEPT !.at = "woken"]
  /\ blStale' = [blStale EXCEPT !.begun = FALSE]
  /\ UNCHANGED <<blWorld, blService, blCalls, blListener, blAt, blGaveUp>>

-----------------------------------------------------------------------------
(* Connecting *)

BlGoes(thread, from, to) == blAt[thread] = from /\ blAt' = [blAt EXCEPT ![thread] = to]

(* init returns with an error *)
BlFails(thread, from) ==
  /\ BlGoes(thread, from, "idle")
  /\ blListener' = [blListener EXCEPT !.lock = FALSE]
  /\ blGaveUp' = TRUE
  /\ UNCHANGED <<blWorld, blService, blCalls, blWorker, blHeard, blStale>>

BlConnects(thread) ==
  /\ BlGoes(thread, "connect", "get")
  /\ blListener.health = "none" /\ blService.up
  /\ blListener' = [blListener EXCEPT !.health = "live"]
  /\ UNCHANGED <<blWorld, blService, blCalls, blWorker, blHeard, blGhosts>>

(* No service after five tries, or there is one already                    *)
BlConnectFails(thread) ==
  /\ ~blService.up \/ blListener.health # "none"
  /\ BlFails(thread, "connect")

BlGets(thread) ==
  /\ BlGoes(thread, "get", "thread")
  /\ blListener' = [blListener EXCEPT !.status =
                      IF blListener.health = "live" THEN blBattery ELSE "unknown"]
  /\ UNCHANGED <<blWorld, blService, blCalls, blWorker, blHeard, blGhosts>>

BlStartsWorker(thread) ==
  /\ BlGoes(thread, "thread", "register")
  /\ blListener' = [blListener EXCEPT !.done = FALSE]
  /\ blWorker' = [blWorker EXCEPT !.at = "start"]
  /\ UNCHANGED <<blWorld, blService, blCalls, blHeard, blGhosts>>

BlRegisters(thread) ==
  /\ BlGoes(thread, "register", "link")
  /\ blListener.health = "live"
  /\ blService' = [blService EXCEPT !.told = "nothing"]
  /\ UNCHANGED <<blWorld, blCalls, blListener, blWorker, blHeard, blGhosts>>

(* The thread that connects again lets go of mLock *)
BlLinks(thread) ==
  /\ BlGoes(thread, "link", IF thread = "init" THEN "ask" ELSE "idle")
  /\ blListener.health = "live"
  /\ blListener' = [blListener EXCEPT !.linked = TRUE, !.lock = FALSE]
  /\ UNCHANGED <<blWorld, blService, blCalls, blWorker, blHeard, blGhosts>>

BlTransactionFails(thread) ==
  /\ blListener.health = "dead"
  /\ \E step \in {"register", "link"} : BlFails(thread, step)

(* The first time, the thread asks for the status and tells the HAL if the *)
(* battery is charged: the worker may have told it something since.        *)
BlAsks ==
  /\ ~blListener.lock
  /\ BlGoes("init", "ask", IF BlCharging(blListener.status) THEN "tell" ELSE "idle")
  /\ UNCHANGED <<blWorld, blService, blCalls, blListener, blWorker, blHeard, blGhosts>>

BlTells ==
  /\ BlGoes("init", "tell", "idle")
  /\ blHeard' = TRUE
  /\ blStale' = [blStale EXCEPT !.begun = ~BlCharging(blWorker.local)]
  /\ UNCHANGED <<blWorld, blService, blCalls, blListener, blWorker, blGaveUp>>

-----------------------------------------------------------------------------
(* The death of the service *)

BlDeathOnly == UNCHANGED <<blWorld, blService, blCalls, blHeard, blGhosts>>

BlDied ==
  /\ ~blListener.lock
  /\ IF blListener.health = "none"
     THEN BlGoes("death", "died", "idle") /\ UNCHANGED blListener
     ELSE /\ BlGoes("death", "died", "clear")
          /\ blListener' = [blListener EXCEPT !.done = TRUE]
  /\ UNCHANGED blWorker /\ BlDeathOnly

(* Mutant: the worker is not woken *)
MutantBlClears ==
  /\ BlGoes("death", "clear", "join")
  /\ blListener' = [blListener EXCEPT !.health = "none"]
  /\ UNCHANGED blWorker /\ BlDeathOnly

BlClears ==
  /\ BlGoes("death", "clear", "join")
  /\ blListener' = [blListener EXCEPT !.health = "none"]
  /\ blWorker' = BlNotified
  /\ BlDeathOnly

BlJoins ==
  /\ BlGoes("death", "join", "lock")
  /\ blWorker.at = "end"
  /\ UNCHANGED <<blListener, blWorker>> /\ BlDeathOnly

BlLocks ==
  /\ BlGoes("death", "lock", "connect")
  /\ ~blListener.lock
  /\ blListener' = [blListener EXCEPT !.lock = TRUE]
  /\ UNCHANGED blWorker /\ BlDeathOnly

-----------------------------------------------------------------------------

BlInit ==
  /\ blBattery \in BlStatus
  /\ blService = [up |-> TRUE, told |-> "deaf"]
  /\ blCalls = [fresh |-> "none", late |-> "none"]
  /\ blListener = [health |-> "none", linked |-> FALSE, status |-> "unknown",
                   done |-> FALSE, lock |-> FALSE]
  /\ blWorker = [at |-> "none", local |-> "unknown"]
  /\ blAt = [init |-> "connect", death |-> "idle"]
  /\ blHeard = FALSE /\ blStale = [begun |-> FALSE, late |-> FALSE] /\ blGaveUp = FALSE
  /\ blEvents = [changes |-> 0, deaths |-> 0]

BlNext ==
  \/ \E status \in BlStatus : BlBatteryChanges(status)
  \/ BlServiceCalls \/ BlServiceDies \/ BlServiceComes
  \/ \E which \in {"fresh", "late"} : BlHealthInfoChanged(which)
  \/ BlWorkerStarts \/ BlWorkerWakes \/ BlWorkerDefers \/ BlWorkerCalls
  \/ \E thread \in BlThread :
       \/ BlConnects(thread) \/ BlConnectFails(thread) \/ BlGets(thread)
       \/ BlStartsWorker(thread) \/ BlRegisters(thread) \/ BlLinks(thread)
       \/ BlTransactionFails(thread)
  \/ BlAsks \/ BlTells
  \/ BlDied \/ BlClears \/ BlJoins \/ BlLocks

BlSpec == BlInit /\ [][BlNext]_blVars

-----------------------------------------------------------------------------
(* Properties *)

(* Nothing is under way: the service has told what the battery does, no    *)
(* thread connects and the worker sleeps.                                  *)
BlQuiet ==
  /\ blService.up /\ blCalls = [fresh |-> "none", late |-> "none"]
  /\ blService.told \in {"deaf", blBattery}
  /\ blAt = [t \in BlThread |-> "idle"]
  /\ blWorker.at = "wait"

(* Then the HAL knows whether the battery is charged, however often the    *)
(* service died, unless the worker began with a status nobody reports or   *)
(* the listener gave up.                                                   *)
BlHalKnows ==
  BlQuiet /\ ~(blStale.begun \/ blStale.late \/ blGaveUp) =>
    blHeard = BlCharging(blBattery)

(* A worker that is waited for does not sleep *)
BlJoinEnds == blAt.death = "join" => blWorker.at # "wait"

(* What the HAL was told of the battery follows the battery, and a death   *)
(* of the service is dealt with (battery_listener.cpp:126-164, 200-236).   *)
BatteryIsKnown == BlHalKnows /\ BlJoinEnds

=============================================================================
