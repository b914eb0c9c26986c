----------------------------- MODULE MCBatching -----------------------------
(***************************************************************************)
(* One run for BatchingAdapter; for two front ends of the platform: what   *)
(* the framework gets of batching, and what the HAL hears of the battery;  *)
(* and for the base utilities: stored parameters, queues between threads,  *)
(* postcards.  They share nothing, so a behaviour is one of one part: the  *)
(* first state says of which, and the variables of the others stay as they *)
(* are.  In the adapter there are two sessions of two clients: two kinds   *)
(* of sessions and two of trips.                                           *)
(***************************************************************************)
EXTENDS Batching, BatchingFrontEnd, BatteryListener,
        NvStore, BlockingQueue, Postcard, TLC

CONSTANTS c1, c2, cb1

VARIABLE part

utilityVars == <<nvVars, bqVars, pcVars>>
batchVars == <<part, vars, bfVars, blVars, utilityVars>>

BatchInit ==
  /\ part \in {"adapter", "framework", "battery", "store", "handover", "cards"}
  /\ Init /\ BfInit /\ BlInit /\ NvInit /\ BqInit /\ PcInit
  /\ part # "battery" => blBattery = "discharging"

AdapterStep ==
  part = "adapter" /\ Next /\ UNCHANGED <<part, bfVars, blVars, utilityVars>>
FrameworkStep ==
  part = "framework" /\ BfNext /\ UNCHANGED <<part, vars, blVars, utilityVars>>
BatteryStep ==
  part = "battery" /\ BlNext /\ UNCHANGED <<part, vars, bfVars, utilityVars>>
StoreStep ==
  part = "store" /\ NvNext /\ UNCHANGED <<part, vars, bfVars, blVars, bqVars, pcVars>>
HandoverStep ==
  part = "handover" /\ BqNext /\ UNCHANGED <<part, vars, bfVars, blVars, nvVars, pcVars>>
CardsStep ==
  part = "cards" /\ PcNext /\ UNCHANGED <<part, vars, bfVars, blVars, nvVars, bqVars>>
BatchNext ==
  \/ AdapterStep \/ FrameworkStep \/ BatteryStep
  \/ StoreStep \/ HandoverStep \/ CardsStep
BatchSpec == BatchInit /\ [][BatchNext]_batchVars

BatchTypesOK ==
  /\ part = "adapter" => TypeOK
  /\ part = "framework" => BfTypeOK
  /\ part = "battery" => BlTypeOK
  /\ part = "store" => NvTypeOK
  /\ part = "handover" => BqTypeOK
  /\ part = "cards" => PcTypeOK

TwoOwners == <<c1, c2>>

Full == [mode |-> "routine", distance |-> 0, interval |-> 1]
OnDemand == [mode |-> "no_auto", distance |-> 0, interval |-> 1]
Near == [mode |-> "trip", distance |-> 1, interval |-> 2]
Far == [mode |-> "trip", distance |-> 2, interval |-> 1]
Options == {Full, OnDemand, Near, Far}

(* The utilities give back what they were given: the parameters that       *)
(* outlive a process, the items of a queue and the Runnables of its        *)
(* threads, and the fields of a postcard (nvparam_mgr.cpp:505-1020,        *)
(* sync.cpp:342-885, postcard.cpp:324-1460).                               *)
UtilitiesKeepTheirs ==
  /\ part = "store" => StoreKeepsWhatWasSaved
  /\ part = "handover" => QueuesHandOver
  /\ part = "cards" => CardsAreReadAsWritten

=============================================================================
