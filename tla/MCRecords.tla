----------------------------- MODULE MCRecords -----------------------------
(***************************************************************************)
(* One run for those who keep records of what others do: the timer service *)
(* of its timers, in a heap; the data item observer of subscriptions; the  *)
(* system status of networks and of the modem; and the clients of the HAL  *)
(* of their sessions and geofences.  Their models share no state, so a     *)
(* behaviour is one of one part: the first state says of which, and the    *)
(* variables of the others stay as they are.                               *)
(***************************************************************************)
EXTENDS LocTimer, LocHeap, OsObserver, NetworkStatus, SystemStatusReports,
        ClientSessions, ClientGeofences

VARIABLE part

halClientVars == <<nsVars, ssVars, csVars, cgVars>>
recordVars == <<part, tmVars, hpVars, vars, halClientVars>>

RecordsInit ==
  /\ part \in {"timer", "heap", "items", "networks", "status", "sessions", "fences"}
  /\ TmInit /\ HpInit /\ Init /\ NsInit /\ SsInit /\ CsInit /\ CgInit

TimerStep ==
  /\ part = "timer" /\ TmNext
  /\ UNCHANGED <<part, hpVars, vars, halClientVars>>
HeapStep ==
  /\ part = "heap" /\ HpNext
  /\ UNCHANGED <<part, tmVars, vars, halClientVars>>
ItemsStep ==
  /\ part = "items" /\ Next
  /\ UNCHANGED <<part, tmVars, hpVars, halClientVars>>
NetworksStep ==
  /\ part = "networks" /\ NsNext
  /\ UNCHANGED <<part, tmVars, hpVars, vars, ssVars, csVars, cgVars>>
StatusStep ==
  /\ part = "status" /\ SsNext
  /\ UNCHANGED <<part, tmVars, hpVars, vars, nsVars, csVars, cgVars>>
SessionsStep ==
  /\ part = "sessions" /\ CsNext
  /\ UNCHANGED <<part, tmVars, hpVars, vars, nsVars, ssVars, cgVars>>
FencesStep ==
  /\ part = "fences" /\ CgNext
  /\ UNCHANGED <<part, tmVars, hpVars, vars, nsVars, ssVars, csVars>>

RecordsNext ==
  \/ TimerStep \/ HeapStep \/ ItemsStep
  \/ NetworksStep \/ StatusStep \/ SessionsStep \/ FencesStep

(* The service threads have nothing to do in their initial state, which    *)
(* they stay in while another part runs; the clock stands still then.      *)
ClockStep == TimerStep /\ Tick

RecordsSpec ==
  /\ RecordsInit /\ [][RecordsNext]_recordVars
  /\ WF_tmVars(TmTaskNext) /\ WF_tmVars(TmPollNext) /\ WF_recordVars(ClockStep)

RecordsTypesOK ==
  /\ part = "timer" => TmTypeOK
  /\ part = "heap" => HpTypeOK
  /\ part = "items" => TypeOK
  /\ part = "networks" => NsTypeOK
  /\ part = "status" => SsTypeOK
  /\ part = "sessions" => CsTypeOK
  /\ part = "fences" => CgTypeOK

(* Networks of two types, two of them of one *)
NetworkTypes == [net \in NsNetwork |-> IF net = "cell" THEN "mobile" ELSE "wifi"]

(* What the modem may say: some fields, or the others *)
TwoNews ==
  {{"tow", "valid", "leap", "uncertainty", "xo", "gain", "amplitudes", "jammers",
    "indicators", "errors", "injected", "best", "place", "motion", "fix", "failure",
    "gps", "bds", "qzss"},
   {"tow", "jammed", "indicators", "motion", "glo", "gal", "navic", "unknown"}}

(* No timer is forgotten and none ends twice: the kernel timer goes off    *)
(* for the soonest of a heap, the heap holds whatever was pushed and not   *)
(* taken out, the soonest at the top, and each start that is stopped,      *)
(* destroyed or expires frees its delegate once, when nothing reaches it   *)
(* any more (LocTimer.cpp:299-555, LocHeap.cpp:102-228).                   *)
TimersAreKept == SoonestIsArmed /\ EveryStartHasOneEnd /\ TreeHoldsWhatWasPushed

(* SystemStatus holds of the networks, and of all else it is told, what    *)
(* was said last (SystemStatus.h:475-568, SystemStatus.cpp:1478-2067).     *)
StatusIsKnown ==
  /\ part = "networks" => NetworksAreKnown
  /\ part = "status" => SystemStatusIsTrue

(* What LocationAPIClientBase keeps of its sessions and of its geofences   *)
(* leads answers and breaches to what the client asked for                 *)
(* (LocationAPIClientBase.cpp:200-990).                                    *)
ClientBaseKnows == SessionsAreKnown /\ ClientFencesAreKnown

=============================================================================
