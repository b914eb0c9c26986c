----------------------------- MODULE MCServices -----------------------------
(***************************************************************************)
(* One run for the message queues, the messages between processes, the     *)
(* clients of LocationAPI and the NMEA sentences they get.  Their models   *)
(* share no state, so a behaviour is one of one part: the first state says *)
(* of which, and the variables of the others stay as they are.             *)
(***************************************************************************)
EXTENDS MessageQueue, LocIpc, LocationClients, NmeaSentences

VARIABLE part

serviceVars == <<part, mqVars, ipVars, lcVars, nmVars>>

ServicesInit ==
  /\ part \in {"queue", "ipc", "clients", "sentences"}
  /\ MqInit /\ IpInit /\ LcInit /\ NmInit
  /\ part # "sentences" => /\ nmConfig = CHOOSE config \in NmConfigs : TRUE
                           /\ nmConf = CHOOSE conf \in NmConfs : TRUE

QueueStep ==
  /\ part = "queue" /\ MqNext
  /\ UNCHANGED <<part, ipVars, lcVars, nmVars>>
IpcStep ==
  /\ part = "ipc" /\ IpNext
  /\ UNCHANGED <<part, mqVars, lcVars, nmVars>>
ClientsStep ==
  /\ part = "clients" /\ LcNext
  /\ UNCHANGED <<part, mqVars, ipVars, nmVars>>
SentencesStep ==
  /\ part = "sentences" /\ NmNext
  /\ UNCHANGED <<part, mqVars, ipVars, lcVars>>

ServicesNext == QueueStep \/ IpcStep \/ ClientsStep \/ SentencesStep

(* The fairness of a part asks for nothing in the initial state of that    *)
(* part, which it stays in while another one runs.                         *)
ServicesSpec ==
  /\ ServicesInit /\ [][ServicesNext]_serviceVars
  /\ MqFairness /\ IpFairness /\ LcFairness

ServicesTypesOK == MqTypeOK /\ IpTypeOK /\ LcTypeOK /\ NmTypeOK

(* What one thread hands to another arrives as it was sent and is owned by *)
(* one of them: messages of a queue (linked_list.c:115-207,                *)
(* MsgTask.cpp:76-95) and datagrams in pieces (LocIpc.cpp:102-180).        *)
MessagesArriveWhole == MessageHasOneOwner /\ GotWhatWasSent

(* What is sent is carried out, who listens gets what was sent until it    *)
(* stops, a client that goes is removed and one that asks hears of the     *)
(* capabilities: threads that must not lose a wake-up, a piece or an       *)
(* answer (msg_q.c:191-273, LocIpc.cpp:128-180 and :422-430,               *)
(* LocationAPI.cpp:194-219, LocAdapterBase.cpp:443-469).  Not claimed is   *)
(* that a client hears of its removal (LocationAPI.cpp:213 calls only a    *)
(* callback that is not there), that a listener stops whose abort message  *)
(* timed out, nor what an opening of the modem would have told that        *)
(* failed.                                                                 *)
EveryoneIsServed == EveryMessageEnds /\ ListenersAreServed /\ ClientsAreTold

(* The sentences that clients get list each satellite they count, under    *)
(* its system and its signal, and say the same of a fix                    *)
(* (loc_nmea.cpp:640-1130, 1130-2195, 2219-2445).                          *)
SentencesAreTrue == SatellitesAreListed /\ SentencesAgree

(* Every sender has the one receiver *)
OneReceiver == [s \in IpSender |-> "recver"]

(* Fixes that differ by the satellites used, and fixes that differ by what *)
(* helped to make them                                                     *)
FixWith(used, latlong, tech, corrections) ==
  [used |-> used, latlong |-> latlong, tech |-> tech, corrections |-> corrections,
   final |-> TRUE, engine |-> "SPE", precise |-> FALSE]
UsedOf(gps, glonass, beidou, navic) ==
  [s \in NmSystem |-> CASE s = "GPS" -> gps [] s = "GLONASS" -> glonass
                         [] s = "BEIDOU" -> beidou [] s = "NAVIC" -> navic [] OTHER -> {}]
OneUsed == UsedOf({7}, {}, {}, {})

FixesByUse ==
  {FixWith(UsedOf(gps, glonass, beidou, navic), FALSE, {"SATELLITE"}, {}) :
     gps \in {{}, {4}, 1..5}, glonass \in {{}, {24}, {1, 2, 3}},
     beidou \in {{}, {2, 63}}, navic \in {{}, {3}}}
FixesByHelp ==
  {FixWith(OneUsed, latlong, tech, corrections) :
     latlong \in BOOLEAN,
     tech \in {{}, {"SATELLITE"}, {"SENSORS"}, {"SATELLITE", "SENSORS"}, {"PROPAGATED"}, {"HYBRID"}},
     corrections \in {{c} : c \in NmCorrection} \cup {{}, {"PPP", "SBAS"}, {"RTK", "DGNSS"}}}
FixesByEngine ==
  {[FixWith(OneUsed, TRUE, {"SATELLITE"}, {}) EXCEPT
      !.final = final, !.engine = engine, !.precise = precise] :
     final \in BOOLEAN, engine \in NmEngine, precise \in BOOLEAN}
Fixes == FixesByUse \cup FixesByHelp \cup FixesByEngine

Satellites ==
  {[type |-> "GPS", id |-> 3, signal |-> "none"], [type |-> "GPS", id |-> 4, signal |-> "GPS_L5"],
   [type |-> "GPS", id |-> 5, signal |-> "GPS_L1C"], [type |-> "SBAS", id |-> 120, signal |-> "none"],
   [type |-> "GLONASS", id |-> 65, signal |-> "GLONASS_G1"],
   [type |-> "GLONASS", id |-> 255, signal |-> "none"],
   [type |-> "BEIDOU", id |-> 202, signal |-> "BEIDOU_B2AI"],
   [type |-> "BEIDOU", id |-> 203, signal |-> "BEIDOU_B2AQ"],
   [type |-> "BEIDOU", id |-> 204, signal |-> "BEIDOU_B2I"],
   [type |-> "UNKNOWN", id |-> 1, signal |-> "none"]}
Views == UNION {[1..n -> Satellites] : n \in 0..2}
           \cup {[i \in 1..3 |-> sv] : sv \in Satellites}
           \cup {view \in [1..3 -> Satellites] : view[1].type = "GPS" /\ view[2].signal = "BEIDOU_B2AI"}

(* Everything; no satellites used; no position; PZ-90, and few of them *)
Configs ==
  {[types |-> NmType, pz90 |-> FALSE, engines |-> {"FUSED"}],
   [types |-> NmType \ {"GSA"}, pz90 |-> FALSE, engines |-> {"FUSED", "PPE"}],
   [types |-> NmType \ {"GGA", "GBGSV"}, pz90 |-> FALSE, engines |-> {"SPE"}],
   [types |-> NmType \ {"VTG", "DTM"}, pz90 |-> TRUE, engines |-> {"FUSED"}]}
Confs == {[grouping |-> on, custom |-> on] : on \in BOOLEAN}
Worlds == {[clients |-> TRUE, stream |-> FALSE], [clients |-> FALSE, stream |-> TRUE],
           [clients |-> TRUE, stream |-> TRUE]}

=============================================================================
