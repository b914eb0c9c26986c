----------------------------- MODULE MCTracking -----------------------------
(***************************************************************************)
(* One run for what GnssAdapter brings back after a restart of the modem:  *)
(* the tracking sessions, the configuration and the settings.  They share  *)
(* the message thread and nothing else, so a behaviour is one of one part: *)
(* the first state says of which, and the variables of the others stay as  *)
(* they are.  There are two sessions of two clients, two intervals and a   *)
(* distance.                                                               *)
(***************************************************************************)
EXTENDS Tracking, EngineConfig, EngineCommands, TLC

CONSTANTS s1, s2, c1, c2, v1, v2

VARIABLE part

TrackInit == part \in {"sessions", "config", "settings"} /\ Init /\ EcInit /\ EdInit
SessionStep == part = "sessions" /\ Next /\ UNCHANGED <<part, ecVars, edVars>>
ConfigStep == part = "config" /\ EcNext /\ UNCHANGED <<part, vars, edVars>>
SettingStep == part = "settings" /\ EdNext /\ UNCHANGED <<part, vars, ecVars>>
TrackNext == SessionStep \/ ConfigStep \/ SettingStep
TrackSpec == TrackInit /\ [][TrackNext]_<<part, vars, ecVars, edVars>>

TrackTypesOK ==
  /\ part = "sessions" => TypeOK
  /\ part = "config" => EcTypeOK
  /\ part = "settings" => EdTypeOK

(* What commands configured, the modem goes by, over restarts              *)
(* (GnssAdapter.cpp:1187-1384, 1640-1870, 2355-2600, 3225-3290, 7290-7500) *)
ModemIsConfigured ==
  /\ part = "config" => EngineIsConfigured
  /\ part = "settings" => SettingsArePassedOn

(* Each of these commands is answered once, and what the modem refused of  *)
(* it is told (GnssAdapter.cpp:1385-1800, 3500-3540, 7290-8365).  Not all  *)
(* that was not done is: ErrorsNameTheirItem and SettingsAreAnswered name  *)
(* what is told as a success, or told for another item.                    *)
ConfigurationIsAnswered ==
  /\ part = "config" => ConfigsAreAnswered
  /\ part = "settings" => SettingsAreAnswered /\ CorrectionsAreTold

TwoOwners == (s1 :> c1) @@ (s2 :> c2)

(* The sessions change places together with their clients *)
Symmetry ==
  {p \in Permutations({s1, s2, c1, c2}) :
     \A s \in {s1, s2} : p[s] \in {s1, s2} /\ p[Owner[s]] = Owner[p[s]]}

Fast == [interval |-> 1, distance |-> FALSE]
Slow == [interval |-> 2, distance |-> FALSE]
Far == [interval |-> 1, distance |-> TRUE]
Options == {Fast, Slow, Far}

(* Satellites nobody wants, GnssConfigs, and constellations *)
SvLists == {{}, {v1}}
GnssConfig(items, lock, supl, svs) ==
  [items |-> items, lock |-> lock, supl |-> supl, svs |-> svs]
GnssConfigs ==
  {GnssConfig({"lock", "server", "blacklist"}, {}, TRUE, {}),
   GnssConfig({"lock", "server", "blacklist"}, {"NFW"}, TRUE, {v1}),
   GnssConfig({"server", "blacklist"}, {}, FALSE, {v1}),
   GnssConfig({"version", "server", "mode"}, {}, TRUE, {})}
Configs == {EcReset, [size |-> 1, types |-> {"enabled"}], [size |-> 1, types |-> {"disabled"}]}

=============================================================================
