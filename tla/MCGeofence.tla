----------------------------- MODULE MCGeofence -----------------------------
(***************************************************************************)
(* One run for geofences, for the streams of corrections and for the       *)
(* reports of positions and satellites.  Their models share no state, so a *)
(* behaviour is one of one part: the first state says of which, and the    *)
(* variables of the others stay as they are.                               *)
(***************************************************************************)
EXTENDS Geofence, NtripStream, GnssReports, TLC

CONSTANTS g1, g2, c1, c2

VARIABLE part

fencesVars == <<part, vars, ntVars, grVars>>

(* The reports' initial state in the behaviours of the other parts *)
NoReports ==
  /\ grConf = CHOOSE conf \in GrConf : TRUE
  /\ \A c \in GrClient : grClients[c] = {}
  /\ ~grPrecise

FencesInit ==
  /\ part \in {"fences", "stream", "reports"}
  /\ Init /\ NtInit /\ GrInit
  /\ part # "reports" => NoReports

FenceStep ==
  /\ part = "fences" /\ Next
  /\ UNCHANGED <<part, ntVars, grVars>>
StreamStep ==
  /\ part = "stream" /\ NtNext
  /\ UNCHANGED <<part, vars, grVars>>
ReportsStep ==
  /\ part = "reports" /\ GrNext
  /\ UNCHANGED <<part, vars, ntVars>>

FencesNext == FenceStep \/ StreamStep \/ ReportsStep

FencesSpec == FencesInit /\ [][FencesNext]_fencesVars

FencesTypesOK ==
  /\ part = "fences" => TypeOK
  /\ part = "stream" => NtTypeOK
  /\ part = "reports" => GrTypeOK

(* Two geofences, of one client or of two, and the arrays that name them *)
OneOwner == [g \in {g1, g2} |-> c1]
TwoOwners == (g1 :> c1) @@ (g2 :> c2)
Singles == {<<g1>>, <<g2>>}
Pairs == {<<g1>>, <<g1, g2>>}

(* Clients of the reports: one that listens to positions and satellites,   *)
(* or tracks; one of the position engine's positions and sentences         *)
ReportsCallbacks ==
  [c \in GrClient |-> IF c = "app" THEN {{"location", "sv"}, {"tracking", "nhz"}}
                      ELSE {{"engine", "nmea"}}]
ReportsQuality ==
  [c \in GrClient |-> IF c = "app" THEN {"success", "intermediate"}
                      ELSE {"distance", "failure"}]

ReportsConf ==
  {[intermediate |-> FALSE, glib |-> FALSE, fast |-> FALSE, sentences |-> {"fused"}],
   [intermediate |-> FALSE, glib |-> TRUE, fast |-> TRUE, sentences |-> {"fused", "spe"}]}

ReportsFix ==
  {[status |-> "success", used |-> TRUE, late |-> FALSE, whole |-> TRUE],
   [status |-> "intermediate", used |-> FALSE, late |-> TRUE, whole |-> FALSE],
   [status |-> "failure", used |-> FALSE, late |-> FALSE, whole |-> FALSE]}

Symmetry == Permutations(HwId)

=============================================================================
