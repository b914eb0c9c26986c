------------------------------- MODULE MCGnss -------------------------------
(***************************************************************************)
(* One run for the three parts of GnssAdapter that talk to the modem about *)
(* something other than positions: AGPS data calls, network initiated      *)
(* requests and on demand positions.  They share the message thread and    *)
(* nothing else, so a behaviour is one of one part: the first state says   *)
(* of which, and the variables of the others stay as they are.             *)
(*                                                                         *)
(* AGPS with every trouble is a part of its own: an access point name that *)
(* the length check refuses leaves opens without an answer, so the         *)
(* liveness property is only asked of the part without.                    *)
(***************************************************************************)
EXTENDS Agps, NetworkInitiated, Odcpi

VARIABLE part

gnssVars == <<part, vars, niVars, odVars>>

Troubled == INSTANCE Agps WITH Troubles <- Trouble, MaxInbox <- MaxInbox + 1

GnssInit ==
  /\ part \in {"agps", "agps_troubled", "ni", "odcpi"}
  /\ Init /\ NiInit /\ OdInit

AgpsStep == part = "agps" /\ Next /\ UNCHANGED <<part, niVars, odVars>>
TroubledStep == part = "agps_troubled" /\ Troubled!Next /\ UNCHANGED <<part, niVars, odVars>>
NiStep == part = "ni" /\ NiNext /\ UNCHANGED <<part, vars, odVars>>
OdStep == part = "odcpi" /\ OdNext /\ UNCHANGED <<part, vars, niVars>>

GnssNext == AgpsStep \/ TroubledStep \/ NiStep \/ OdStep

(* The fairness of a part asks for nothing in the initial state of that    *)
(* part, which it stays in while another one runs.                         *)
GnssSpec ==
  /\ GnssInit /\ [][GnssNext]_gnssVars
  /\ FrameworkFairness /\ ModemFairness /\ NiFairness /\ OdFairness

GnssTypesOK == TypeOK /\ NiTypeOK /\ OdTypeOK

(* With access point names that are accepted, every request of the modem   *)
(* to open or to close a connection is answered (Agps.cpp:582-645), as     *)
(* AtlService says.                                                        *)
EveryAtlAnswered ==
  \A h \in Handle, s \in {"opening", "closing"} :
    part = "agps" /\ atl[h] = s ~> atl[h] # s

(* What the modem asks for is kept until it is dealt with: a network       *)
(* initiated request has one thread that ends it (GnssAdapter.cpp:5444-    *)
(* 5502), a wanted position has a timer (GnssAdapter.cpp:5933-5964).       *)
RequestsAreKept == RequestHasOneOwner /\ RepetitionIsComing

(* What the modem asks for comes to an end, in each of the parts: data     *)
(* calls are answered, network initiated requests given back and positions *)
(* asked for (Agps.cpp:582-645, GnssAdapter.cpp:5444-5502, 5924-5996).     *)
EveryRequestEnds == EveryAtlAnswered /\ NiRequestEnds /\ OwedIsAsked

(* The kinds of network initiated requests that are told apart: with the   *)
(* run's switches the user is asked about an emergency and about a voice   *)
(* call's request, which have a session each; the others are decided       *)
(* without asking.                                                         *)
Kind(type, override, emergency) ==
  [type |-> type, override |-> override, emergency |-> emergency]

Kinds == {Kind("SUPL", FALSE, FALSE), Kind("EMERGENCY_SUPL", FALSE, TRUE),
          Kind("SUPL", TRUE, FALSE), Kind("EMERGENCY_SUPL", FALSE, FALSE),
          Kind("CONTROL_PLANE", FALSE, TRUE), Kind("VOICE", FALSE, FALSE)}

=============================================================================
