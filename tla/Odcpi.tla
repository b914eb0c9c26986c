-------------------------------- MODULE Odcpi --------------------------------
(***************************************************************************)
(* On demand coarse positions (ODCPI): the modem asks for a position that  *)
(* some provider of the framework injects (gnss/GnssAdapter.cpp,           *)
(* requestOdcpi, fireOdcpiRequest, odcpiTimerExpire; OdcpiTimer of         *)
(* gnss/GnssAdapter.h).                                                    *)
(*                                                                         *)
(* The modem starts and stops requests in quick succession; a timer keeps  *)
(* the adapter from asking the framework each time, and repeats a request  *)
(* that is still active when it expires.  Its flag mActive is the          *)
(* adapter's own and not the LocTimer's state: the timer is one thread,    *)
(* the message that its expiry sends is handled by another, and the flag   *)
(* tells whether a repetition is to come.                                  *)
(*                                                                         *)
(* A request is emergency or not; positions are data and left out, as is   *)
(* the civic address bit of the mask, which only injections look at.       *)
(***************************************************************************)
EXTENDS Naturals

CONSTANTS
  OdPriority,      \* priorities at which providers register
  MaxOdRequests,   \* bound: starts and stops of the modem
  MaxOdEvents      \* bound: registrations, restarts and power events

ASSUME OdAssumption ==
  /\ OdPriority \subseteq Nat
  /\ MaxOdRequests \in Nat /\ MaxOdEvents \in Nat

VARIABLES
  odActive,      \* ODCPI_REQ_ACTIVE of mOdcpiStateMask
  odRequest,     \* mOdcpiRequest: is it an emergency
  odTimerFlag,   \* OdcpiTimer::mActive
  odArmed,       \* the LocTimer behind it runs
  odExpiries,    \* MsgOdcpiTimerExpire not handled yet
  odProvider,    \* mControlCallbacks.odcpiReqCb is there
  odOthers,      \* mNonEsOdcpiReqCbMap: priorities with a callback
  odEsStatus,    \* what mEsStatusCb was told last
  odInCall,      \* what eventInEmergencyCall was told last
  odSuspended,   \* mSystemPowerState is one of the sleeping ones
  odOwed,        \* what the modem asked for and nobody has been asked for yet
  odRequests,    \* bound: requests so far
  odEvents       \* bound: events so far

odVars == <<odActive, odRequest, odTimerFlag, odArmed, odExpiries, odProvider,
            odOthers, odEsStatus, odInCall, odSuspended, odOwed, odRequests, odEvents>>

OdKind == {"none", "emergency", "other"}
OdKindOf(emergency) == IF emergency THEN "emergency" ELSE "other"

OdTypeOK ==
  /\ odActive \in BOOLEAN /\ odRequest \in BOOLEAN
  /\ odTimerFlag \in BOOLEAN /\ odArmed \in BOOLEAN
  /\ odProvider \in BOOLEAN /\ odSuspended \in BOOLEAN
  /\ odEsStatus \in BOOLEAN /\ odInCall \in BOOLEAN
  /\ odExpiries \in Nat
  /\ odOthers \subseteq OdPriority
  /\ odOwed \in OdKind
  /\ odRequests \in Nat /\ odEvents \in Nat

OdInit ==
  /\ odActive = FALSE /\ odRequest = FALSE
  /\ odTimerFlag = FALSE /\ odArmed = FALSE /\ odExpiries = 0
  /\ odProvider = FALSE /\ odOthers = {}
  /\ odEsStatus = FALSE /\ odInCall = FALSE
  /\ odSuspended = FALSE
  /\ odOwed = "none"
  /\ odRequests = 0 /\ odEvents = 0

OdAsks == odRequests < MaxOdRequests /\ odRequests' = odRequests + 1 /\ UNCHANGED odEvents
OdHappens == odEvents < MaxOdEvents /\ odEvents' = odEvents + 1 /\ UNCHANGED odRequests

-----------------------------------------------------------------------------
(* fireOdcpiRequest: an emergency goes to the emergency provider, any      *)
(* other request to the other provider with the highest priority, and to   *)
(* nobody if there is none                                                 *)
OdFire(emergency) ==
  odOwed' = IF emergency \/ odOthers # {} THEN "none" ELSE "other"

(* The timer: OdcpiTimer and the LocTimer that it inherits from *)

OdTimerStart == odTimerFlag' = TRUE /\ odArmed' = TRUE
OdTimerStop == odTimerFlag' = FALSE /\ odArmed' = FALSE

(* LocTimer expires, and timeOutCallback sends MsgOdcpiTimerExpire *)
OdTimeOut ==
  /\ odArmed
  /\ odArmed' = FALSE
  /\ odExpiries' = odExpiries + 1
  /\ UNCHANGED <<odActive, odRequest, odTimerFlag, odProvider, odOthers, odEsStatus,
                 odInCall, odSuspended, odOwed, odRequests, odEvents>>

(* odcpiTimerExpire: an active request is fired again.  The message may be *)
(* of a timer that was restarted since; then it just comes early.          *)
OdcpiTimerExpire ==
  /\ odExpiries > 0
  /\ odExpiries' = odExpiries - 1
  /\ \/ odActive /\ OdFire(odRequest) /\ OdTimerStart
     \/ ~odActive /\ UNCHANGED odOwed /\ OdTimerStop
  /\ UNCHANGED <<odActive, odRequest, odProvider, odOthers, odEsStatus, odInCall,
                 odSuspended, odRequests, odEvents>>

-----------------------------------------------------------------------------
(* Requests of the modem *)

(* A request goes out at once: nothing is active and nothing was fired     *)
(* lately, or an emergency follows a request that was none                 *)
OdFiresNow(emergency) ==
  \/ ~odActive /\ ~odTimerFlag
  \/ ~odRequest /\ emergency

(* requestOdcpi, ODCPI_REQUEST_TYPE_START.  Otherwise the request is only  *)
(* noted, for the timer to repeat: if one was active it has been fired, or *)
(* what was owed is now owed for the new request.                          *)
OdcpiStart(emergency) ==
  /\ odProvider
  /\ OdAsks
  /\ odActive' = TRUE
  /\ odRequest' = emergency
  /\ \/ /\ OdFiresNow(emergency)
        /\ OdFire(emergency)
        /\ OdTimerStart
        /\ odEsStatus' = emergency
        /\ odInCall' = (odInCall \/ emergency)
     \/ /\ ~OdFiresNow(emergency)
        /\ odOwed' = IF odActive /\ odOwed = "none" THEN "none" ELSE OdKindOf(emergency)
        /\ UNCHANGED <<odTimerFlag, odArmed, odEsStatus, odInCall>>
  /\ UNCHANGED <<odExpiries, odProvider, odOthers, odSuspended>>

(* requestOdcpi, ODCPI_REQUEST_TYPE_STOP: the timer goes on *)
OdcpiStop(emergency) ==
  /\ odProvider
  /\ OdAsks
  /\ odActive' = FALSE
  /\ odOwed' = "none"
  /\ odEsStatus' = FALSE
  /\ odInCall' = (odInCall /\ ~emergency)
  /\ UNCHANGED <<odRequest, odTimerFlag, odArmed, odExpiries, odProvider, odOthers,
                 odSuspended>>

-----------------------------------------------------------------------------
(* What else happens *)

(* initOdcpi of the emergency provider, or setControlCallbacks with one;   *)
(* either replaces it but never takes it away                              *)
InitOdcpi ==
  /\ OdHappens
  /\ odProvider' = TRUE
  /\ UNCHANGED <<odActive, odRequest, odTimerFlag, odArmed, odExpiries, odOthers,
                 odEsStatus, odInCall, odSuspended, odOwed>>

(* initOdcpi and deRegisterOdcpi of other providers *)
InitNonEsOdcpi(p) ==
  /\ OdHappens
  /\ odOthers' = odOthers \union {p}
  /\ UNCHANGED <<odActive, odRequest, odTimerFlag, odArmed, odExpiries, odProvider,
                 odEsStatus, odInCall, odSuspended, odOwed>>

DeRegisterOdcpi(p) ==
  /\ OdHappens
  /\ odOthers' = odOthers \ {p}
  /\ UNCHANGED <<odActive, odRequest, odTimerFlag, odArmed, odExpiries, odProvider,
                 odEsStatus, odInCall, odSuspended, odOwed>>

(* Mutant: a restart also stops the LocTimer, but not through OdcpiTimer,  *)
(* so that the flag stays set                                              *)
MutantOdRestart ==
  /\ OdHappens
  /\ odOwed' = "none"
  /\ odActive' = (odActive /\ odSuspended)
  /\ odArmed' = FALSE
  /\ UNCHANGED <<odRequest, odTimerFlag, odExpiries, odProvider, odOthers, odEsStatus,
                 odInCall, odSuspended>>

(* The modem restarts and has forgotten its request: restartSessions(true) *)
(* resets the mask, but not while the system sleeps                        *)
OdRestart ==
  /\ OdHappens
  /\ odOwed' = "none"
  /\ odActive' = (odActive /\ odSuspended)
  /\ UNCHANGED <<odRequest, odTimerFlag, odArmed, odExpiries, odProvider, odOthers,
                 odEsStatus, odInCall, odSuspended>>

(* updateSystemPowerState; restartSessions(false) leaves the mask alone *)
OdPowerEvent ==
  /\ OdHappens
  /\ odSuspended' = ~odSuspended
  /\ UNCHANGED <<odActive, odRequest, odTimerFlag, odArmed, odExpiries, odProvider,
                 odOthers, odEsStatus, odInCall, odOwed>>

OdNext ==
  \/ OdTimeOut
  \/ OdcpiTimerExpire
  \/ \E emergency \in BOOLEAN : OdcpiStart(emergency)
  \/ \E emergency \in BOOLEAN : OdcpiStop(emergency)
  \/ InitOdcpi
  \/ \E p \in OdPriority : InitNonEsOdcpi(p)
  \/ \E p \in OdPriority : DeRegisterOdcpi(p)
  \/ OdRestart
  \/ OdPowerEvent

OdSpec == OdInit /\ [][OdNext]_odVars

(* The timer thread and the message thread are scheduled *)
OdFairness == WF_odVars(OdTimeOut) /\ WF_odVars(OdcpiTimerExpire)

OdFairSpec == OdSpec /\ OdFairness

-----------------------------------------------------------------------------
(* Safety *)

(* An active request has a repetition to come: the flag is set, and it is  *)
(* set only while the LocTimer runs or its expiry is about to be handled   *)
(* (GnssAdapter.cpp:5933-5964, 6349-6362; GnssAdapter.h:77-89).  What is   *)
(* owed to the modem is what the timer will fire.  A flag that outlived    *)
(* its timer would keep every later request from being fired.              *)
RepetitionIsComing ==
  /\ odActive => odTimerFlag
  /\ odTimerFlag => odArmed \/ odExpiries > 0
  /\ odOwed # "none" => odActive /\ odOwed = OdKindOf(odRequest)

(* Liveness *)

(* The modem's request reaches a provider in the end, unless the modem     *)
(* stops it or restarts, or there is no provider for what is not an        *)
(* emergency, however starts, stops, upgrades and expiries come            *)
(* (GnssAdapter.cpp:5959-5964: "wait for timer to expire before requesting *)
(* new ODCPI").  A later start that is no emergency takes the place of an  *)
(* emergency that has not been fired: then it is the later one that is.    *)
OwedIsAsked == odOwed # "none" ~> odOwed = "none" \/ (~odRequest /\ odOthers = {})

=============================================================================
