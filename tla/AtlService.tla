----------------------------- MODULE AtlService -----------------------------
(***************************************************************************)
(* What the modem may rely on when it opens and closes ATL connections     *)
(* through requestATL and releaseATL (gnss/Agps.h): the life of each       *)
(* connection handle, with no mention of data connections, interfaces or   *)
(* subscriber lists.  Agps implements it.                                  *)
(*                                                                         *)
(* One step may answer many handles, since they share a data connection.   *)
(***************************************************************************)
CONSTANT Handle

VARIABLE atl   \* the status of each connection handle

Status == {"idle", "opening", "open", "failed", "closing"}

(* No handle is in use *)
Unused == {"idle", "failed"}

(* How a handle's status may change.  A handle that asked to be closed is  *)
(* never told that it is open; nothing happens to a handle not in use but  *)
(* by the modem's request; and a handle that is open stays so until it is  *)
(* closed by either side.                                                  *)
MayBecome(s) ==
  CASE s \in Unused   -> {"opening", "open", "failed"}
    [] s = "opening"  -> {"open", "failed", "closing", "idle"}
    [] s = "open"     -> {"closing", "idle"}
    [] s = "closing"  -> {"idle", "failed"}

Init == atl = [h \in Handle |-> "idle"]

(* The modem's own requests concern one handle; a restart of the modem     *)
(* forgets them all.                                                       *)
Step ==
  /\ atl' \in [Handle -> Status]
  /\ \A h \in Handle : atl'[h] = atl[h] \/ atl'[h] \in MayBecome(atl[h])
  /\ \A g, h \in Handle :
       /\ atl[g] \in Unused /\ atl'[g] # atl[g]
       /\ atl'[h] # atl[h]
       => g = h

Restart == atl' = [h \in Handle |-> "idle"]

Next == Step \/ Restart

Spec == Init /\ [][Next]_atl

(* Every request to open and every request to close is answered *)
EveryOpenAnswered == \A h \in Handle : atl[h] = "opening" ~> atl[h] # "opening"
EveryCloseAnswered == \A h \in Handle : atl[h] = "closing" ~> atl[h] # "closing"

=============================================================================
