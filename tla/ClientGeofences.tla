-------------------------- MODULE ClientGeofences --------------------------
(***************************************************************************)
(* How a client of the HAL keeps track of its geofences: the geofence      *)
(* interface of LocationAPIClientBase (location/LocationAPIClientBase.cpp, *)
(* .h).                                                                    *)
(*                                                                         *)
(* Commands name any number of ids, which a map (BiDict) leads to the      *)
(* adapter's ids, here called fences as they are sessions in the code; the *)
(* ones it does not know are left out.  The map also keeps what breaches   *)
(* the client wants of each, and only those are reported.                  *)
(*                                                                         *)
(* The GeofenceAdapter is external: it answers the commands in their order *)
(* and keeps the options it got for each fence.                            *)
(***************************************************************************)
EXTENDS Naturals, SequencesExt

CONSTANTS
  CgId,         \* ids that the client gives its geofences
  CgWish,       \* what breaches of a geofence clients ask for
  CgTroubles,   \* what clients may do: "readd", "gaps", "resume"
  MaxCgCommands, \* bound: commands
  MaxCgFences   \* bound: fences ever added

CgTrouble == {"readd", "gaps", "resume"}
CgBreach == {"enter", "exit"}

ASSUME CgWishAssumption == CgWish \subseteq SUBSET CgBreach
ASSUME CgTroublesAssumption == CgTroubles \subseteq CgTrouble
ASSUME CgBoundsAssumption == {MaxCgCommands, MaxCgFences} \subseteq Nat

VARIABLES
  cgSession,    \* mGeofenceBiDict: the fence of each id
  cgId,         \* and the id of each fence
  cgWanted,     \* and the breaches the client wants of each fence
  cgQueue,      \* REQUEST_GEOFENCE: the kind, and the fences a removal took
  cgDue,        \* commands the adapter has not answered, oldest first
  cgFence,      \* the breaches that the adapter reports of each of its fences
  cgTold,       \* the last answer: what was asked of which ids, and what is told
  cgCount       \* commands and fences so far

cgVars == <<cgSession, cgId, cgWanted, cgQueue, cgDue, cgFence, cgTold, cgCount>>
cgDict == <<cgSession, cgId, cgWanted>>

CgFence == 1..MaxCgFences
CgDo == {"add", "remove", "modify", "pause", "resume"}

CgTypeOK ==
  /\ DOMAIN cgSession \subseteq CgId /\ Range(cgSession) \subseteq CgFence
  /\ DOMAIN cgId \subseteq CgFence /\ Range(cgId) \subseteq CgId
  /\ DOMAIN cgWanted = DOMAIN cgId /\ Range(cgWanted) \subseteq CgWish
  /\ \A i \in DOMAIN cgQueue : cgQueue[i].do \in CgDo
  /\ \A i \in DOMAIN cgDue : cgDue[i].do \in CgDo /\ Range(cgDue[i].fences) \subseteq CgFence
  /\ DOMAIN cgFence \subseteq CgFence /\ Range(cgFence) \subseteq CgWish
  /\ cgCount \in [commands: 0..MaxCgCommands, fences: 0..MaxCgFences]

-----------------------------------------------------------------------------
(* The map *)

(* BiDict::set for each of a sequence of ids: what an id or a fence led to *)
(* before is not taken out                                                 *)
CgSet(ids, fences, wishes) ==
  LET last(s, x) == CHOOSE i \in DOMAIN s : s[i] = x /\ \A j \in DOMAIN s : s[j] = x => j <= i
  IN /\ cgSession' = [x \in DOMAIN cgSession \cup Range(ids) |->
                        IF x \in Range(ids) THEN fences[last(ids, x)] ELSE cgSession[x]]
     /\ cgId' = [f \in DOMAIN cgId \cup Range(fences) |->
                   IF f \in Range(fences) THEN ids[last(fences, f)] ELSE cgId[f]]
     /\ cgWanted' = [f \in DOMAIN cgWanted \cup Range(fences) |->
                   IF f \in Range(fences) THEN wishes[last(fences, f)] ELSE cgWanted[f]]

(* BiDict::rmBySession for each of a set of fences                         *)
CgRemove(fences) ==
  /\ cgSession' = Restrict(cgSession, DOMAIN cgSession \ {cgId[f] : f \in fences \cap DOMAIN cgId})
  /\ cgId' = Restrict(cgId, DOMAIN cgId \ fences)
  /\ cgWanted' = Restrict(cgWanted, DOMAIN cgWanted \ fences)

(* The places of the ids that the map knows, in their order                *)
CgKnown(ids) ==
  SelectSeq([i \in DOMAIN ids |-> i], LAMBDA i : ids[i] \in DOMAIN cgSession)

-----------------------------------------------------------------------------
(* The client *)

CgCommand(do, ids, fences, options, removed) ==
  /\ cgQueue' = Append(cgQueue, [do |-> do, removed |-> removed])
  /\ cgDue' = Append(cgDue, [do |-> do, ids |-> ids, fences |-> fences, options |-> options])
  /\ cgCount' = [cgCount EXCEPT !.commands = @ + 1]
  /\ UNCHANGED <<cgFence, cgTold>>

(* The lists of ids that commands come with                                *)
CgIds == {ids \in UNION {[1..n -> CgId] : n \in 1..2} : IsInjective(ids)}

(* locAPIAddGeofences: every id gets a new fence                           *)
CgAdd(ids, wishes) ==
  LET fences == [i \in DOMAIN ids |-> cgCount.fences + i] IN
  /\ cgCount.commands < MaxCgCommands
  /\ cgCount.fences + Len(ids) <= MaxCgFences
  /\ "readd" \in CgTroubles \/ \A i \in DOMAIN ids : ids[i] \notin DOMAIN cgSession
  /\ CgSet(ids, fences, wishes)
  /\ cgQueue' = Append(cgQueue, [do |-> "add", removed |-> <<>>])
  /\ cgDue' = Append(cgDue, [do |-> "add", ids |-> ids, fences |-> fences, options |-> wishes])
  /\ cgCount' = [commands |-> cgCount.commands + 1, fences |-> cgCount.fences + Len(ids)]
  /\ UNCHANGED <<cgFence, cgTold>>

(* The other commands are for the fences of the ids that are known, and    *)
(* there is none if no id is                                               *)
CgGiven(ids) ==
  /\ cgCount.commands < MaxCgCommands
  /\ CgKnown(ids) # <<>>
  /\ "gaps" \in CgTroubles \/ Len(CgKnown(ids)) = Len(ids)

CgPlaces(s, ids) == [j \in DOMAIN CgKnown(ids) |-> s[CgKnown(ids)[j]]]
CgFences(ids) == [j \in DOMAIN CgKnown(ids) |-> cgSession[ids[CgKnown(ids)[j]]]]

(* Mutant: the fences of the removal are not remembered                    *)
MutantCgRemoveGeofences(ids) ==
  LET fences == CgFences(ids) IN
  /\ CgGiven(ids)
  /\ CgRemove(Range(fences))
  /\ CgCommand("remove", CgPlaces(ids, ids), fences, <<>>, <<>>)

(* locAPIRemoveGeofences: the ids are free at once, and the request keeps  *)
(* what they were for its answer                                           *)
CgRemoveGeofences(ids) ==
  LET fences == CgFences(ids) IN
  /\ CgGiven(ids)
  /\ CgRemove(Range(fences))
  /\ CgCommand("remove", CgPlaces(ids, ids), fences, <<>>,
               [f \in Range(fences) |-> cgId[f]])

(* locAPIRemoveAllGeofences                                                *)
CgRemoveAll == CgRemoveGeofences(SetToSeq(DOMAIN cgSession))

(* Mutant: only the adapter is told of the options                         *)
MutantCgModify(ids, wishes) ==
  LET fences == CgFences(ids) IN
  /\ CgGiven(ids)
  /\ UNCHANGED cgDict
  /\ CgCommand("modify", CgPlaces(ids, ids), fences,
               SubSeq(wishes, 1, Len(fences)), <<>>)

(* locAPIModifyGeofences: the fences close up where an id is not known,    *)
(* and the options do not                                                  *)
CgModify(ids, wishes) ==
  LET fences == CgFences(ids) IN
  /\ CgGiven(ids)
  /\ CgSet(CgPlaces(ids, ids), fences, CgPlaces(wishes, ids))
  /\ CgCommand("modify", CgPlaces(ids, ids), fences,
               SubSeq(wishes, 1, Len(fences)), <<>>)

CgPause(ids) ==
  /\ CgGiven(ids)
  /\ CgCommand("pause", CgPlaces(ids, ids), CgFences(ids), <<>>, <<>>)
  /\ UNCHANGED cgDict

(* locAPIResumeGeofences: the breaches wanted from now on stay here        *)
CgResume(ids, wishes) ==
  LET fences == CgFences(ids) IN
  /\ CgGiven(ids)
  /\ \/ "resume" \in CgTroubles
     \/ \A i \in DOMAIN fences : cgWanted[fences[i]] = CgPlaces(wishes, ids)[i]
  /\ CgSet(CgPlaces(ids, ids), fences, CgPlaces(wishes, ids))
  /\ CgCommand("resume", CgPlaces(ids, ids), fences, <<>>, <<>>)

-----------------------------------------------------------------------------
(* Answers *)

CgIdOf(map, fence) == IF fence \in DOMAIN map THEN map[fence] ELSE 0

(* onCollectiveResponseCb: the answer is for the first request, which      *)
(* turns the fences back into ids, by the map or by what a removal took    *)
(* out of it                                                               *)
CgTell(c) ==
  LET r == Head(cgQueue)
      map == IF r.do = "remove" THEN r.removed ELSE cgId
  IN /\ cgQueue' = Tail(cgQueue)
     /\ cgTold' = [asked |-> <<c.do, c.ids>>,
                   told |-> <<r.do, [i \in DOMAIN c.fences |-> CgIdOf(map, c.fences[i])]>>]

(* The adapter does the first command: the modem may refuse a fence        *)
CgAnswer ==
  /\ cgDue # <<>>
  /\ LET c == Head(cgDue)
     IN /\ CgTell(c)
        /\ \/ /\ c.do = "add"
              /\ \E taken \in SUBSET Range(c.fences) :
                   cgFence' = [f \in DOMAIN cgFence \cup taken |->
                                 IF f \in taken THEN c.options[SelectInSeq(c.fences, LAMBDA g : g = f)]
                                 ELSE cgFence[f]]
           \/ /\ c.do = "remove"
              /\ cgFence' = Restrict(cgFence, DOMAIN cgFence \ Range(c.fences))
           \/ /\ c.do = "modify"
              /\ cgFence' = [f \in DOMAIN cgFence |->
                               IF f \in Range(c.fences)
                               THEN c.options[SelectInSeq(c.fences, LAMBDA g : g = f)]
                               ELSE cgFence[f]]
           \/ c.do \in {"pause", "resume"} /\ UNCHANGED cgFence
  /\ cgDue' = Tail(cgDue)
  /\ UNCHANGED <<cgDict, cgCount>>

(* beforeGeofenceBreachCb: what a breach of a kind is told of, for a set   *)
(* of fences that the adapter reports                                      *)
CgBreachTold(fences, kind) ==
  {CgIdOf(cgId, f) : f \in {g \in fences \cap DOMAIN cgWanted : kind \in cgWanted[g]}}

-----------------------------------------------------------------------------
(* The specification *)

CgInit ==
  /\ cgSession = <<>> /\ cgId = <<>> /\ cgWanted = <<>>
  /\ cgQueue = <<>>
  /\ cgDue = <<>>
  /\ cgFence = <<>>
  /\ cgTold = [asked |-> <<>>, told |-> <<>>]
  /\ cgCount = [commands |-> 0, fences |-> 0]

CgNext ==
  \/ \E ids \in CgIds :
       \/ \E wishes \in [DOMAIN ids -> CgWish] :
            CgAdd(ids, wishes) \/ CgModify(ids, wishes) \/ CgResume(ids, wishes)
       \/ CgRemoveGeofences(ids) \/ CgPause(ids)
  \/ CgRemoveAll
  \/ CgAnswer

CgSpec == CgInit /\ [][CgNext]_cgVars

-----------------------------------------------------------------------------
(* Properties *)

(* Every breach the client wants is told, with the id it gave: once the    *)
(* adapter is through, each of its fences reports what the map lets        *)
(* through, and it is the one its id leads to, so that it can be paused or *)
(* removed (LocationAPIClientBase.cpp:887-931).                            *)
BreachesReachTheClient ==
  cgDue = <<>> =>
    \A f \in DOMAIN cgFence :
      /\ \A kind \in cgFence[f] : CgBreachTold({f}, kind) # {}
      /\ f \in DOMAIN cgWanted /\ cgWanted[f] \subseteq cgFence[f]
      /\ f \in DOMAIN cgId /\ cgSession[cgId[f]] = f

(* An answer comes with the command and the ids it answers, except that an *)
(* id that was removed meanwhile is told as 0                              *)
(* (LocationAPIClientBase.h:498-576).                                      *)
AnswersNameTheirIds ==
  cgTold.asked # <<>> =>
    /\ cgTold.told[1] = cgTold.asked[1]
    /\ \A i \in DOMAIN cgTold.asked[2] :
         cgTold.told[2][i] \in {cgTold.asked[2][i]} \cup (IF cgTold.asked[1] = "remove" THEN {} ELSE {0})

(* What the client base keeps of geofences leads breaches and answers to   *)
(* the ids of the client (LocationAPIClientBase.cpp:673-990).              *)
ClientFencesAreKnown == BreachesReachTheClient /\ AnswersNameTheirIds

=============================================================================
