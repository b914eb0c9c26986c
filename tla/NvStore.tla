------------------------------ MODULE NvStore ------------------------------
(***************************************************************************)
(* Parameters that outlive the process (utils/base_util/nvparam_mgr.h,     *)
(* .cpp), in a file of SQLite that several processes use: values of        *)
(* clients, the pseudo client id, which is made when it is asked for       *)
(* first, and the lever arm of the GNSS adapter (GnssAdapter.cpp:276-352,  *)
(* 7571-7624).                                                             *)
(*                                                                         *)
(* A process has one manager with a count of its users, whose calls        *)
(* exclude one another.  The processes exclude one another for one         *)
(* statement only: it may find the file busy, and others may come between  *)
(* two of them.  The adapter has an engine hub, which may refuse a lever   *)
(* arm.                                                                    *)
(***************************************************************************)
EXTENDS Naturals, FiniteSets

CONSTANTS
  NvHal, NvOthers,  \* the process of the adapter, and other processes
  NvRandom,         \* random numbers, of which a pseudo client id is made;
                    \* 0 stands for no id
  MaxNvUsers,       \* bound: users of a manager
  MaxNvSaves,       \* bound: parameters and lever arms that are saved
  MaxNvTroubles     \* bound: restarts and statements that fail

NvProcess == {NvHal} \cup NvOthers

ASSUME NvAssumption ==
  /\ NvHal \notin NvOthers /\ 0 \notin NvRandom
  /\ {MaxNvUsers, MaxNvSaves, MaxNvTroubles} \subseteq Nat

(* Of the types of parameters the size matters, "text" has any *)
NvSized == {"bool", "long"}
NvSize == [bool |-> 1, long |-> 8]
NvLength == {0, 1, 8}

VARIABLES
  nvParam,     \* the row of a parameter, NoNv if there is none
  nvIdRow,     \* the row PSEUDO_CLIENT_ID_64BIT, 0 if there is none
  nvArmRow,    \* the row of the lever arm, 0 if there is none
  nvUsers,     \* m_ref_cnt of each process
  nvOpen,      \* m_nv_mgr is there, with its m_db
  nvId,        \* m_pseudo_client_id_64 if m_pseudo_client_id_exist, else 0
  nvMaking,    \* the id a process is saving, and which of its rows it saved
  nvAdapter,   \* the adapter is "away", "made", or has "restored" the lever arm
  nvHas,       \* mNvParamMgr is not null
  nvHub,       \* the lever arm the engine hub goes by, 0 if there is none
  nvSpe,       \* mLocConfigInfo.leverArmConfigInfo, 0 if it is not valid
  nvSaves,     \* parameters and lever arms saved so far
  nvTroubles,  \* restarts and failures so far
  nvLast,      \* what was saved last of the parameter
  nvTold,      \* ids that were told, by the manager that told them
  nvEver,      \* ids that were ever told
  nvOdd,       \* a process made an id though one was made, or did not keep it
  nvArm,       \* the lever arm that was configured last, 0 if none was
  nvUnsaved,   \* it could not be saved, or not be restored
  nvRefused    \* the engine hub refused the lever arm it was given last

nvFile == <<nvParam, nvIdRow, nvArmRow>>
nvManagers == <<nvUsers, nvOpen, nvId, nvMaking>>
nvArms == <<nvAdapter, nvHas, nvHub, nvSpe, nvArm, nvUnsaved, nvRefused>>
nvIds == <<nvTold, nvEver, nvOdd>>
nvVars == <<nvFile, nvManagers, nvArms, nvSaves, nvTroubles, nvLast, nvIds>>

-----------------------------------------------------------------------------
(* Types *)

NoNv == [length |-> 0, value |-> 0]
NvValue == 0..MaxNvSaves
NvRow == [length: NvLength, value: NvValue]
NvIdle == [id |-> 0, saved |-> {}, at |-> "none"]

NvTypeOK ==
  /\ nvParam \in NvRow /\ nvLast \in NvRow
  /\ nvIdRow \in NvRandom \cup {0} /\ nvArmRow \in NvValue
  /\ nvUsers \in [NvProcess -> 0..MaxNvUsers] /\ nvOpen \in [NvProcess -> BOOLEAN]
  /\ nvId \in [NvProcess -> NvRandom \cup {0}]
  /\ nvMaking \in [NvProcess -> [id: NvRandom, saved: SUBSET {"half"}, at: {"half", "whole"}]
                                \cup {NvIdle}]
  /\ nvAdapter \in {"away", "made", "restored"}
  /\ nvHas \in BOOLEAN /\ nvUnsaved \in BOOLEAN /\ nvRefused \in BOOLEAN
  /\ nvOdd \in BOOLEAN
  /\ {nvHub, nvSpe, nvArm} \subseteq NvValue
  /\ nvSaves \in NvValue /\ nvTroubles \in 0..MaxNvTroubles
  /\ nvTold \in [NvProcess -> SUBSET NvRandom] /\ nvEver \subseteq NvRandom

-----------------------------------------------------------------------------
(* Statements *)

(* One that fails finds the file busy or has another error *)
NvStatement(works) ==
  /\ works \/ nvTroubles < MaxNvTroubles
  /\ nvTroubles' = IF works THEN nvTroubles ELSE nvTroubles + 1

(* A user's call: the manager is there, and no other call is under way *)
NvCall(p) == nvUsers[p] > 0 /\ nvMaking[p] = NvIdle

-----------------------------------------------------------------------------
(* Managers *)

(* NvParamMgr::getInstance: the first user opens the file, if that works *)
NvGotInstance(p, opens) ==
  IF nvOpen[p] \/ opens
  THEN /\ nvUsers' = [nvUsers EXCEPT ![p] = @ + 1]
       /\ nvOpen' = [nvOpen EXCEPT ![p] = TRUE]
       /\ UNCHANGED <<nvId, nvMaking>>
  ELSE UNCHANGED nvManagers

NvGetInstance(p, opens) ==
  /\ nvUsers[p] < MaxNvUsers /\ nvMaking[p] = NvIdle
  /\ nvOpen[p] => opens
  /\ NvStatement(opens)
  /\ NvGotInstance(p, opens)
  /\ UNCHANGED <<nvFile, nvArms, nvSaves, nvLast, nvIds>>

(* Mutant: whoever leaves closes the file *)
MutantNvIsLast(p) == TRUE

NvIsLast(p) == nvUsers[p] <= 1

(* NvParamMgr::releaseInstance, called by a user but not by the adapter, *)
(* which is there for as long as its process                             *)
NvReleaseInstance(p) ==
  /\ NvCall(p)
  /\ p = NvHal /\ nvHas => nvUsers[p] > 1
  /\ nvUsers' = [nvUsers EXCEPT ![p] = @ - 1]
  /\ IF NvIsLast(p)
     THEN /\ nvOpen' = [nvOpen EXCEPT ![p] = FALSE]
          /\ nvId' = [nvId EXCEPT ![p] = 0]
          /\ nvTold' = [nvTold EXCEPT ![p] = {}]
     ELSE UNCHANGED <<nvOpen, nvId, nvTold>>
  /\ UNCHANGED <<nvFile, nvMaking, nvArms, nvSaves, nvTroubles, nvLast, nvEver, nvOdd>>

(* A process ends, and with it its managers and the adapter *)
NvRestart(p) ==
  /\ nvUsers[p] > 0 \/ (p = NvHal /\ nvAdapter # "away")
  /\ NvStatement(FALSE)
  /\ nvUsers' = [nvUsers EXCEPT ![p] = 0]
  /\ nvOpen' = [nvOpen EXCEPT ![p] = FALSE]
  /\ nvId' = [nvId EXCEPT ![p] = 0]
  /\ nvMaking' = [nvMaking EXCEPT ![p] = NvIdle]
  /\ nvTold' = [nvTold EXCEPT ![p] = {}]
  /\ IF p = NvHal
     THEN /\ nvAdapter' = "away" /\ nvHas' = FALSE /\ nvHub' = 0 /\ nvSpe' = 0
          /\ nvRefused' = FALSE
          /\ UNCHANGED <<nvArm, nvUnsaved>>
     ELSE UNCHANGED nvArms
  /\ UNCHANGED <<nvFile, nvSaves, nvLast, nvEver, nvOdd>>

-----------------------------------------------------------------------------
(* Parameters *)

(* saveNvDataBlob: the row replaces another of its name *)
NvSave(p, length, works) ==
  /\ NvCall(p) /\ nvSaves < MaxNvSaves
  /\ NvStatement(works)
  /\ nvSaves' = nvSaves + 1
  /\ IF works
     THEN /\ nvParam' = [length |-> length, value |-> nvSaves + 1]
          /\ nvLast' = nvParam'
     ELSE UNCHANGED <<nvParam, nvLast>>
  /\ UNCHANGED <<nvIdRow, nvArmRow, nvManagers, nvArms, nvIds>>

(* Mutant: it is not looked whether as many bytes came as were wanted *)
MutantNvFits(type, length) == length <= NvSize[type]

NvFits(type, length) == length = NvSize[type]

(* getNvDataBlob: what is empty is not found.  No state is changed by a    *)
(* get, and one whose statement fails gives nothing: this is what the      *)
(* others give.                                                            *)
NvFound == nvParam.value # 0 /\ nvParam.length > 0

(* getInt32Param, getBoolParam, getFloatParam, getUInt32Param,             *)
(* getInt64Param and getUInt64Param, where a value that is too short is    *)
(* copied before its length is looked at                                   *)
NvGetSized(type) ==
  [ok |-> NvFound /\ NvFits(type, nvParam.length), row |-> nvParam,
   copied |-> NvFound /\ nvParam.length <= NvSize[type]]

(* getStringParam, getBlobParam *)
NvGetText == [ok |-> NvFound, row |-> nvParam, copied |-> NvFound]

-----------------------------------------------------------------------------
(* The pseudo client id *)

NvTell(p, id) ==
  /\ nvTold' = [nvTold EXCEPT ![p] = @ \cup {id}]
  /\ nvEver' = nvEver \cup {id}

(* getInt32Param, getInt64Param, getUInt64Param of the id: the manager     *)
(* knows it already                                                        *)
NvTellId(p) ==
  /\ NvCall(p) /\ nvId[p] # 0
  /\ NvTell(p, nvId[p])
  /\ UNCHANGED <<nvFile, nvManagers, nvArms, nvSaves, nvTroubles, nvLast, nvOdd>>

(* Mutant: the id of an earlier life is not looked for *)
MutantNvFindId(p, works) == FALSE

NvFindId(p, works) == works /\ nvIdRow # 0

(* it is in the file *)
NvReadId(p) ==
  /\ NvCall(p) /\ nvId[p] = 0
  /\ NvFindId(p, TRUE)
  /\ nvId' = [nvId EXCEPT ![p] = nvIdRow]
  /\ NvTell(p, nvIdRow)
  /\ UNCHANGED <<nvFile, nvUsers, nvOpen, nvMaking, nvArms, nvSaves, nvTroubles, nvLast,
                 nvOdd>>

(* it is not, or it cannot be read: generatePseudoClientIdIfNeeded makes one *)
NvMakeId(p, id, works) ==
  /\ NvCall(p) /\ nvId[p] = 0
  /\ ~NvFindId(p, works)
  /\ NvStatement(works)
  /\ nvMaking' = [nvMaking EXCEPT ![p] = [id |-> id, saved |-> {}, at |-> "half"]]
  /\ nvOdd' = (nvOdd \/ ~works \/ \E q \in NvProcess \ {p} : nvMaking[q] # NvIdle)
  /\ UNCHANGED <<nvFile, nvUsers, nvOpen, nvId, nvArms, nvSaves, nvLast, nvTold, nvEver>>

(* and saves it, its lower half first *)
NvSaveHalf(p, works) ==
  /\ nvMaking[p].at = "half"
  /\ NvStatement(works)
  /\ nvMaking' = [nvMaking EXCEPT ![p] =
                     [id |-> @.id, saved |-> IF works THEN {"half"} ELSE {}, at |-> "whole"]]
  /\ UNCHANGED <<nvFile, nvUsers, nvOpen, nvId, nvArms, nvSaves, nvLast, nvIds>>

(* It is the id if either could be saved *)
NvSaveWhole(p, works) ==
  LET making == nvMaking[p] IN
  /\ making.at = "whole"
  /\ NvStatement(works)
  /\ nvIdRow' = IF works THEN making.id ELSE nvIdRow
  /\ nvMaking' = [nvMaking EXCEPT ![p] = NvIdle]
  /\ IF works \/ making.saved # {}
     THEN nvId' = [nvId EXCEPT ![p] = making.id] /\ NvTell(p, making.id)
     ELSE UNCHANGED <<nvId, nvTold, nvEver>>
  /\ nvOdd' = (nvOdd \/ ~works)
  /\ UNCHANGED <<nvParam, nvArmRow, nvUsers, nvOpen, nvArms, nvSaves, nvLast>>

-----------------------------------------------------------------------------
(* The lever arm *)

(* GnssAdapter::GnssAdapter *)
NvMakeAdapter(opens) ==
  /\ nvAdapter = "away"
  /\ nvUsers[NvHal] < MaxNvUsers /\ nvMaking[NvHal] = NvIdle
  /\ nvOpen[NvHal] => opens
  /\ NvStatement(opens)
  /\ NvGotInstance(NvHal, opens)
  /\ nvAdapter' = "made" /\ nvHas' = opens
  /\ UNCHANGED <<nvFile, nvHub, nvSpe, nvArm, nvUnsaved, nvRefused, nvSaves, nvLast, nvIds>>

(* MsgReadNvmData: only the engine hub is given what was restored, if      *)
(* there is a lever arm.  That it refuses it is only logged                *)
NvRestoreConfig(works, takes) ==
  LET arm == IF nvHas /\ works THEN nvArmRow ELSE 0 IN
  /\ nvAdapter = "made" /\ nvMaking[NvHal] = NvIdle
  /\ nvAdapter' = "restored"
  /\ IF nvHas THEN NvStatement(works) ELSE works /\ UNCHANGED nvTroubles
  /\ arm = 0 => takes
  /\ nvHub' = IF takes THEN arm ELSE nvHub
  /\ nvRefused' = ~takes
  /\ nvUnsaved' = (nvUnsaved \/ ~nvHas \/ ~works)
  /\ UNCHANGED <<nvFile, nvManagers, nvHas, nvSpe, nvArm, nvSaves, nvLast, nvIds>>

(* Mutant: the lever arm is not saved *)
MutantNvStoreVrp(arm, works) == UNCHANGED nvArmRow

(* storeVrpData2Nvm *)
NvStoreVrp(arm, works) == nvArmRow' = IF nvHas /\ works THEN arm ELSE nvArmRow

(* MsgConfigLeverArm, with a lever arm from the antenna to the reference   *)
(* point.  When the engine hub refuses it the command is told an error,    *)
(* but the adapter goes by the lever arm all the same, and saves it        *)
NvConfigLeverArm(works, takes) ==
  /\ nvAdapter = "restored" /\ nvMaking[NvHal] = NvIdle
  /\ nvSaves < MaxNvSaves /\ nvSaves' = nvSaves + 1
  /\ IF nvHas THEN NvStatement(works) ELSE works /\ UNCHANGED nvTroubles
  /\ nvArm' = nvSaves + 1
  /\ nvHub' = IF takes THEN nvArm' ELSE nvHub
  /\ nvRefused' = ~takes
  /\ nvSpe' = nvArm'
  /\ NvStoreVrp(nvSaves + 1, works)
  /\ nvUnsaved' = ~(nvHas /\ works)
  /\ UNCHANGED <<nvParam, nvIdRow, nvManagers, nvAdapter, nvHas, nvLast, nvIds>>

-----------------------------------------------------------------------------
(* A device that starts for the first time *)
NvInit ==
  /\ nvParam = NoNv /\ nvIdRow = 0 /\ nvArmRow = 0
  /\ nvUsers = [p \in NvProcess |-> 0] /\ nvOpen = [p \in NvProcess |-> FALSE]
  /\ nvId = [p \in NvProcess |-> 0] /\ nvMaking = [p \in NvProcess |-> NvIdle]
  /\ nvAdapter = "away" /\ nvHas = FALSE /\ nvHub = 0 /\ nvSpe = 0
  /\ nvSaves = 0 /\ nvTroubles = 0
  /\ nvLast = NoNv
  /\ nvTold = [p \in NvProcess |-> {}] /\ nvEver = {} /\ nvOdd = FALSE
  /\ nvArm = 0 /\ nvUnsaved = FALSE /\ nvRefused = FALSE

NvNext ==
  \/ \E p \in NvProcess, opens \in BOOLEAN : NvGetInstance(p, opens)
  \/ \E p \in NvProcess : NvReleaseInstance(p)
  \/ \E p \in NvProcess : NvRestart(p)
  \/ \E p \in NvProcess, length \in NvLength, works \in BOOLEAN : NvSave(p, length, works)
  \/ \E p \in NvProcess : NvTellId(p)
  \/ \E p \in NvProcess : NvReadId(p)
  \/ \E p \in NvProcess, id \in NvRandom, works \in BOOLEAN : NvMakeId(p, id, works)
  \/ \E p \in NvProcess, works \in BOOLEAN : NvSaveHalf(p, works)
  \/ \E p \in NvProcess, works \in BOOLEAN : NvSaveWhole(p, works)
  \/ \E opens \in BOOLEAN : NvMakeAdapter(opens)
  \/ \E works, takes \in BOOLEAN : NvRestoreConfig(works, takes)
  \/ \E works, takes \in BOOLEAN : NvConfigLeverArm(works, takes)

NvSpec == NvInit /\ [][NvNext]_nvVars

-----------------------------------------------------------------------------
(* Properties *)

(* The pseudo client id is generated once per device life time, whichever  *)
(* process asks for it and however often they restart, unless it could not *)
(* be read or saved, or two processes asked for it at once: even then no   *)
(* manager tells two of them (nvparam_mgr.cpp:806-970).                    *)
IdStaysTheSame ==
  /\ ~nvOdd => Cardinality(nvEver) <= 1
  /\ \A p \in NvProcess : Cardinality(nvTold[p]) <= 1

(* Whoever gets a parameter gets what was saved last, by any process, in   *)
(* the size that was saved, or an error and keeps what he had: unless what *)
(* was saved is shorter, which overwrites some of it                       *)
(* (nvparam_mgr.h:110, nvparam_mgr.cpp:456-800).                           *)
ParamsAreKept ==
  /\ NvGetText.ok => NvGetText.row = nvLast
  /\ \A type \in NvSized : LET got == NvGetSized(type) IN
       IF got.ok THEN got.row = nvLast /\ nvLast.length = NvSize[type]
       ELSE got.copied => nvLast.length < NvSize[type]

(* The engines go by the lever arm that was configured last, over restarts *)
(* of the process, unless it could not be saved or restored, or they       *)
(* refused it when it was given to them last: one that was refused is      *)
(* saved and given to them again, though its command was told an error.    *)
(* The positions of the modem are translated by the same lever arm, refused*)
(* or not, or by none after a restart (GnssAdapter.cpp:276-352, 7571-7624).*)
LeverArmIsKept ==
  nvAdapter = "restored" =>
    (nvUnsaved \/ nvRefused \/ nvHub = nvArm) /\ nvSpe \in {0, nvArm}

(* The file is open for as long as it has users (nvparam_mgr.cpp:1128-1164) *)
UsersHaveTheFile == \A p \in NvProcess : nvOpen[p] <=> nvUsers[p] > 0

StoreKeepsWhatWasSaved ==
  IdStaysTheSame /\ ParamsAreKept /\ LeverArmIsKept /\ UsersHaveTheFile

=============================================================================
