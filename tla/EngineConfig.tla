---------------------------- MODULE EngineConfig ----------------------------
(***************************************************************************)
(* What GnssAdapter configures in the modem (gnss/GnssAdapter.cpp): the    *)
(* lock that keeps the framework (MO) and others (NFW) from positions, the *)
(* constellations, and the satellites that are not to be used.             *)
(*                                                                         *)
(* Commands are handled one after the other on the message thread of the   *)
(* adapter.  What they have for the modem is done, in the order it was     *)
(* sent, on the thread of LocApiBase, and gnssUpdateConfig, which runs     *)
(* there, writes the adapter's fields from that thread.  When the modem    *)
(* comes up again it has forgotten the satellites and the constellations.  *)
(*                                                                         *)
(* The satellites are those of one constellation, which is enabled,        *)
(* disabled or not named: the masks of the code treat their constellations *)
(* alike and apart.  Of the items of a GnssConfig that are only handed to  *)
(* the modem there is one, the SUPL version, and of those that are only    *)
(* kept there is one, the SUPL mode.  Of an assistance server is told      *)
(* apart whether it is one for SUPL: the adapter takes no other.  Sessions *)
(* that are suspended while a command is handled are those of Tracking.    *)
(***************************************************************************)
EXTENDS Naturals, SequencesExt

CONSTANTS
  EcSv,         \* the satellites
  EcLists,      \* lists of satellites clients do not want
  EcGnssConfigs, \* GnssConfigs of clients
  EcConfigs,    \* the constellations clients ask for
  AgpsConfigInject, \* AGPS_CONFIG_INJECT of gps.conf, without the feature DSDA_CONFIGURATION
  MaxEcEvents,  \* bound: commands, restarts of the modem, changes of its TZ lock
  MaxEcQueue    \* bound: commands wait while there are more messages

EcLock == {"MO", "NFW"}
EcItem == {"lock", "version", "server", "mode", "blacklist"}
EcSource == {"API", "XTRA"}

(* What makes the modem go by something else than what is kept:            *)
(*   "race"       the thread of LocApiBase wrote the list of satellites    *)
(*                after a later command had used it                        *)
(*   "uncombined" satellites were sent without those of a constellation    *)
(*                that is disabled                                         *)
(*   "enable"     all satellites of a constellation enabled again were     *)
(*                taken off the list of the modem                          *)
(*   "outdated"   the constellations of before a change were sent          *)
EcListTroubles == {"race", "uncombined", "enable"}
EcTroubles == EcListTroubles \cup {"outdated"}

(* GnssSvTypeConfig: of size 0 it is a reset *)
EcReset == [size |-> 0, types |-> {}]
EcTypeConfig == [size: {1}, types: {{}, {"enabled"}, {"disabled"}}] \cup {EcReset}

ASSUME EcInputAssumption ==
  /\ EcLists \subseteq SUBSET EcSv
  /\ EcGnssConfigs \subseteq
       [items: SUBSET EcItem, lock: SUBSET {"NFW"}, supl: BOOLEAN, svs: EcLists]
  /\ EcConfigs \subseteq EcTypeConfig
  /\ AgpsConfigInject \in BOOLEAN
ASSUME EcBoundsAssumption == {MaxEcEvents, MaxEcQueue} \subseteq Nat

VARIABLES
  ecQueue,      \* messages of the adapter's thread, oldest first
  ecPending,    \* mPendingMsgs
  ecKnown,      \* mIsEngineCapabilitiesKnown
  ecAfw,        \* mAfwControlId
  ecNfw,        \* mSupportNfwControl
  ecConf,       \* ContextBase::mGps_conf.GPS_LOCK
  ecTypes,      \* mGnssSvTypeConfigs
  ecSvs,        \* mGnssSvIdConfig
  ecList,       \* mBlacklistedSvIds
  ecApi,        \* messages of LocApiMsgTask, oldest first
  ecUnlocked,   \* mEngineLockState is not ENGINE_LOCK_STATE_DISABLED
  ecModem,      \* what the modem goes by
  ecWanted,     \* the list of satellites of the command handled last
  ecTrouble,    \* what troubles the modem goes by
  ecAsked,      \* the commands that are owed an answer
  ecTold,       \* how often each command was answered
  ecEvents      \* commands, and events of the modem, so far

ecLists == <<ecSvs, ecList, ecWanted, ecTrouble>>
ecLocks == <<ecAfw, ecNfw, ecConf>>
ecKept == <<ecLocks, ecTypes, ecLists>>
ecAnswers == <<ecAsked, ecTold>>
ecVars == <<ecQueue, ecPending, ecKnown, ecKept, ecApi, ecUnlocked, ecModem,
            ecAnswers, ecEvents>>

EcId == 1..MaxEcEvents

-----------------------------------------------------------------------------
(* Types *)

EcConfig ==
  [do: {"config"}, id: EcId, items: SUBSET EcItem, lock: SUBSET EcLock, supl: BOOLEAN,
   svs: EcLists]

(* An answer: the items of the command, those that the modem refused,      *)
(* those that the adapter found invalid, and for each place of the array   *)
(* of ids whether an error is told                                         *)
EcAnswer ==
  [items: SUBSET EcItem, refused: SUBSET EcItem, invalid: SUBSET EcItem, errors: Seq(BOOLEAN)]

EcMessage ==
  EcConfig
    \cup [do: {"types"}, id: EcId, from: EcSource, config: EcTypeConfig]
    \cup [do: {"svs"}, id: EcId, config: EcTypeConfig, svs: EcLists]
    \cup [do: {"enable", "disable"}, id: EcId]
    \cup [do: {"nfw"}, id: EcId, lock: SUBSET EcLock]
    \cup [do: {"up", "unlock"}]
    \cup [do: {"answer"}, id: EcId, answer: EcAnswer]

EcApiMessage ==
  [do: {"open"}]
    \cup [do: {"lock"}, lock: SUBSET EcLock]
    \cup [do: {"configure"}, id: EcId \cup {0}, items: SUBSET EcItem, need: SUBSET EcItem,
          invalid: SUBSET EcItem, lock: SUBSET EcLock, svs: SUBSET EcSv]
    \cup [do: {"blacklist"}, id: EcId \cup {0}, svs: SUBSET EcSv]
    \cup [do: {"constellation", "reset"}, enabled: BOOLEAN]

EcTypeOK ==
  /\ ecQueue \in Seq(EcMessage) /\ ecPending \in Seq(EcMessage)
  /\ ecApi \in Seq(EcApiMessage)
  /\ {ecKnown, ecNfw, ecUnlocked} \subseteq BOOLEAN
  /\ ecAfw \in EcId \cup {0}
  /\ ecConf \subseteq EcLock
  /\ ecTypes \in [EcSource -> EcTypeConfig]
  /\ ecSvs \subseteq EcSv /\ ecList \subseteq EcSv
  /\ ecModem \in [up: BOOLEAN, lock: SUBSET EcLock, svs: SUBSET EcSv, enabled: BOOLEAN]
  /\ ecWanted \subseteq EcSv /\ ecTrouble \subseteq EcTroubles
  /\ ecAsked \subseteq EcId /\ ecTold \in [EcId -> Nat]
  /\ ecEvents \in 0..MaxEcEvents

-----------------------------------------------------------------------------
(* What follows from what is kept *)

(* gnssCombineSvTypeConfigs: a constellation that one source enables and   *)
(* another one disables is disabled                                        *)
EcCombined(configs) ==
  LET all == UNION {configs[s].types : s \in EcSource}
  IN  [size |-> IF \E s \in EcSource : configs[s].size = 1 THEN 1 ELSE 0,
       types |-> IF "disabled" \in all THEN {"disabled"} ELSE all]

EcEnables(config) == "enabled" \in config.types

(* Mutant: a disabled constellation is left to the constellation control *)
MutantEcCombineBlacklist(svs, config) == svs

(* combineBlacklistSvs *)
EcCombineBlacklist(svs, config) == IF "disabled" \in config.types THEN EcSv ELSE svs

(* Mutant: what the framework controls is left out *)
MutantEcLockToSet == ecConf

(* The lock that setConfig finds: mGps_conf.GPS_LOCK is the state as long  *)
(* as others than the framework are controlled, and then what is locked    *)
(* while the framework has location disabled                               *)
EcLockToSet == IF ecNfw \/ ecAfw = 0 THEN ecConf ELSE {}

(* Mutant: a constellation that is no longer enabled is not reset *)
MutantEcTypesUpdate(cur, new) ==
  IF cur = new THEN <<>>
  ELSE IF new.size = 0 THEN <<[do |-> "blacklist", id |-> 0, svs |-> ecSvs]>>
  ELSE <<[do |-> "blacklist", id |-> 0, svs |-> EcCombineBlacklist(ecSvs, new)]>>
         \o (IF EcEnables(new) /\ ~EcEnables(cur)
             THEN <<[do |-> "constellation", enabled |-> TRUE]>> ELSE <<>>)

(* gnssSvTypeConfigUpdate: what the modem is sent for a change of the      *)
(* constellations *)
EcTypesUpdate(cur, new) ==
  LET reset == <<[do |-> "reset", enabled |-> FALSE]>>
      enabledAgain == "disabled" \in cur.types /\ EcEnables(new)
      svs == IF enabledAgain THEN {} ELSE EcCombineBlacklist(ecSvs, new)
  IN  IF cur = new THEN <<>>
      ELSE IF new.size = 0 THEN reset \o <<[do |-> "blacklist", id |-> 0, svs |-> ecSvs]>>
      ELSE (IF EcEnables(cur) /\ ~EcEnables(new) THEN reset ELSE <<>>)
             \o <<[do |-> "blacklist", id |-> 0, svs |-> svs]>>
             \o (IF EcEnables(new) /\ ~EcEnables(cur)
                 THEN <<[do |-> "constellation", enabled |-> TRUE]>> ELSE <<>>)

-----------------------------------------------------------------------------
(* Commands of clients, which are messages *)

EcCall(m) ==
  /\ Len(ecQueue) + Len(ecApi) < MaxEcQueue
  /\ ecEvents < MaxEcEvents /\ ecEvents' = ecEvents + 1
  /\ ecQueue' = Append(ecQueue, m)
  /\ ecAsked' = IF m.do \in {"config", "svs"} THEN ecAsked \cup {m.id} ELSE ecAsked
  /\ UNCHANGED <<ecPending, ecKnown, ecKept, ecApi, ecUnlocked, ecModem, ecTold>>

EcNextId == ecEvents + 1

(* The fields of a GnssConfig that its items do not name mean nothing *)
EcUpdateConfigCommand ==
  \E config \in EcGnssConfigs :
    EcCall([do |-> "config", id |-> EcNextId, items |-> config.items, lock |-> config.lock,
            supl |-> config.supl, svs |-> config.svs])

EcUpdateSvTypeConfigCommand ==
  \E source \in EcSource, config \in EcConfigs :
    /\ config = EcReset => source = "API"
    /\ EcCall([do |-> "types", id |-> EcNextId, from |-> source, config |-> config])

EcUpdateSvConfigCommand ==
  \E config \in EcConfigs, svs \in EcLists :
    EcCall([do |-> "svs", id |-> EcNextId, config |-> config, svs |-> svs])

EcEnableCommand == EcCall([do |-> "enable", id |-> EcNextId])
EcDisableCommand == ecAfw # 0 /\ EcCall([do |-> "disable", id |-> ecAfw])
EcNfwControlCommand ==
  \E lock \in SUBSET {"NFW"} :
    EcCall([do |-> "nfw", id |-> EcNextId, lock |-> lock])

-----------------------------------------------------------------------------
(* The message thread of the adapter *)

(* A command that needs the capabilities waits in mPendingMsgs *)
EcNeedsEngine == {"config", "types", "nfw"}

EcHandlePending ==
  /\ ecQueue # <<>> /\ ~ecKnown /\ Head(ecQueue).do \in EcNeedsEngine
  /\ ecPending' = Append(ecPending, Head(ecQueue))
  /\ ecQueue' = Tail(ecQueue)
  /\ UNCHANGED <<ecKnown, ecKept, ecApi, ecUnlocked, ecModem, ecAnswers, ecEvents>>

EcReceive(do) ==
  /\ ecQueue # <<>> /\ Head(ecQueue).do = do
  /\ do \in EcNeedsEngine => ecKnown
  /\ ecQueue' = Tail(ecQueue)
  /\ UNCHANGED <<ecKnown, ecPending, ecUnlocked, ecModem, ecAnswers, ecEvents>>

EcSend(messages) == ecApi' = ecApi \o messages

EcIsOnItsWay(do) == \E i \in DOMAIN ecApi : ecApi[i].do = do

(* gnssUpdateConfig has yet to write the list of satellites *)
EcListIsOnItsWay ==
  \E i \in DOMAIN ecApi : ecApi[i].do = "configure" /\ "blacklist" \in ecApi[i].items

(* The list that is sent now is the last word, unless another one is yet   *)
(* to be written                                                           *)
EcListTrouble(kind, bad) ==
  (ecTrouble \ EcListTroubles)
    \cup (IF bad THEN {kind} ELSE {})
    \cup (IF EcListIsOnItsWay THEN {"race"} ELSE {})

(* While the framework has location enabled, a lock is only kept, except   *)
(* for the first one, which ends the control of others.  A server that is  *)
(* not one for SUPL is left out of what the modem is to be told; that it   *)
(* is invalid is noted in errs, which the call that is sent holds and      *)
(* nobody reads                                                            *)
EcHandleConfig ==
  LET m == Head(ecQueue)
      locks == "lock" \in m.items
      lock == m.lock \cup {"MO"}
      kept == IF locks /\ ecAfw # 0 /\ ~ecNfw THEN {"lock"} ELSE {}
      invalid == IF m.supl THEN {} ELSE {"server"}
  IN  /\ EcReceive("config")
      /\ ecConf' = IF locks THEN lock ELSE ecConf
      /\ ecNfw' = (ecNfw /\ ~locks)
      /\ EcSend(<<[do |-> "configure", id |-> m.id, items |-> m.items,
                   need |-> m.items \ (kept \cup invalid), invalid |-> invalid,
                   lock |-> IF ~locks \/ (ecAfw # 0 /\ ecNfw) THEN {} ELSE lock,
                   svs |-> m.svs]>>)
      /\ IF "blacklist" \in m.items
         THEN ecWanted' = m.svs /\ ecTrouble' = ecTrouble \ EcListTroubles
         ELSE UNCHANGED <<ecWanted, ecTrouble>>
      /\ UNCHANGED <<ecAfw, ecTypes, ecSvs, ecList>>

EcHandleTypes ==
  LET m == Head(ecQueue)
      types == [ecTypes EXCEPT ![m.from] = m.config]
      cur == EcCombined(ecTypes)
      new == EcCombined(types)
      update == EcTypesUpdate(cur, new)
  IN  /\ EcReceive("types")
      /\ ecTypes' = types
      /\ EcSend(update)
      /\ ecTrouble' =
           IF update = <<>> THEN ecTrouble
           ELSE EcListTrouble("enable", /\ "disabled" \in cur.types
                                        /\ EcEnables(new) /\ ecSvs # {})
                  \cup (ecTrouble \cap {"race"})
      /\ UNCHANGED <<ecLocks, ecSvs, ecList, ecWanted>>

(* gnssUpdateSvConfig does not wait for the capabilities, sends the        *)
(* constellations there were, and the list as it is                        *)
EcHandleSvs ==
  LET m == Head(ecQueue)
      types == [ecTypes EXCEPT !["API"] = m.config]
      cur == EcCombined(ecTypes)
      new == EcCombined(types)
      removed == EcEnables(cur) /\ ~EcEnables(m.config)
      reset == <<[do |-> "reset", enabled |-> FALSE]>>
      control == <<[do |-> "constellation", enabled |-> EcEnables(cur)]>>
      left == m.config.size = 1 /\ EcEnables(cur)
  IN  /\ EcReceive("svs")
      /\ ecTypes' = types
      /\ ecSvs' = m.svs /\ ecList' = m.svs /\ ecWanted' = m.svs
      /\ EcSend((IF m.config.size = 0 THEN reset
                 ELSE (IF removed THEN reset ELSE <<>>) \o control)
                  \o <<[do |-> "blacklist", id |-> m.id, svs |-> m.svs]>>)
      /\ ecTrouble' =
           EcListTrouble("uncombined", m.svs # EcCombineBlacklist(m.svs, new))
             \cup (IF left # EcEnables(new) THEN {"outdated"} ELSE {})
      /\ UNCHANGED ecLocks

EcSetLock(lock) == EcSend(<<[do |-> "lock", lock |-> lock]>>)

EcHandleEnable ==
  /\ EcReceive("enable")
  /\ IF ecAfw > 0 THEN UNCHANGED <<ecLocks, ecApi>>
     ELSE /\ ecAfw' = Head(ecQueue).id
          /\ ecConf' = IF ecNfw THEN ecConf \cap {"NFW"} ELSE ecConf
          /\ EcSetLock(IF ecNfw THEN ecConf \cap {"NFW"} ELSE {})
          /\ UNCHANGED ecNfw
  /\ UNCHANGED <<ecTypes, ecLists>>

EcHandleDisable ==
  /\ EcReceive("disable")
  /\ IF ecAfw # Head(ecQueue).id THEN UNCHANGED <<ecLocks, ecApi>>
     ELSE /\ ecAfw' = 0
          /\ ecConf' = IF ecNfw THEN ecConf \cup {"MO"} ELSE ecConf
          /\ EcSetLock(ecConf')
          /\ UNCHANGED ecNfw
  /\ UNCHANGED <<ecTypes, ecLists>>

EcHandleNfwControl ==
  /\ EcReceive("nfw")
  /\ IF ~ecNfw THEN UNCHANGED <<ecConf, ecApi>>
     ELSE /\ ecConf' = (ecConf \cap {"MO"}) \cup Head(ecQueue).lock
          /\ EcSetLock(ecConf')
  /\ UNCHANGED <<ecAfw, ecNfw, ecTypes, ecLists>>

(* Mutant: the messages are sent again and stay in mPendingMsgs *)
MutantEcFlush == ecQueue' = Tail(ecQueue) \o ecPending /\ UNCHANGED ecPending

(* mPendingMsgs are sent again, after what is in the queue by now *)
EcFlush == ecQueue' = Tail(ecQueue) \o ecPending /\ ecPending' = <<>>

(* MsgHandleEngineUpEvent: all that is kept is sent to the modem *)
EcHandleEngineUp ==
  LET combined == EcCombined(ecTypes)
  IN  /\ ecQueue # <<>> /\ Head(ecQueue).do = "up"
      /\ ecKnown' = TRUE
      /\ EcSend(<<[do |-> "configure", id |-> 0, items |-> {"lock", "version", "server", "blacklist"},
                   need |-> {"lock", "version", "server", "blacklist"}, invalid |-> {},
                   lock |-> EcLockToSet, svs |-> ecList],
                  [do |-> "blacklist", id |-> 0, svs |-> EcCombineBlacklist(ecSvs, combined)]>>
                \o (IF combined.size = 0 THEN <<>>
                    ELSE <<[do |-> "constellation", enabled |-> EcEnables(combined)]>>))
      /\ IF ecUnlocked THEN EcFlush ELSE ecQueue' = Tail(ecQueue) /\ UNCHANGED ecPending
      /\ ecTrouble' =
           (ecTrouble \ {"uncombined", "enable"})
             \cup (IF EcListIsOnItsWay THEN {"race"} ELSE {})
      /\ UNCHANGED <<ecLocks, ecTypes, ecSvs, ecList, ecWanted, ecUnlocked, ecModem,
                     ecAnswers, ecEvents>>

(* handleEngineLockStatus *)
EcHandleUnlock ==
  /\ ecQueue # <<>> /\ Head(ecQueue).do = "unlock"
  /\ EcFlush
  /\ UNCHANGED <<ecKnown, ecKept, ecApi, ecUnlocked, ecModem, ecAnswers, ecEvents>>

(* The response of a command: reportResponse *)
EcHandleAnswer ==
  LET m == Head(ecQueue)
  IN  /\ ecQueue # <<>> /\ m.do = "answer"
      /\ ecQueue' = Tail(ecQueue)
      /\ ecTold' = [ecTold EXCEPT ![m.id] = @ + 1]
      /\ UNCHANGED <<ecPending, ecKnown, ecKept, ecApi, ecUnlocked, ecModem, ecAsked,
                     ecEvents>>

-----------------------------------------------------------------------------
(* The thread of LocApiBase, and the modem *)

(* The places of the items in the array of ids, which has an id for each   *)
(* flag, from the lowest to the highest, and in that of the errors         *)
EcFlagOrder == <<"lock", "version", "server", "mode", "blacklist">>
EcEngineOrder == <<"lock", "server", "version", "blacklist">>
EcPlace(order, items, item) ==
  Cardinality({i \in DOMAIN order : order[i] \in items /\ \A j \in 1..(i - 1) : order[j] # item})

(* The items that gnssUpdateConfig sees: without AGPS_CONFIG_INJECT it     *)
(* clears the flags of some, which then are not set and take no place      *)
EcPlaced(items) == IF AgpsConfigInject THEN items ELSE items \ {"version", "server"}

(* Mutant: what succeeds takes no place *)
MutantEcErrors(items, refused) ==
  [i \in 1..Cardinality(items) |-> i <= Cardinality(refused)]

(* gnssUpdateConfig: errsList, cut off at the number of ids *)
EcErrors(items, refused) ==
  [i \in 1..Cardinality(items) |->
    \E item \in refused : EcPlace(EcEngineOrder, EcPlaced(items), item) = i]

EcReply(m, items, refused, invalid) ==
  IF m.id = 0 THEN <<>>
  ELSE <<[do |-> "answer", id |-> m.id,
          answer |-> [items |-> items, refused |-> refused, invalid |-> invalid,
                      errors |-> EcErrors(items, refused)]]>>

(* A modem that is up may refuse what is not told apart here *)
EcRefusable == {"version", "server"}

EcApiConfigure ==
  LET m == Head(ecApi)
      listed == "blacklist" \in m.items
      set == m.need \cap EcPlaced(m.items)
  IN  /\ ecApi # <<>> /\ m.do = "configure"
      /\ ecApi' = Tail(ecApi)
      /\ ecSvs' = IF listed THEN m.svs ELSE ecSvs
      /\ ecList' = IF listed THEN m.svs ELSE ecList
      /\ \E refused \in IF ecModem.up THEN SUBSET (set \cap EcRefusable)
                       ELSE {set \ {"mode"}} :
           /\ m.id = 0 /\ ecModem.up => refused = {}
           /\ ecQueue' = ecQueue \o EcReply(m, m.items, refused, m.invalid)
      /\ ecModem' =
           IF ~ecModem.up THEN ecModem
           ELSE [ecModem EXCEPT
                  !.lock = IF "lock" \in m.need THEN m.lock ELSE @,
                  !.svs = IF listed THEN EcCombineBlacklist(m.svs, EcCombined(ecTypes)) ELSE @]
      /\ UNCHANGED <<ecPending, ecKnown, ecLocks, ecTypes, ecWanted, ecTrouble, ecUnlocked,
                     ecAnswers, ecEvents>>

(* The other calls.  A constellation stays enabled until there is a reset  *)
EcApiCall ==
  LET m == Head(ecApi)
      refused == IF ecModem.up THEN {} ELSE {"blacklist"}
  IN  /\ ecApi # <<>> /\ m.do \in {"lock", "blacklist", "constellation", "reset"}
      /\ ecApi' = Tail(ecApi)
      /\ ecModem' =
           IF ~ecModem.up THEN ecModem
           ELSE CASE m.do = "lock" -> [ecModem EXCEPT !.lock = m.lock]
                  [] m.do = "blacklist" -> [ecModem EXCEPT !.svs = m.svs]
                  [] m.do = "constellation" -> [ecModem EXCEPT !.enabled = @ \/ m.enabled]
                  [] OTHER -> [ecModem EXCEPT !.enabled = FALSE]
      /\ ecQueue' = IF m.do # "blacklist" THEN ecQueue
                    ELSE ecQueue \o EcReply(m, {"blacklist"}, refused, {})
      /\ UNCHANGED <<ecPending, ecKnown, ecKept, ecUnlocked, ecAnswers, ecEvents>>

(* LocOpenMsg and LocSsrMsg: the modem is there, with its defaults, and    *)
(* knows nothing of outdated constellations that are not on their way      *)
EcApiOpen ==
  /\ ecApi # <<>> /\ Head(ecApi).do = "open"
  /\ ecApi' = Tail(ecApi)
  /\ ecModem' = [ecModem EXCEPT !.up = TRUE, !.svs = {}, !.enabled = FALSE]
  /\ ecQueue' = Append(ecQueue, [do |-> "up"])
  /\ ecTrouble' = IF EcIsOnItsWay("constellation") THEN ecTrouble ELSE ecTrouble \ {"outdated"}
  /\ UNCHANGED <<ecPending, ecKnown, ecLocks, ecTypes, ecSvs, ecList, ecWanted, ecUnlocked,
                 ecAnswers, ecEvents>>

EcEvent ==
  /\ ecEvents < MaxEcEvents /\ ecEvents' = ecEvents + 1
  /\ UNCHANGED <<ecPending, ecKnown, ecKept, ecAnswers>>

EcModemDown ==
  /\ ecModem.up
  /\ EcEvent
  /\ ecModem' = [ecModem EXCEPT !.up = FALSE]
  /\ ecApi' = Append(ecApi, [do |-> "open"])
  /\ UNCHANGED <<ecQueue, ecUnlocked>>

EcLockStatus ==
  /\ EcEvent
  /\ ecUnlocked' = ~ecUnlocked
  /\ ecQueue' = IF ecUnlocked THEN ecQueue ELSE Append(ecQueue, [do |-> "unlock"])
  /\ UNCHANGED <<ecApi, ecModem>>

-----------------------------------------------------------------------------
(* The adapter has been made, and the LocApi is to be opened *)
EcInit ==
  /\ ecQueue = <<>> /\ ecPending = <<>> /\ ecKnown = FALSE
  /\ ecAfw = 0 /\ ecNfw = TRUE
  /\ ecConf = EcLock
  /\ ecTypes = [s \in EcSource |-> EcReset]
  /\ ecSvs = {} /\ ecList = {} /\ ecWanted = {} /\ ecTrouble = {}
  /\ ecApi = <<[do |-> "open"]>>
  /\ ecUnlocked = TRUE
  /\ ecModem = [up |-> FALSE, lock |-> {}, svs |-> {}, enabled |-> FALSE]
  /\ ecAsked = {} /\ ecTold = [id \in EcId |-> 0]
  /\ ecEvents = 0

EcNext ==
  \/ EcUpdateConfigCommand
  \/ EcUpdateSvTypeConfigCommand
  \/ EcUpdateSvConfigCommand
  \/ EcEnableCommand
  \/ EcDisableCommand
  \/ EcNfwControlCommand
  \/ EcHandlePending
  \/ EcHandleConfig
  \/ EcHandleTypes
  \/ EcHandleSvs
  \/ EcHandleEnable
  \/ EcHandleDisable
  \/ EcHandleNfwControl
  \/ EcHandleEngineUp
  \/ EcHandleUnlock
  \/ EcHandleAnswer
  \/ EcApiConfigure
  \/ EcApiCall
  \/ EcApiOpen
  \/ EcModemDown
  \/ EcLockStatus

-----------------------------------------------------------------------------
(* Properties *)

(* When nothing is under way the modem goes by what the adapter keeps, and *)
(* that is what the command handled last asked for.  The lock, which three *)
(* commands and restarts combine, always does.  The satellites do unless   *)
(* they were sent without those of a disabled constellation                *)
(* (GnssAdapter.cpp:7441), a constellation was enabled again (:2437), or   *)
(* the thread of LocApiBase wrote the list (:1545) after a later command   *)
(* or restart had used it; the constellations do unless those of before    *)
(* were sent (:7421).  A restart makes up for all but the race, and         *)
(* constellations that are on their way to the restarted modem.            *)
EngineIsConfigured ==
  LET combined == EcCombined(ecTypes)
  IN  ecQueue = <<>> /\ ecApi = <<>> =>
        /\ ecModem.lock = EcLockToSet
        /\ ecTrouble \cap EcListTroubles = {} =>
             /\ ecSvs = ecWanted /\ ecList = ecWanted
             /\ ecModem.svs = IF "disabled" \in combined.types THEN EcSv ELSE ecWanted
        /\ "outdated" \notin ecTrouble => ecModem.enabled = EcEnables(combined)

EcCarried(messages, id) ==
  Cardinality({i \in DOMAIN messages :
    messages[i].do \in {"config", "svs", "answer", "configure", "blacklist"}
      /\ messages[i].id = id})

(* A command is always in one place, on its way or told, through waiting   *)
(* for the engine, restarts and refusals (GnssAdapter.cpp:1719-1727,       *)
(* :7441).                                                                 *)
EachIsAnsweredOnce ==
  \A id \in ecAsked :
    EcCarried(ecQueue, id) + EcCarried(ecPending, id) + EcCarried(ecApi, id)
      + ecTold[id] = 1

(* What the modem refused is told (GnssAdapter.cpp:1388-1582): an answer   *)
(* has as many errors as the modem refused items, and they are told for    *)
(* the ids of these items, "order from low bits to high bits"              *)
(* (ILocationAPI.h:270-272), if the command has not both the SUPL version  *)
(* and the server, which gnssUpdateConfig takes the other way round, no    *)
(* item it does not know (the SUPL mode) before one that may fail, and     *)
(* none whose flag it clears (:1398-1406).  Not claimed is more: such an   *)
(* item is told SUCCESS, and so is one that the adapter itself found       *)
(* invalid (:1712-1717), against ILocationAPI.h:277.                       *)
ErrorsNameTheirItem ==
  \A i \in DOMAIN ecQueue : ecQueue[i].do = "answer" =>
    LET answer == ecQueue[i].answer
    IN  /\ Cardinality({k \in DOMAIN answer.errors : answer.errors[k]})
             = Cardinality(answer.refused)
        /\ ~({"version", "server"} \subseteq answer.items)
             /\ ~({"mode", "blacklist"} \subseteq answer.items)
             /\ EcPlaced(answer.items) = answer.items
           => \A item \in answer.items :
                answer.errors[EcPlace(EcFlagOrder, answer.items, item)] = (item \in answer.refused)

(* Commands are answered once and with what the modem refused of them      *)
(* (GnssAdapter.cpp:1777-1793, :7441, ContextBase.h:385-407).              *)
ConfigsAreAnswered == EachIsAnsweredOnce /\ ErrorsNameTheirItem

=============================================================================
