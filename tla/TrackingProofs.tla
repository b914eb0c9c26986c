--------------------------- MODULE TrackingProofs ---------------------------
(***************************************************************************)
(* Proofs about what is brought back to a modem that restarted: the        *)
(* configuration (EngineConfig), the settings (EngineCommands) and the     *)
(* sessions (Tracking), as parts of MCTracking.                            *)
(*                                                                         *)
(* That the modem goes by what is kept when nothing is under way says      *)
(* nothing of the states between.  What holds there is about the last word *)
(* on each matter among the messages to the modem: that it is what is      *)
(* kept, or that there is none and the modem already goes by that.  While  *)
(* the modem is about to be told everything again, nothing need hold.      *)
(*                                                                         *)
(* That each request for a session is answered once says nothing of where  *)
(* an answer is that has not come.  The invariant counts: the calls to the *)
(* modem, the replies, the messages and the requests that wait for the     *)
(* modem or for the system to awake, which owe an answer for a session,    *)
(* are with the answers given never more than the requests, and as many    *)
(* as they while the modem neither refused nor restarted.                  *)
(*                                                                         *)
(* A command that configures or sets something is under way in exactly one *)
(* place until it is answered: a message, a part of it that was sent to the*)
(* modem, or what the thread does for it.  The errors in each place are    *)
(* those of what the modem refused so far, so that the one answer can tell *)
(* the truth of all of it.                                                 *)
(***************************************************************************)
EXTENDS MCTracking, DataInduction

-----------------------------------------------------------------------------
(* The messages of EngineConfig                                            *)

LEMMA EcMessageKinds ==
  ASSUME NEW m \in EcMessage
  PROVE  /\ m.do \in {"config", "types", "svs", "enable", "disable", "nfw", "up", "unlock",
                      "answer"}
         /\ m.do = "config" => /\ m.id \in EcId /\ m.items \in SUBSET EcItem
                               /\ m.lock \in SUBSET EcLock /\ m.supl \in BOOLEAN
                               /\ m.svs \in EcLists
         /\ m.do = "types" => m.id \in EcId /\ m.from \in EcSource /\ m.config \in EcTypeConfig
         /\ m.do = "svs" => m.id \in EcId /\ m.config \in EcTypeConfig /\ m.svs \in EcLists
         /\ m.do = "enable" \/ m.do = "disable" => m.id \in EcId
         /\ m.do = "nfw" => m.id \in EcId /\ m.lock \in SUBSET EcLock
         /\ m.do = "answer" => m.id \in EcId /\ m.answer \in EcAnswer
<1>1. \/ m \in EcConfig
      \/ m \in [do: {"types"}, id: EcId, from: EcSource, config: EcTypeConfig]
      \/ m \in [do: {"svs"}, id: EcId, config: EcTypeConfig, svs: EcLists]
      \/ m \in [do: {"enable", "disable"}, id: EcId]
      \/ m \in [do: {"nfw"}, id: EcId, lock: SUBSET EcLock]
      \/ m \in [do: {"up", "unlock"}]
      \/ m \in [do: {"answer"}, id: EcId, answer: EcAnswer]
  BY DEF EcMessage
<1>2. CASE m \in EcConfig
  BY <1>2 DEF EcConfig
<1>3. CASE m \in [do: {"types"}, id: EcId, from: EcSource, config: EcTypeConfig]
  BY <1>3
<1>4. CASE m \in [do: {"svs"}, id: EcId, config: EcTypeConfig, svs: EcLists]
  BY <1>4
<1>5. CASE m \in [do: {"enable", "disable"}, id: EcId]
  BY <1>5
<1>6. CASE m \in [do: {"nfw"}, id: EcId, lock: SUBSET EcLock]
  BY <1>6
<1>7. CASE m \in [do: {"up", "unlock"}]
  BY <1>7
<1>8. CASE m \in [do: {"answer"}, id: EcId, answer: EcAnswer]
  BY <1>8
<1> QED BY <1>1, <1>2, <1>3, <1>4, <1>5, <1>6, <1>7, <1>8

LEMMA EcApiMessageKinds ==
  ASSUME NEW m \in EcApiMessage
  PROVE  /\ m.do \in {"open", "lock", "configure", "blacklist", "constellation", "reset"}
         /\ m.do = "lock" => m.lock \in SUBSET EcLock
         /\ m.do = "configure" => /\ m.id \in EcId \cup {0} /\ m.items \in SUBSET EcItem
                                  /\ m.need \in SUBSET EcItem /\ m.invalid \in SUBSET EcItem
                                  /\ m.lock \in SUBSET EcLock /\ m.svs \in SUBSET EcSv
         /\ m.do = "blacklist" => m.id \in EcId \cup {0} /\ m.svs \in SUBSET EcSv
         /\ m.do = "constellation" \/ m.do = "reset" => m.enabled \in BOOLEAN
<1>2. CASE m \in [do: {"open"}]
  BY <1>2
<1>3. CASE m \in [do: {"lock"}, lock: SUBSET EcLock]
  BY <1>3
<1>4. CASE m \in [do: {"configure"}, id: EcId \cup {0}, items: SUBSET EcItem,
                  need: SUBSET EcItem, invalid: SUBSET EcItem, lock: SUBSET EcLock, svs: SUBSET EcSv]
  BY <1>4
<1>5. CASE m \in [do: {"blacklist"}, id: EcId \cup {0}, svs: SUBSET EcSv]
  BY <1>5
<1>6. CASE m \in [do: {"constellation", "reset"}, enabled: BOOLEAN]
  BY <1>6
<1> QED BY <1>2, <1>3, <1>4, <1>5, <1>6 DEF EcApiMessage

(* On which matter a message to the modem has a word *)
EcLocking ==
  {m \in EcApiMessage : m.do = "lock" \/ (m.do = "configure" /\ "lock" \in m.need)}
EcSwitching ==
  {m \in EcApiMessage :
     m.do = "reset" \/ m.do = "open" \/ (m.do = "constellation" /\ m.enabled)}
EcListing == {m \in EcApiMessage : m.do = "configure" /\ "blacklist" \in m.items}
EcExcluding == {m \in EcApiMessage : m.do = "blacklist"} \cup EcListing

LEMMA EcOpenMessage ==
  ASSUME NEW m, m = [do |-> "open"]
  PROVE  /\ m \in EcApiMessage /\ m.do = "open"
         /\ m \notin EcLocking /\ m \in EcSwitching /\ m \notin EcListing /\ m \notin EcExcluding
  BY DEF EcApiMessage, EcLocking, EcSwitching, EcListing, EcExcluding

LEMMA EcLockMessage ==
  ASSUME NEW lock \in SUBSET EcLock, NEW m, m = [do |-> "lock", lock |-> lock]
  PROVE  /\ m \in EcApiMessage /\ m.do = "lock" /\ m.lock = lock
         /\ m \in EcLocking /\ m \notin EcSwitching /\ m \notin EcListing /\ m \notin EcExcluding
  BY DEF EcApiMessage, EcLocking, EcSwitching, EcListing, EcExcluding

LEMMA EcConfigureMessage ==
  ASSUME NEW id \in EcId \cup {0}, NEW items \in SUBSET EcItem, NEW need \in SUBSET EcItem,
         NEW invalid \in SUBSET EcItem, NEW lock \in SUBSET EcLock, NEW svs \in SUBSET EcSv,
         NEW m, m = [do |-> "configure", id |-> id, items |-> items, need |-> need,
                     invalid |-> invalid, lock |-> lock, svs |-> svs]
  PROVE  /\ m \in EcApiMessage /\ m.do = "configure" /\ m.id = id /\ m.items = items
         /\ m.need = need /\ m.invalid = invalid /\ m.lock = lock /\ m.svs = svs
         /\ m \in EcLocking <=> "lock" \in need
         /\ m \notin EcSwitching
         /\ m \in EcListing <=> "blacklist" \in items
         /\ m \in EcExcluding <=> "blacklist" \in items
  BY DEF EcApiMessage, EcLocking, EcSwitching, EcListing, EcExcluding

LEMMA EcBlacklistMessage ==
  ASSUME NEW id \in EcId \cup {0}, NEW svs \in SUBSET EcSv,
         NEW m, m = [do |-> "blacklist", id |-> id, svs |-> svs]
  PROVE  /\ m \in EcApiMessage /\ m.do = "blacklist" /\ m.id = id /\ m.svs = svs
         /\ m \notin EcLocking /\ m \notin EcSwitching /\ m \notin EcListing /\ m \in EcExcluding
  BY DEF EcApiMessage, EcLocking, EcSwitching, EcListing, EcExcluding

LEMMA EcSwitchMessage ==
  ASSUME NEW do \in {"constellation", "reset"}, NEW enabled \in BOOLEAN,
         NEW m, m = [do |-> do, enabled |-> enabled]
  PROVE  /\ m \in EcApiMessage /\ m.do = do /\ m.enabled = enabled
         /\ m \notin EcLocking /\ m \notin EcListing /\ m \notin EcExcluding
         /\ m \in EcSwitching <=> do = "reset" \/ enabled
  BY DEF EcApiMessage, EcLocking, EcSwitching, EcListing, EcExcluding

-----------------------------------------------------------------------------
(* What holds between messages                                             *)

(* The modem is about to be told everything *)
EcOpening == \E m \in ToSet(ecApi) : m.do = "open"
EcUpComes == \E m \in ToSet(ecQueue) : m.do = "up"
EcComes == EcOpening \/ EcUpComes

EcOpens == {m \in EcApiMessage : m.do = "open"}
EcIsUp == HowMany(ecApi, EcOpens) = IF ecModem.up THEN 0 ELSE 1

EcLockIs(lock) == {m \in EcLocking : m.lock = lock}
EcLockKept ==
  ~EcComes => Ends(ecApi, EcLocking, EcLockIs(EcLockToSet), ecModem.lock = EcLockToSet)

EcOn == EcEnables(EcCombined(ecTypes))
EcSwitchIs(on) == {m \in EcSwitching : (m.do = "constellation") <=> on}
EcSwitchKept ==
  "outdated" \notin ecTrouble /\ (EcOn => ~EcComes) =>
    Ends(ecApi, EcSwitching, EcSwitchIs(EcOn), ecModem.enabled <=> EcOn)

EcListIs(svs) == {m \in EcListing : m.svs = svs}
EcListKept ==
  "race" \notin ecTrouble =>
    Ends(ecApi, EcListing, EcListIs(ecWanted), ecSvs = ecWanted /\ ecList = ecWanted)

EcExcluded == EcCombineBlacklist(ecWanted, EcCombined(ecTypes))
EcExcludedIs(svs, excluded) ==
  {m \in EcExcluding : m.svs = IF m.do = "blacklist" THEN excluded ELSE svs}
EcExcludedKept ==
  ecTrouble \cap EcListTroubles = {} /\ ~EcComes =>
    Ends(ecApi, EcExcluding, EcExcludedIs(ecWanted, EcExcluded), ecModem.svs = EcExcluded)

EcKeptInv == EcIsUp /\ EcLockKept /\ EcSwitchKept /\ EcListKept /\ EcExcludedKept
(* What waits for the engine is a command *)
EcPendingOK == \A m \in ToSet(ecPending) : m.do # "up"
EcInv == EcTypeOK /\ EcPendingOK /\ EcKeptInv

-----------------------------------------------------------------------------
(* Types                                                                   *)

LEMMA EcTypeConfigKinds ==
  ASSUME NEW c \in EcTypeConfig
  PROVE  /\ c.size = 0 \/ c.size = 1
         /\ c.types = {} \/ c.types = {"enabled"} \/ c.types = {"disabled"}
         /\ c.size = 0 => c.types = {}
  BY DEF EcTypeConfig, EcReset

LEMMA EcCombinedType ==
  ASSUME NEW types \in [EcSource -> EcTypeConfig]
  PROVE  EcCombined(types) \in EcTypeConfig
<1> DEFINE a == types["API"]
           x == types["XTRA"]
           all == UNION {types[s].types : s \in EcSource}
<1>1. a \in EcTypeConfig /\ x \in EcTypeConfig
  BY DEF EcSource
<1>2. all = a.types \cup x.types
  BY DEF EcSource
<1>3. (\E s \in EcSource : types[s].size = 1) <=> a.size = 1 \/ x.size = 1
  BY DEF EcSource
<1> HIDE DEF a, x, all
<1>4. PICK n, t : /\ n = (IF a.size = 1 \/ x.size = 1 THEN 1 ELSE 0)
                  /\ t = (IF "disabled" \in all THEN {"disabled"} ELSE all)
  OBVIOUS
<1>5. EcCombined(types) = [size |-> n, types |-> t]
  BY <1>3, <1>4 DEF EcCombined, all
<1>6. /\ a.size = 0 \/ a.size = 1
      /\ a.types = {} \/ a.types = {"enabled"} \/ a.types = {"disabled"}
      /\ a.size = 0 => a.types = {}
      /\ x.size = 0 \/ x.size = 1
      /\ x.types = {} \/ x.types = {"enabled"} \/ x.types = {"disabled"}
      /\ x.size = 0 => x.types = {}
  BY <1>1, EcTypeConfigKinds
<1>9. PICK c : c = [size |-> n, types |-> t]
  OBVIOUS
<1>10. CASE n = 1
  BY <1>2, <1>4, <1>5, <1>6, <1>9, <1>10 DEF EcTypeConfig
<1>11. CASE n = 0 /\ t = {}
  BY <1>5, <1>9, <1>11 DEF EcReset, EcTypeConfig
<1> QED BY <1>2, <1>4, <1>6, <1>10, <1>11

LEMMA EcTypesParts ==
  ASSUME EcTypeOK
  PROVE  /\ ecQueue \in Seq(EcMessage) /\ ecPending \in Seq(EcMessage)
         /\ ecApi \in Seq(EcApiMessage)
         /\ ecKnown \in BOOLEAN /\ ecNfw \in BOOLEAN /\ ecUnlocked \in BOOLEAN
         /\ ecAfw \in EcId \cup {0} /\ ecConf \in SUBSET EcLock
         /\ ecTypes \in [EcSource -> EcTypeConfig]
         /\ ecSvs \in SUBSET EcSv /\ ecList \in SUBSET EcSv
         /\ ecModem.up \in BOOLEAN /\ ecModem.lock \in SUBSET EcLock
         /\ ecModem.svs \in SUBSET EcSv /\ ecModem.enabled \in BOOLEAN
         /\ ecModem = [up |-> ecModem.up, lock |-> ecModem.lock, svs |-> ecModem.svs,
                       enabled |-> ecModem.enabled]
         /\ ecWanted \in SUBSET EcSv /\ ecTrouble \in SUBSET EcTroubles
         /\ ecAsked \in SUBSET EcId /\ ecTold \in [EcId -> Nat]
         /\ ecEvents \in 0..MaxEcEvents
  BY DEF EcTypeOK

(* A handler, the messages it sends and what it takes from the queue *)
LEMMA EcReceives ==
  ASSUME EcTypeOK, NEW do, EcReceive(do)
  PROVE  /\ Head(ecQueue) \in EcMessage /\ Head(ecQueue).do = do
         /\ ecQueue' = Tail(ecQueue) /\ ecQueue' \in Seq(EcMessage)
         /\ ToSet(ecQueue) = {Head(ecQueue)} \cup ToSet(ecQueue')
         /\ do \in EcNeedsEngine => ecKnown
         /\ ecKnown' = ecKnown /\ ecPending' = ecPending /\ ecUnlocked' = ecUnlocked
         /\ ecModem' = ecModem /\ ecAsked' = ecAsked /\ ecTold' = ecTold /\ ecEvents' = ecEvents
  BY EcTypesParts, HeadAndTail DEF EcReceive, ecAnswers

LEMMA EcFlushes ==
  ASSUME EcTypeOK, ecQueue # <<>>, EcFlush
  PROVE  /\ ecQueue' \in Seq(EcMessage) /\ ecPending' = <<>>
         /\ ToSet(ecQueue') = ToSet(Tail(ecQueue)) \cup ToSet(ecPending)
<1> DEFINE t == Tail(ecQueue)
<1>3. t \in Seq(EcMessage) /\ ecPending \in Seq(EcMessage)
  BY HeadAndTail, EcTypesParts
<1> HIDE DEF t
<1>4. t \o ecPending \in Seq(EcMessage) /\ ToSet(t \o ecPending) = ToSet(t) \cup ToSet(ecPending)
  BY <1>3, ElementsOfBoth, ConcatProperties
<1> QED BY <1>4 DEF EcFlush, t

(* A command is one more message *)
LEMMA EcCalls ==
  ASSUME EcTypeOK, NEW m \in EcMessage, m.do # "up", EcCall(m)
  PROVE  EcTypeOK' /\ UNCHANGED <<ecApi, ecModem, ecKept, ecPending>> /\ EcUpComes' = EcUpComes
<1>1. /\ ecQueue' = Append(ecQueue, m) /\ ecEvents < MaxEcEvents /\ ecEvents' = ecEvents + 1
      /\ ecAsked' = (IF m.do \in {"config", "svs"} THEN ecAsked \cup {m.id} ELSE ecAsked)
      /\ UNCHANGED <<ecPending, ecKnown, ecKept, ecApi, ecUnlocked, ecModem, ecTold>>
  BY DEF EcCall
<1> QED BY <1>1, ElementsWith, EcBoundsAssumption, EcMessageKinds, EcTypesParts DEF EcUpComes,
  EcTypeOK, ecKept, ecLocks, ecLists

LEMMA EcCommandMessages ==
  ASSUME NEW id \in EcId
  PROVE  /\ \A items \in SUBSET EcItem, lock \in SUBSET EcLock, supl \in BOOLEAN, svs \in EcLists :
              [do |-> "config", id |-> id, items |-> items, lock |-> lock, supl |-> supl,
               svs |-> svs] \in EcMessage
         /\ \A source \in EcSource, config \in EcTypeConfig :
              [do |-> "types", id |-> id, from |-> source, config |-> config] \in EcMessage
         /\ \A config \in EcTypeConfig, svs \in EcLists :
              [do |-> "svs", id |-> id, config |-> config, svs |-> svs] \in EcMessage
         /\ [do |-> "enable", id |-> id] \in EcMessage /\ [do |-> "disable", id |-> id] \in EcMessage
         /\ \A lock \in SUBSET EcLock :
              [do |-> "nfw", id |-> id, lock |-> lock] \in EcMessage
<1>1. ASSUME NEW items \in SUBSET EcItem, NEW lock \in SUBSET EcLock, NEW supl \in BOOLEAN,
             NEW svs \in EcLists
      PROVE  [do |-> "config", id |-> id, items |-> items, lock |-> lock, supl |-> supl,
              svs |-> svs] \in EcMessage
  BY DEF EcMessage, EcConfig
<1>2. ASSUME NEW source \in EcSource, NEW config \in EcTypeConfig
      PROVE  [do |-> "types", id |-> id, from |-> source, config |-> config] \in EcMessage
  BY DEF EcMessage
<1>3. ASSUME NEW config \in EcTypeConfig, NEW svs \in EcLists
      PROVE  [do |-> "svs", id |-> id, config |-> config, svs |-> svs] \in EcMessage
  BY DEF EcMessage
<1>5. ASSUME NEW lock \in SUBSET EcLock
      PROVE  [do |-> "nfw", id |-> id, lock |-> lock] \in EcMessage
  BY DEF EcMessage
<1> QED BY <1>1, <1>2, <1>3, <1>5 DEF EcMessage

EcCommands ==
  \/ EcUpdateConfigCommand
  \/ EcUpdateSvTypeConfigCommand
  \/ EcUpdateSvConfigCommand
  \/ EcEnableCommand
  \/ EcDisableCommand
  \/ EcNfwControlCommand

EcAsks(m) ==
  /\ m.do \notin {"up", "answer"} /\ (m.do \in {"config", "svs"} => m.id = EcNextId)
  /\ EcCall(m)

LEMMA EcCommandIs ==
  ASSUME EcTypeOK, EcCommands
  PROVE  /\ \E m \in EcMessage : EcAsks(m)
         /\ EcNextId \in EcId
<1>1. ASSUME NEW m, EcCall(m) PROVE EcNextId \in EcId
  BY <1>1, EcBoundsAssumption DEF EcCall, EcTypeOK, EcNextId, EcId
<1>2. CASE EcUpdateConfigCommand
  <2>0. PICK config \in EcGnssConfigs :
          EcCall([do |-> "config", id |-> EcNextId, items |-> config.items,
                  lock |-> config.lock, supl |-> config.supl, svs |-> config.svs])
    BY <1>2 DEF EcUpdateConfigCommand
  <2>1. PICK items \in SUBSET EcItem, lock \in SUBSET {"NFW"}, supl \in BOOLEAN, svs \in EcLists :
          EcCall([do |-> "config", id |-> EcNextId, items |-> items, lock |-> lock,
                  supl |-> supl, svs |-> svs])
    BY <2>0, EcInputAssumption
  <2>2. PICK m : m = [do |-> "config", id |-> EcNextId, items |-> items, lock |-> lock,
                      supl |-> supl, svs |-> svs]
    OBVIOUS
  <2> QED BY <1>1, <2>1, <2>2, EcCommandMessages DEF EcAsks, EcLock
<1>3. CASE EcUpdateSvTypeConfigCommand
  <2>1. PICK source \in EcSource, config \in EcConfigs :
          EcCall([do |-> "types", id |-> EcNextId, from |-> source, config |-> config])
    BY <1>3 DEF EcUpdateSvTypeConfigCommand
  <2>2. PICK m : m = [do |-> "types", id |-> EcNextId, from |-> source, config |-> config]
    OBVIOUS
  <2> QED BY <1>1, <2>1, <2>2, EcCommandMessages, EcInputAssumption DEF EcAsks
<1>4. CASE EcUpdateSvConfigCommand
  <2>1. PICK config \in EcConfigs, svs \in EcLists :
          EcCall([do |-> "svs", id |-> EcNextId, config |-> config, svs |-> svs])
    BY <1>4 DEF EcUpdateSvConfigCommand
  <2>2. PICK m : m = [do |-> "svs", id |-> EcNextId, config |-> config, svs |-> svs]
    OBVIOUS
  <2> QED BY <1>1, <2>1, <2>2, EcCommandMessages, EcInputAssumption DEF EcAsks
<1>5. CASE EcEnableCommand
  <2>1. PICK m : m = [do |-> "enable", id |-> EcNextId]
    OBVIOUS
  <2> QED BY <1>1, <1>5, <2>1, EcCommandMessages DEF EcAsks, EcEnableCommand
<1>6. CASE EcDisableCommand
  <2>1. PICK m : m = [do |-> "disable", id |-> ecAfw]
    OBVIOUS
  <2> QED BY <1>1, <1>6, <2>1, EcCommandMessages DEF EcAsks, EcDisableCommand, EcTypeOK
<1>7. CASE EcNfwControlCommand
  <2>1. PICK lock \in SUBSET {"NFW"} : EcCall([do |-> "nfw", id |-> EcNextId, lock |-> lock])
    BY <1>7 DEF EcNfwControlCommand
  <2>2. PICK m : m = [do |-> "nfw", id |-> EcNextId, lock |-> lock]
    OBVIOUS
  <2> QED BY <1>1, <2>1, <2>2, EcCommandMessages DEF EcAsks, EcLock
<1> QED BY <1>2, <1>3, <1>4, <1>5, <1>6, <1>7 DEF EcCommands

LEMMA EcCommandsDo ==
  ASSUME EcTypeOK, EcCommands
  PROVE  EcTypeOK' /\ UNCHANGED <<ecApi, ecModem, ecKept, ecPending>> /\ EcUpComes' = EcUpComes
<1>1. PICK m \in EcMessage : EcAsks(m)
  BY EcCommandIs
<1> QED BY <1>1, EcCalls DEF EcAsks

-----------------------------------------------------------------------------
(* The handlers of the adapter's thread send messages and change what is   *)
(* kept                                                                    *)

LEMMA EcUpMeans ==
  ASSUME EcTypeOK, EcIsUp
  PROVE  ecModem.up <=> ~EcOpening
  BY EcTypesParts, CountZero, SilentElements, ElementsOf DEF EcIsUp, EcOpening, EcOpens

LEMMA EcAfter ==
  ASSUME EcTypeOK, EcKeptInv, NEW ms \in Seq(EcApiMessage),
         ecApi' = ecApi \o ms, ecModem' = ecModem,
         \A x \in ToSet(ms) : x.do # "open",
         ~EcUpComes' =>
           Ends(ms, EcLocking, EcLockIs(EcLockToSet'), EcLockToSet' = EcLockToSet /\ ~EcUpComes),
         "outdated" \notin ecTrouble' /\ (EcOn' => ~EcUpComes') =>
           Ends(ms, EcSwitching, EcSwitchIs(EcOn'),
                /\ EcOn' <=> EcOn
                /\ "outdated" \notin ecTrouble /\ (EcOn => ~EcUpComes)),
         "race" \notin ecTrouble' =>
           Ends(ms, EcListing, EcListIs(ecWanted'),
                Ends(ecApi, EcListing, EcListIs(ecWanted'),
                     ecSvs' = ecWanted' /\ ecList' = ecWanted')),
         ecTrouble' \cap EcListTroubles = {} /\ ~EcUpComes' =>
           Ends(ms, EcExcluding, EcExcludedIs(ecWanted', EcExcluded'),
                /\ ecWanted' = ecWanted /\ EcExcluded' = EcExcluded
                /\ ecTrouble \cap EcListTroubles = {} /\ ~EcUpComes)
  PROVE  EcKeptInv'
<1>1. ecApi \in Seq(EcApiMessage)
  BY EcTypesParts
<1>3. EcOpening' <=> EcOpening
  BY <1>1, ElementsOfBoth DEF EcOpening
<1>4. EcIsUp'
  <2>2. HowMany(ms, EcOpens) = 0
    BY CountZero, SilentElements DEF EcOpens
  <2>4. HowMany(ecApi', EcOpens) = HowMany(ecApi, EcOpens)
    BY <1>1, <2>2, CountBoth
  <2> QED BY <2>4 DEF EcIsUp, EcKeptInv, EcOpens
<1>5. EcLockKept'
  <2> SUFFICES ASSUME ~EcComes'
               PROVE  Ends(ecApi', EcLocking, EcLockIs(EcLockToSet'), ecModem'.lock = EcLockToSet')
    BY DEF EcLockKept, EcLockIs, EcLocking
  <2> DEFINE then == Ends(ecApi, EcLocking, EcLockIs(EcLockToSet'), ecModem.lock = EcLockToSet')
  <2>1. EcLockToSet' = EcLockToSet /\ ~EcUpComes => then
    BY <1>3 DEF EcKeptInv, EcLockKept, EcComes
  <2>3. Ends(ms, EcLocking, EcLockIs(EcLockToSet'), then)
    <3> HIDE DEF then
    <3> QED BY <2>1, EndsWeaker DEF EcComes
  <2>4. PICK G : G = EcLockIs(EcLockToSet')
    OBVIOUS
  <2>5. PICK rest : rest = (ecModem.lock = EcLockToSet')
    OBVIOUS
  <2> QED BY <1>1, <2>3, <2>4, <2>5, EndsBoth
<1>6. EcSwitchKept'
  <2> SUFFICES ASSUME "outdated" \notin ecTrouble', EcOn' => ~EcComes'
               PROVE  Ends(ecApi', EcSwitching, EcSwitchIs(EcOn'), ecModem'.enabled <=> EcOn')
    BY DEF EcSwitchKept, EcSwitchIs, EcSwitching
  <2> DEFINE then == Ends(ecApi, EcSwitching, EcSwitchIs(EcOn'), ecModem.enabled <=> EcOn')
             rest == /\ EcOn' <=> EcOn
                     /\ "outdated" \notin ecTrouble /\ (EcOn => ~EcUpComes)
  <2>1. rest => then
    <3> SUFFICES ASSUME rest PROVE then
      OBVIOUS
    <3> QED BY <1>3 DEF EcSwitchIs, EcKeptInv, EcSwitchKept, EcComes
  <2>2. Ends(ms, EcSwitching, EcSwitchIs(EcOn'), rest)
    BY DEF EcComes
  <2>3. Ends(ms, EcSwitching, EcSwitchIs(EcOn'), then)
    <3> HIDE DEF then, rest
    <3> QED BY <2>1, <2>2, EndsWeaker
  <2>4. PICK G : G = EcSwitchIs(EcOn')
    OBVIOUS
  <2>5. PICK is : is = (ecModem.enabled <=> EcOn')
    OBVIOUS
  <2> QED BY <1>1, <2>3, <2>4, <2>5, EndsBoth
<1>7. EcListKept'
  <2> SUFFICES ASSUME "race" \notin ecTrouble'
               PROVE  Ends(ecApi', EcListing, EcListIs(ecWanted'),
                           ecSvs' = ecWanted' /\ ecList' = ecWanted')
    BY DEF EcListKept, EcListIs, EcListing
  <2>1. PICK G : G = EcListIs(ecWanted')
    OBVIOUS
  <2>2. PICK rest : rest = (ecSvs' = ecWanted' /\ ecList' = ecWanted')
    OBVIOUS
  <2> QED BY <1>1, <2>1, <2>2, EndsBoth
<1>8. EcExcludedKept'
  <2> SUFFICES ASSUME ecTrouble' \cap EcListTroubles = {}, ~EcComes'
               PROVE  Ends(ecApi', EcExcluding, EcExcludedIs(ecWanted', EcExcluded'),
                           ecModem'.svs = EcExcluded')
    BY DEF EcExcludedKept, EcExcludedIs, EcExcluding, EcListing
  <2> DEFINE then == Ends(ecApi, EcExcluding, EcExcludedIs(ecWanted', EcExcluded'),
                          ecModem.svs = EcExcluded')
             rest == /\ ecWanted' = ecWanted /\ EcExcluded' = EcExcluded
                     /\ ecTrouble \cap EcListTroubles = {} /\ ~EcUpComes
  <2>1. rest => then
    BY <1>3 DEF EcKeptInv, EcExcludedKept, EcComes
  <2>2. Ends(ms, EcExcluding, EcExcludedIs(ecWanted', EcExcluded'), rest)
    BY DEF EcComes
  <2>3. Ends(ms, EcExcluding, EcExcludedIs(ecWanted', EcExcluded'), then)
    <3> HIDE DEF then, rest
    <3> QED BY <2>1, <2>2, EndsWeaker
  <2>4. PICK G : G = EcExcludedIs(ecWanted', EcExcluded')
    OBVIOUS
  <2>5. PICK is : is = (ecModem.svs = EcExcluded')
    OBVIOUS
  <2> QED BY <1>1, <2>3, <2>4, <2>5, EndsBoth
<1> QED BY <1>4, <1>5, <1>6, <1>7, <1>8 DEF EcKeptInv

(* Nothing is sent and nothing that is kept changes *)
LEMMA EcSame ==
  ASSUME EcKeptInv, UNCHANGED <<ecApi, ecModem, ecKept>>, EcUpComes' = EcUpComes
  PROVE  EcKeptInv'
<1>1. /\ ecApi' = ecApi /\ ecModem' = ecModem /\ ecTypes' = ecTypes /\ ecConf' = ecConf
      /\ ecAfw' = ecAfw /\ ecNfw' = ecNfw /\ ecTrouble' = ecTrouble /\ ecSvs' = ecSvs
      /\ ecList' = ecList /\ ecWanted' = ecWanted
  BY DEF ecKept, ecLocks, ecLists
<1>2. EcOpening' = EcOpening /\ EcComes' = EcComes
  BY <1>1 DEF EcOpening, EcComes
<1>3. EcLockToSet' = EcLockToSet /\ EcOn' = EcOn /\ EcExcluded' = EcExcluded
  BY <1>1 DEF EcLockToSet, EcOn, EcExcluded
<1>4. EcIsUp'
  BY <1>1 DEF EcIsUp, EcKeptInv, EcOpens
<1>5. EcLockKept'
  BY <1>1, <1>2, <1>3 DEF EcLockKept, EcKeptInv, EcLockIs
<1>6. EcSwitchKept'
  BY <1>1, <1>2, <1>3 DEF EcSwitchKept, EcKeptInv, EcSwitchIs
<1> QED BY <1>1, <1>2, <1>3, <1>4, <1>5, <1>6 DEF EcKeptInv, EcListKept, EcListIs,
  EcExcludedKept, EcExcludedIs

(* Messages that only move from queue to queue, are answered or come *)
EcMoves == EcHandlePending \/ EcHandleUnlock \/ EcHandleAnswer \/ EcLockStatus

LEMMA EcMovesDo ==
  ASSUME EcTypeOK, EcMoves, EcPendingOK
  PROVE  /\ EcTypeOK' /\ UNCHANGED <<ecApi, ecModem, ecKept>> /\ EcUpComes' = EcUpComes
         /\ EcPendingOK'
<1>1. /\ ecQueue \in Seq(EcMessage) /\ ecPending \in Seq(EcMessage)
      /\ <<>> \in Seq(EcMessage) /\ ToSet(<<>>) = {}
  BY EcTypesParts DEF ToSet
<1>2. CASE EcHandlePending
  <2>1. PICK m : m = Head(ecQueue)
    OBVIOUS
  <2>2. /\ ecQueue # <<>> /\ m.do \in EcNeedsEngine
        /\ ecPending' = Append(ecPending, m) /\ ecQueue' = Tail(ecQueue)
        /\ UNCHANGED <<ecKnown, ecKept, ecApi, ecUnlocked, ecModem, ecAnswers, ecEvents>>
    BY <1>2, <2>1 DEF EcHandlePending
  <2>3. /\ m \in EcMessage /\ ecQueue' \in Seq(EcMessage)
        /\ ToSet(ecQueue) = {m} \cup ToSet(ecQueue')
    BY <1>1, <2>1, <2>2, HeadAndTail
  <2>4. ecPending' \in Seq(EcMessage) /\ ToSet(ecPending') = ToSet(ecPending) \cup {m}
    BY <1>1, <2>2, <2>3, ElementsWith
  <2>7. EcTypeOK'
    BY <2>2, <2>3, <2>4 DEF EcTypeOK, ecKept, ecLocks, ecLists, ecAnswers
  <2> QED BY <2>2, <2>3, <2>4, <2>7 DEF EcPendingOK, EcUpComes, EcNeedsEngine
<1>3. CASE EcHandleUnlock
  <2>1. /\ ecQueue # <<>> /\ Head(ecQueue).do = "unlock" /\ EcFlush
        /\ UNCHANGED <<ecKnown, ecKept, ecApi, ecUnlocked, ecModem, ecAnswers, ecEvents>>
    BY <1>3 DEF EcHandleUnlock
  <2>2. /\ ecQueue' \in Seq(EcMessage) /\ ecPending' = <<>>
        /\ ToSet(ecQueue') = ToSet(Tail(ecQueue)) \cup ToSet(ecPending)
    BY <2>1, EcFlushes
  <2>3. ToSet(ecQueue) = {Head(ecQueue)} \cup ToSet(Tail(ecQueue))
    BY <1>1, <2>1, HeadAndTail
  <2>5. ecPending' \in Seq(EcMessage)
    BY <1>1, <2>2, Zenon
  <2>6. EcTypeOK'
    BY <2>1, <2>2, <2>5 DEF EcTypeOK, ecKept, ecLocks, ecLists, ecAnswers
  <2> QED BY <1>1, <2>1, <2>2, <2>3, <2>6 DEF EcPendingOK, EcUpComes
<1>4. CASE EcHandleAnswer
  <2>1. PICK m : m = Head(ecQueue)
    OBVIOUS
  <2>2. /\ ecQueue # <<>> /\ m.do = "answer" /\ ecQueue' = Tail(ecQueue)
        /\ ecTold' = [ecTold EXCEPT ![m.id] = @ + 1]
        /\ UNCHANGED <<ecPending, ecKnown, ecKept, ecApi, ecUnlocked, ecModem, ecAsked, ecEvents>>
    BY <1>4, <2>1 DEF EcHandleAnswer
  <2>3. /\ m \in EcMessage /\ ecQueue' \in Seq(EcMessage)
        /\ ToSet(ecQueue) = {m} \cup ToSet(ecQueue')
    BY <1>1, <2>1, <2>2, HeadAndTail
  <2>7. EcTypeOK'
    BY <2>2, <2>3, EcMessageKinds DEF EcTypeOK, ecKept, ecLocks, ecLists
  <2> QED BY <2>2, <2>3, <2>7 DEF EcPendingOK, EcUpComes
<1>5. CASE EcLockStatus
  <2>1. PICK m : m = [do |-> "unlock"]
    OBVIOUS
  <2>2. /\ ecEvents < MaxEcEvents /\ ecEvents' = ecEvents + 1
        /\ ecUnlocked' = ~ecUnlocked
        /\ ecQueue' = (IF ecUnlocked THEN ecQueue ELSE Append(ecQueue, m))
        /\ UNCHANGED <<ecPending, ecKnown, ecKept, ecAnswers, ecApi, ecModem>>
    BY <1>5, <2>1 DEF EcLockStatus, EcEvent
  <2>3. m \in EcMessage /\ m.do # "up"
    BY <2>1 DEF EcMessage
  <2>4. ecQueue' \in Seq(EcMessage) /\ (ToSet(ecQueue') = ToSet(ecQueue) \/ ToSet(ecQueue') = ToSet(ecQueue) \cup {m})
    <3>1. Append(ecQueue, m) \in Seq(EcMessage) /\ ToSet(Append(ecQueue, m)) = ToSet(ecQueue) \cup {m}
      BY <1>1, <2>3, ElementsWith
    <3> QED BY <1>1, <2>2, <3>1, Zenon
  <2>7. EcTypeOK'
    BY <2>2, <2>4, EcBoundsAssumption DEF EcTypeOK, ecKept, ecLocks, ecLists, ecAnswers
  <2> QED BY <2>2, <2>3, <2>4, <2>7 DEF EcPendingOK, EcUpComes
<1> QED BY <1>2, <1>3, <1>4, <1>5 DEF EcMoves

(* gnssUpdateConfig: the lock is kept or sent, and the list of satellites  *)
(* is sent                                                                 *)
LEMMA EcConfigHandled ==
  ASSUME EcTypeOK, EcKeptInv, EcHandleConfig
  PROVE  EcTypeOK' /\ EcKeptInv' /\ ecPending' = ecPending
<1>1. PICK m : m = Head(ecQueue)
  OBVIOUS
<1>3. /\ m \in EcMessage /\ m.do = "config" /\ ecQueue' \in Seq(EcMessage)
      /\ ToSet(ecQueue) = {m} \cup ToSet(ecQueue')
      /\ ecKnown' = ecKnown /\ ecPending' = ecPending /\ ecUnlocked' = ecUnlocked
      /\ ecModem' = ecModem /\ ecAsked' = ecAsked /\ ecTold' = ecTold /\ ecEvents' = ecEvents
  BY <1>1, EcReceives DEF EcHandleConfig
<1>4. /\ m.id \in EcId \cup {0} /\ m.items \in SUBSET EcItem /\ m.lock \in SUBSET EcLock
      /\ m.svs \in SUBSET EcSv
  BY <1>3, EcMessageKinds, EcInputAssumption
<1>5. PICK locks, lock, kept, invalid, need, l, x :
        /\ locks = ("lock" \in m.items) /\ lock = m.lock \cup {"MO"}
        /\ kept = (IF locks /\ ecAfw # 0 /\ ~ecNfw THEN {"lock"} ELSE {})
        /\ invalid = (IF m.supl THEN {} ELSE {"server"})
        /\ need = m.items \ (kept \cup invalid)
        /\ l = (IF ~locks \/ (ecAfw # 0 /\ ecNfw) THEN {} ELSE lock)
        /\ x = [do |-> "configure", id |-> m.id, items |-> m.items, need |-> need,
                invalid |-> invalid, lock |-> l, svs |-> m.svs]
  OBVIOUS
<1>6. /\ ecConf' = (IF locks THEN lock ELSE ecConf) /\ ecNfw' = (ecNfw /\ ~locks)
      /\ ecApi' = ecApi \o <<x>>
      /\ IF "blacklist" \in m.items
         THEN ecWanted' = m.svs /\ ecTrouble' = ecTrouble \ EcListTroubles
         ELSE UNCHANGED <<ecWanted, ecTrouble>>
      /\ UNCHANGED <<ecAfw, ecTypes, ecSvs, ecList>>
  BY <1>1, <1>5 DEF EcHandleConfig, EcSend
<1>7. /\ lock \in SUBSET EcLock /\ l \in SUBSET EcLock /\ need \in SUBSET EcItem
      /\ invalid \in SUBSET EcItem /\ ("lock" \in need <=> locks /\ "lock" \notin kept)
  BY <1>4, <1>5 DEF EcLock, EcItem
<1>8. /\ x \in EcApiMessage /\ x.do = "configure" /\ x.lock = l /\ x.svs = m.svs
      /\ x \in EcLocking <=> "lock" \in need
      /\ x \notin EcSwitching
      /\ x \in EcListing <=> "blacklist" \in m.items
      /\ x \in EcExcluding <=> "blacklist" \in m.items
  <2>1. /\ x = [do |-> "configure", id |-> m.id, items |-> m.items, need |-> need,
                invalid |-> invalid, lock |-> l, svs |-> m.svs]
        /\ m.id \in EcId \cup {0} /\ m.items \in SUBSET EcItem /\ need \in SUBSET EcItem
        /\ invalid \in SUBSET EcItem /\ l \in SUBSET EcLock /\ m.svs \in SUBSET EcSv
    BY <1>4, <1>5, <1>7, Zenon
  <2> QED BY <2>1, EcConfigureMessage
<1>9. PICK ms : ms = <<x>>
  OBVIOUS
<1>10. ms \in Seq(EcApiMessage) /\ ToSet(ms) = {x}
  BY <1>8, <1>9, ElementsOfOne
<1>11. ecApi \in Seq(EcApiMessage) /\ ecApi' = ecApi \o ms
  BY <1>6, <1>9, EcTypesParts
<1>12. ecApi' \in Seq(EcApiMessage)
  BY <1>10, <1>11
<1>14. EcUpComes' = EcUpComes
  BY <1>3 DEF EcUpComes
<1>16. Ends(ms, EcLocking, EcLockIs(EcLockToSet'), EcLockToSet' = EcLockToSet)
  <2>1. CASE "lock" \in need
    <3>2. l = EcLockToSet'
      BY <1>5, <1>6, <1>7, <2>1 DEF EcLockToSet
    <3> QED BY <1>8, <1>9, <2>1, <3>2, EndsOne DEF EcLockIs
  <2>2. CASE "lock" \notin need
    <3>1. EcLockToSet' = EcLockToSet
      BY <1>5, <1>6, <1>7, <2>2 DEF EcLockToSet
    <3> QED BY <1>8, <1>9, <2>2, <3>1, EndsOne
  <2> QED BY <2>1, <2>2
<1>17. Ends(ms, EcSwitching, EcSwitchIs(EcOn'), TRUE)
  BY <1>8, <1>9, EndsOne
<1>18. "race" \notin ecTrouble' =>
         Ends(ms, EcListing, EcListIs(ecWanted'),
              Ends(ecApi, EcListing, EcListIs(ecWanted'), ecSvs' = ecWanted' /\ ecList' = ecWanted'))
  <2>1. CASE "blacklist" \in m.items
    BY <1>6, <1>8, <1>9, <2>1, EndsOne DEF EcListIs
  <2>2. CASE "blacklist" \notin m.items
    BY <1>6, <1>8, <1>9, <2>2, EndsOne DEF EcKeptInv, EcListKept
  <2> QED BY <2>1, <2>2
<1>19. ecTrouble' \cap EcListTroubles = {} =>
         Ends(ms, EcExcluding, EcExcludedIs(ecWanted', EcExcluded'),
              /\ ecWanted' = ecWanted /\ EcExcluded' = EcExcluded
              /\ ecTrouble \cap EcListTroubles = {})
  <2>1. CASE "blacklist" \in m.items
    BY <1>6, <1>8, <1>9, <2>1, EndsOne DEF EcExcludedIs
  <2>2. CASE "blacklist" \notin m.items
    BY <1>6, <1>8, <1>9, <2>2, EndsOne DEF EcExcluded
  <2> QED BY <2>1, <2>2
<1>20. \A y \in ToSet(ms) : y.do # "open"
  BY <1>8, <1>10
<1>22. EcKeptInv'
  <2>1. ~EcUpComes' =>
          Ends(ms, EcLocking, EcLockIs(EcLockToSet'), EcLockToSet' = EcLockToSet /\ ~EcUpComes)
    BY <1>14, <1>16, Zenon DEF Ends
  <2>2. "outdated" \notin ecTrouble' /\ (EcOn' => ~EcUpComes') =>
          Ends(ms, EcSwitching, EcSwitchIs(EcOn'),
               /\ EcOn' <=> EcOn
               /\ "outdated" \notin ecTrouble /\ (EcOn => ~EcUpComes))
    BY <1>6, <1>14, <1>17, Zenon DEF Ends, EcListTroubles, EcOn
  <2>3. ecTrouble' \cap EcListTroubles = {} /\ ~EcUpComes' =>
          Ends(ms, EcExcluding, EcExcludedIs(ecWanted', EcExcluded'),
               /\ ecWanted' = ecWanted /\ EcExcluded' = EcExcluded
               /\ ecTrouble \cap EcListTroubles = {} /\ ~EcUpComes)
    BY <1>14, <1>19, Zenon DEF Ends
  <2> QED BY <1>3, <1>10, <1>11, <1>18, <1>20, <2>1, <2>2, <2>3, EcAfter
<1> QED BY <1>3, <1>4, <1>6, <1>7, <1>12, <1>22 DEF EcTypeOK

(* A handler that sends the lock that is to be set *)
LEMMA EcLockSent ==
  ASSUME EcTypeOK, EcKeptInv, NEW lock \in SUBSET EcLock,
         ecApi' = ecApi \o <<[do |-> "lock", lock |-> lock]>>, lock = EcLockToSet',
         ecModem' = ecModem, UNCHANGED <<ecTypes, ecLists>>, EcUpComes' = EcUpComes
  PROVE  EcKeptInv' /\ ecApi' \in Seq(EcApiMessage)
<1>1. PICK x : x = [do |-> "lock", lock |-> lock]
  OBVIOUS
<1>2. /\ x \in EcApiMessage /\ x.do = "lock" /\ x.lock = lock
      /\ x \in EcLocking /\ x \notin EcSwitching /\ x \notin EcListing /\ x \notin EcExcluding
  BY <1>1, EcLockMessage
<1>3. PICK ms : ms = <<x>>
  OBVIOUS
<1>4. ms \in Seq(EcApiMessage) /\ ToSet(ms) = {x}
  BY <1>2, <1>3, ElementsOfOne
<1>5. ecApi \in Seq(EcApiMessage) /\ ecApi' = ecApi \o ms
  BY <1>1, <1>3, EcTypesParts
<1>7. /\ ecTypes' = ecTypes /\ ecSvs' = ecSvs /\ ecList' = ecList /\ ecWanted' = ecWanted
      /\ ecTrouble' = ecTrouble
  BY DEF ecLists
<1>8. EcOn' = EcOn /\ EcExcluded' = EcExcluded
  BY <1>7 DEF EcOn, EcExcluded
<1>10. ~EcUpComes' =>
         Ends(ms, EcLocking, EcLockIs(EcLockToSet'), EcLockToSet' = EcLockToSet /\ ~EcUpComes)
  BY <1>2, <1>3, EndsOne DEF EcLockIs
<1>11. "outdated" \notin ecTrouble' /\ (EcOn' => ~EcUpComes') =>
         Ends(ms, EcSwitching, EcSwitchIs(EcOn'),
              /\ EcOn' <=> EcOn
              /\ "outdated" \notin ecTrouble /\ (EcOn => ~EcUpComes))
  BY <1>2, <1>3, <1>7, <1>8, EndsOne
<1>12. "race" \notin ecTrouble' =>
         Ends(ms, EcListing, EcListIs(ecWanted'),
              Ends(ecApi, EcListing, EcListIs(ecWanted'), ecSvs' = ecWanted' /\ ecList' = ecWanted'))
  BY <1>2, <1>3, <1>7, EndsOne DEF EcKeptInv, EcListKept
<1>13. ecTrouble' \cap EcListTroubles = {} /\ ~EcUpComes' =>
         Ends(ms, EcExcluding, EcExcludedIs(ecWanted', EcExcluded'),
              /\ ecWanted' = ecWanted /\ EcExcluded' = EcExcluded
              /\ ecTrouble \cap EcListTroubles = {} /\ ~EcUpComes)
  BY <1>2, <1>3, <1>7, <1>8, EndsOne
<1>14. \A y \in ToSet(ms) : y.do # "open"
  BY <1>2, <1>4
<1>15. EcKeptInv'
  BY <1>4, <1>5, <1>10, <1>11, <1>12, <1>13, <1>14, EcAfter
<1> QED BY <1>4, <1>5, <1>15

(* handleEnable, handleDisable, nfwControlCommand *)
LEMMA EcControlsHandled ==
  ASSUME EcTypeOK, EcKeptInv, EcHandleEnable \/ EcHandleDisable \/ EcHandleNfwControl
  PROVE  EcTypeOK' /\ EcKeptInv' /\ ecPending' = ecPending
<1>1. PICK m : m = Head(ecQueue)
  OBVIOUS
<1>2. PICK do \in {"enable", "disable", "nfw"} :
        /\ EcReceive(do)
        /\ do = "enable" => EcHandleEnable
        /\ do = "disable" => EcHandleDisable
        /\ do = "nfw" => EcHandleNfwControl
  BY DEF EcHandleEnable, EcHandleDisable, EcHandleNfwControl
<1>3. /\ m \in EcMessage /\ m.do = do /\ ecQueue' \in Seq(EcMessage)
      /\ ToSet(ecQueue) = {m} \cup ToSet(ecQueue')
      /\ ecKnown' = ecKnown /\ ecPending' = ecPending /\ ecUnlocked' = ecUnlocked
      /\ ecModem' = ecModem /\ ecAsked' = ecAsked /\ ecTold' = ecTold /\ ecEvents' = ecEvents
  BY <1>1, <1>2, EcReceives
<1>4. EcUpComes' = EcUpComes
  BY <1>3 DEF EcUpComes
<1>5. UNCHANGED <<ecTypes, ecLists>>
  BY <1>2 DEF EcHandleEnable, EcHandleDisable, EcHandleNfwControl
<1>6. ecConf \in SUBSET EcLock /\ ecAfw \in EcId \cup {0} /\ ecNfw \in BOOLEAN
  BY EcTypesParts
<1>7. \/ UNCHANGED <<ecLocks, ecApi>>
      \/ \E lock \in SUBSET EcLock :
           /\ ecApi' = ecApi \o <<[do |-> "lock", lock |-> lock]>> /\ lock = EcLockToSet'
           /\ ecAfw' \in EcId \cup {0} /\ ecConf' \in SUBSET EcLock /\ ecNfw' = ecNfw
  <2>1. CASE do = "enable"
    <3>1. CASE ecAfw > 0
      BY <1>2, <2>1, <3>1 DEF EcHandleEnable
    <3>2. CASE ~(ecAfw > 0)
      <4>1. PICK lock : lock = (IF ecNfw THEN ecConf \cap {"NFW"} ELSE {})
        OBVIOUS
      <4>2. /\ ecAfw' = m.id /\ ecConf' = (IF ecNfw THEN ecConf \cap {"NFW"} ELSE ecConf)
            /\ ecApi' = ecApi \o <<[do |-> "lock", lock |-> lock]>> /\ ecNfw' = ecNfw
        BY <1>1, <1>2, <2>1, <3>2, <4>1 DEF EcHandleEnable, EcSetLock, EcSend
      <4>3. m.id \in EcId /\ m.id # 0
        BY <1>3, <2>1, EcMessageKinds DEF EcId
      <4>4. lock = EcLockToSet' /\ lock \in SUBSET EcLock /\ ecConf' \in SUBSET EcLock
        BY <1>6, <4>1, <4>2, <4>3 DEF EcLockToSet
      <4> QED BY <4>2, <4>3, <4>4
    <3> QED BY <3>1, <3>2
  <2>2. CASE do = "disable"
    BY <1>1, <1>2, <1>6, <2>2 DEF EcHandleDisable, EcSetLock, EcSend, EcLock, EcLockToSet
  <2>3. CASE do = "nfw"
    <3>1. CASE ~ecNfw
      BY <1>2, <2>3, <3>1 DEF EcHandleNfwControl, ecLocks
    <3>2. CASE ecNfw
      <4>1. PICK lock : lock = (ecConf \cap {"MO"}) \cup m.lock
        OBVIOUS
      <4>2. /\ ecAfw' = ecAfw /\ ecConf' = lock /\ ecNfw' = ecNfw
            /\ ecApi' = ecApi \o <<[do |-> "lock", lock |-> lock]>>
        BY <1>1, <1>2, <2>3, <3>2, <4>1 DEF EcHandleNfwControl, EcSetLock, EcSend
      <4>3. m.lock \in SUBSET EcLock
        BY <1>3, <2>3, EcMessageKinds
      <4> QED BY <1>6, <3>2, <4>1, <4>2, <4>3 DEF EcLockToSet
    <3> QED BY <3>1, <3>2
  <2> QED BY <2>1, <2>2, <2>3
<1>8. CASE UNCHANGED <<ecLocks, ecApi>>
  BY <1>3, <1>4, <1>5, <1>8, EcSame DEF ecKept, EcTypeOK, ecLocks, ecLists
<1>9. ASSUME NEW lock \in SUBSET EcLock,
             ecApi' = ecApi \o <<[do |-> "lock", lock |-> lock]>>, lock = EcLockToSet',
             ecAfw' \in EcId \cup {0}, ecConf' \in SUBSET EcLock, ecNfw' = ecNfw
      PROVE  EcTypeOK' /\ EcKeptInv'
  BY <1>3, <1>4, <1>5, <1>9, EcLockSent DEF EcTypeOK, ecLists
<1> QED BY <1>3, <1>7, <1>8, <1>9

(* The list of satellites is not on its way: the thread of LocApiBase has  *)
(* nothing to say about it any more                                        *)
LEMMA EcListOnItsWay ==
  ASSUME EcTypeOK
  PROVE  ~EcListIsOnItsWay <=> Silent(ecApi, EcListing)
  BY EcTypesParts DEF EcListIsOnItsWay, Silent, EcListing

(* What is sent for a change of the constellations *)
EcUpdates(cur, new, r, c) ==
  \E a, s, b, d :
    /\ a = <<>> \/ a = <<r>>
    /\ a = <<r>> <=> new.size = 0 \/ (EcEnables(cur) /\ ~EcEnables(new))
    /\ s = IF new.size # 0 /\ "disabled" \in cur.types /\ EcEnables(new) THEN {}
           ELSE EcCombineBlacklist(ecSvs, new)
    /\ b = [do |-> "blacklist", id |-> 0, svs |-> s]
    /\ d = <<>> \/ d = <<c>>
    /\ d = <<c>> <=> EcEnables(new) /\ ~EcEnables(cur)
    /\ EcTypesUpdate(cur, new) = (a \o <<b>>) \o d

LEMMA EcTypesUpdateIs ==
  ASSUME EcTypeOK, NEW cur \in EcTypeConfig, NEW new \in EcTypeConfig, cur # new,
         NEW r, r = [do |-> "reset", enabled |-> FALSE],
         NEW c, c = [do |-> "constellation", enabled |-> TRUE]
  PROVE  EcUpdates(cur, new, r, c)
<1>2. r \in EcApiMessage /\ c \in EcApiMessage /\ <<r>> # <<>> /\ <<c>> # <<>>
  BY EcSwitchMessage
<1>3. CASE new.size = 0
  <2>1. PICK b : b = [do |-> "blacklist", id |-> 0, svs |-> ecSvs]
    OBVIOUS
  <2>4. PICK e : e = <<r>> \o <<b>>
    OBVIOUS
  <2>5. b \in EcApiMessage
    <3>1. ecSvs \in SUBSET EcSv /\ 0 \in EcId \cup {0}
      BY EcTypesParts
    <3> QED BY <2>1, <3>1, EcBlacklistMessage
  <2>7. e \o <<>> = e
    BY <1>2, <2>4, <2>5, ConcatEmptySeq
  <2>8. EcTypesUpdate(cur, new) = (<<r>> \o <<b>>) \o <<>>
    BY <1>3, <2>1, <2>4, <2>7, Zenon DEF EcTypesUpdate
  <2> QED BY <1>2, <1>3, <2>1, <2>8, EcTypeConfigKinds DEF EcUpdates, EcCombineBlacklist,
    EcEnables
<1>4. CASE new.size # 0
  <2>1. PICK a, s, b, d :
          /\ a = (IF EcEnables(cur) /\ ~EcEnables(new) THEN <<r>> ELSE <<>>)
          /\ s = (IF "disabled" \in cur.types /\ EcEnables(new) THEN {}
                  ELSE EcCombineBlacklist(ecSvs, new))
          /\ b = [do |-> "blacklist", id |-> 0, svs |-> s]
          /\ d = (IF EcEnables(new) /\ ~EcEnables(cur) THEN <<c>> ELSE <<>>)
    OBVIOUS
  <2> QED BY <1>2, <1>4, <2>1 DEF EcUpdates, EcTypesUpdate
<1> QED BY <1>3, <1>4

(* updateSvTypeConfig *)
LEMMA EcTypesHandled ==
  ASSUME EcTypeOK, EcKeptInv, EcHandleTypes
  PROVE  EcTypeOK' /\ EcKeptInv' /\ ecPending' = ecPending
<1>1. PICK m : m = Head(ecQueue)
  OBVIOUS
<1>3. /\ m \in EcMessage /\ m.do = "types" /\ ecQueue' \in Seq(EcMessage)
      /\ ToSet(ecQueue) = {m} \cup ToSet(ecQueue')
      /\ ecKnown' = ecKnown /\ ecPending' = ecPending /\ ecUnlocked' = ecUnlocked
      /\ ecModem' = ecModem /\ ecAsked' = ecAsked /\ ecTold' = ecTold /\ ecEvents' = ecEvents
  BY <1>1, EcReceives DEF EcHandleTypes
<1>4. EcUpComes' = EcUpComes
  BY <1>3 DEF EcUpComes
<1>5. PICK types, cur, new, ms, bad :
        /\ types = [ecTypes EXCEPT ![m.from] = m.config]
        /\ cur = EcCombined(ecTypes) /\ new = EcCombined(types) /\ ms = EcTypesUpdate(cur, new)
        /\ bad = ("disabled" \in cur.types /\ EcEnables(new) /\ ecSvs # {})
  OBVIOUS
<1>6. /\ ecTypes' = types /\ ecApi' = ecApi \o ms
      /\ ecTrouble' = IF ms = <<>> THEN ecTrouble
                      ELSE EcListTrouble("enable", bad) \cup (ecTrouble \cap {"race"})
      /\ UNCHANGED <<ecAfw, ecNfw, ecConf, ecSvs, ecList, ecWanted>>
  BY <1>1, <1>5 DEF EcHandleTypes, EcSend, ecLocks
<1>7. ecTypes' \in [EcSource -> EcTypeConfig]
  BY <1>3, <1>5, <1>6, EcTypesParts, EcMessageKinds
<1>8. cur \in EcTypeConfig /\ new \in EcTypeConfig
  BY <1>5, <1>6, <1>7, EcTypesParts, EcCombinedType
<1>9. EcLockToSet' = EcLockToSet
  BY <1>6 DEF EcLockToSet
<1>10. (EcOn <=> EcEnables(cur)) /\ (EcOn' <=> EcEnables(new))
  BY <1>5, <1>6 DEF EcOn
<1>11. /\ EcExcluded = EcCombineBlacklist(ecWanted, cur)
       /\ EcExcluded' = EcCombineBlacklist(ecWanted, new)
  BY <1>5, <1>6 DEF EcExcluded
<1>12. CASE cur = new
  <2>1. ms = <<>>
    BY <1>5, <1>12 DEF EcTypesUpdate
  <2>3. ecApi' = ecApi
    BY <1>6, <2>1, ConcatEmptySeq, EcTypesParts
  <2>4. ecTrouble' = ecTrouble
    BY <1>6, <2>1
  <2>6. EcComes' = EcComes /\ EcOpening' = EcOpening
    BY <1>4, <2>3 DEF EcComes, EcOpening
  <2>7. EcOn' = EcOn /\ EcExcluded' = EcExcluded
    BY <1>11, <1>12, <1>5, <1>6 DEF EcOn
  <2>8. EcIsUp' /\ EcLockKept' /\ EcSwitchKept' /\ EcListKept' /\ EcExcludedKept'
    <3>2. EcLockKept'
      BY <1>3, <1>9, <2>3, <2>6 DEF EcKeptInv, EcLockKept, EcLockIs
    <3>3. EcSwitchKept'
      BY <1>3, <2>3, <2>4, <2>6, <2>7 DEF EcKeptInv, EcSwitchKept, EcSwitchIs
    <3>4. EcListKept'
      BY <1>6, <2>3, <2>4 DEF EcKeptInv, EcListKept, EcListIs
    <3>5. EcExcludedKept'
      BY <1>3, <1>6, <2>3, <2>4, <2>6, <2>7 DEF EcKeptInv, EcExcludedKept, EcExcludedIs
    <3> QED BY <1>3, <2>3, <3>2, <3>3, <3>4, <3>5 DEF EcKeptInv, EcIsUp, EcOpens
  <2> QED BY <1>3, <1>6, <1>7, <2>3, <2>4, <2>8 DEF EcKeptInv, EcTypeOK
<1>13. CASE cur # new
  <2>1. PICK r, c : /\ r = [do |-> "reset", enabled |-> FALSE]
                    /\ c = [do |-> "constellation", enabled |-> TRUE]
    OBVIOUS
  <2>2. PICK a, s, b, d :
          /\ a = <<>> \/ a = <<r>>
          /\ a = <<r>> <=> new.size = 0 \/ (EcEnables(cur) /\ ~EcEnables(new))
          /\ s = IF new.size # 0 /\ "disabled" \in cur.types /\ EcEnables(new) THEN {}
                 ELSE EcCombineBlacklist(ecSvs, new)
          /\ b = [do |-> "blacklist", id |-> 0, svs |-> s]
          /\ d = <<>> \/ d = <<c>>
          /\ d = <<c>> <=> EcEnables(new) /\ ~EcEnables(cur)
          /\ EcTypesUpdate(cur, new) = (a \o <<b>>) \o d
    <3>1. EcUpdates(cur, new, r, c)
      BY <1>8, <1>13, <2>1, EcTypesUpdateIs
    <3> QED BY <3>1 DEF EcUpdates
  <2>4. s \in SUBSET EcSv /\ 0 \in EcId \cup {0}
    BY <2>2, EcTypesParts DEF EcCombineBlacklist
  <2>5. /\ r \in EcApiMessage /\ r.do = "reset" /\ r \notin EcLocking /\ r \notin EcListing
        /\ r \notin EcExcluding /\ r \in EcSwitching
        /\ c \in EcApiMessage /\ c.do = "constellation" /\ c \notin EcLocking
        /\ c \notin EcListing /\ c \notin EcExcluding /\ c \in EcSwitching
    BY <2>1, EcSwitchMessage
  <2>6. /\ b \in EcApiMessage /\ b.do = "blacklist" /\ b.svs = s
        /\ b \notin EcLocking /\ b \notin EcSwitching /\ b \notin EcListing /\ b \in EcExcluding
    <3>1. b = [do |-> "blacklist", id |-> 0, svs |-> s]
      BY <2>2
    <3> QED BY <2>4, <3>1, EcBlacklistMessage
  <2>7. PICK be : be = <<b>>
    OBVIOUS
  <2>8. /\ a \in Seq(EcApiMessage) /\ ToSet(a) \subseteq {r} /\ be \in Seq(EcApiMessage)
        /\ ToSet(be) = {b} /\ d \in Seq(EcApiMessage) /\ ToSet(d) \subseteq {c}
    <3>1. <<>> \in Seq(EcApiMessage) /\ ToSet(<<>>) = {}
      BY DEF ToSet
    <3>2. <<r>> \in Seq(EcApiMessage) /\ ToSet(<<r>>) = {r} /\ <<c>> \in Seq(EcApiMessage)
          /\ ToSet(<<c>>) = {c} /\ <<b>> \in Seq(EcApiMessage) /\ ToSet(<<b>>) = {b}
      BY <2>5, <2>6, ElementsOfOne
    <3> QED BY <2>2, <2>7, <3>1, <3>2, Zenon
  <2>10. a \in Seq(EcApiMessage) /\ be \in Seq(EcApiMessage) /\ d \in Seq(EcApiMessage)
    BY <2>8
  <2>11. /\ ms \in Seq(EcApiMessage) /\ ToSet(ms) = ToSet(a) \cup ToSet(be) \cup ToSet(d)
         /\ \A B, G, rest : Ends(ms, B, G, rest)
                              <=> Ends(d, B, G, Ends(be, B, G, Ends(a, B, G, rest)))
    <3>1. ASSUME NEW B, NEW G, NEW rest
          PROVE  /\ (a \o be) \o d \in Seq(EcApiMessage)
                 /\ ToSet((a \o be) \o d) = ToSet(a) \cup ToSet(be) \cup ToSet(d)
                 /\ Ends((a \o be) \o d, B, G, rest)
                      <=> Ends(d, B, G, Ends(be, B, G, Ends(a, B, G, rest)))
      BY <2>10, EndsThree
    <3> QED BY <1>5, <2>2, <2>7, <3>1, Zenon
  <2>12. \A y \in ToSet(ms) : y = r \/ y = b \/ y = c
    BY <2>8, <2>11
  <2>13. \A y \in ToSet(ms) : y.do # "open" /\ y \notin EcLocking /\ y \notin EcListing
    BY <2>5, <2>6, <2>12
  <2>14. ms # <<>>
    BY <2>8, <2>11 DEF ToSet
  <2>15. /\ ecTrouble' = EcListTrouble("enable", bad) \cup (ecTrouble \cap {"race"})
         /\ "outdated" \notin ecTrouble' => "outdated" \notin ecTrouble
         /\ "race" \notin ecTrouble' => "race" \notin ecTrouble
         /\ ecTrouble' \cap EcListTroubles = {} => ~bad /\ ~EcListIsOnItsWay /\ "race" \notin ecTrouble
         /\ ecTrouble' \subseteq EcTroubles
    BY <1>6, <2>14 DEF EcTypeOK, EcListTrouble, EcListTroubles, EcTroubles
  <2>18. EcTypeOK'
    BY <1>3, <1>6, <1>7, <2>11, <2>15, EcTypesParts DEF EcTypeOK
  <2>19. ~EcUpComes' =>
           Ends(ms, EcLocking, EcLockIs(EcLockToSet'), EcLockToSet' = EcLockToSet /\ ~EcUpComes)
    BY <1>4, <1>9, <2>11, <2>13, EndsAlike
  <2>20. "outdated" \notin ecTrouble' /\ (EcOn' => ~EcUpComes') =>
           Ends(ms, EcSwitching, EcSwitchIs(EcOn'),
                /\ EcOn' <=> EcOn
                /\ "outdated" \notin ecTrouble /\ (EcOn => ~EcUpComes))
    <3> SUFFICES ASSUME "outdated" \notin ecTrouble', EcOn' => ~EcUpComes'
                 PROVE  Ends(ms, EcSwitching, EcSwitchIs(EcOn'),
                             /\ EcOn' <=> EcOn
                             /\ "outdated" \notin ecTrouble /\ (EcOn => ~EcUpComes))
      OBVIOUS
    <3>1. r \in EcSwitchIs(FALSE) /\ c \in EcSwitchIs(TRUE)
      BY <2>5 DEF EcSwitchIs
    <3>2. CASE EcEnables(new)
      <4>1. new.size # 0 /\ EcSwitchIs(EcOn') = EcSwitchIs(TRUE)
        BY <1>8, <1>10, <3>2, EcTypeConfigKinds DEF EcEnables, EcSwitchIs
      <4>3. a = <<>> /\ (d = <<c>> \/ EcEnables(cur))
        BY <2>2, <3>2, <4>1
      <4>4. \A y \in ToSet(ms) : y \in EcSwitching => y \in EcSwitchIs(EcOn')
        <5>1. ToSet(a) = {}
          BY <4>3 DEF ToSet
        <5> QED BY <2>6, <2>8, <2>11, <3>1, <4>1, <5>1
      <4>5. (\A y \in ToSet(ms) : y \notin EcSwitching) =>
              (/\ EcOn' <=> EcOn
               /\ "outdated" \notin ecTrouble /\ (EcOn => ~EcUpComes))
        <5>1. d = <<c>> => c \in ToSet(ms)
          BY <2>5, <2>11, ElementsOfOne
        <5> QED BY <1>4, <1>10, <2>5, <2>15, <3>2, <4>3, <5>1
      <4> QED BY <2>11, <4>4, <4>5, EndsAlike
    <3>3. CASE ~EcEnables(new)
      <4>1. EcSwitchIs(EcOn') = EcSwitchIs(FALSE)
        BY <1>10, <3>3 DEF EcSwitchIs
      <4>3. d = <<>> /\ (a = <<r>> \/ ~EcEnables(cur))
        BY <2>2, <3>3
      <4>4. \A y \in ToSet(ms) : y \in EcSwitching => y \in EcSwitchIs(EcOn')
        <5>1. ToSet(d) = {}
          BY <4>3 DEF ToSet
        <5> QED BY <2>6, <2>8, <2>11, <3>1, <4>1, <5>1
      <4>5. (\A y \in ToSet(ms) : y \notin EcSwitching) =>
              (/\ EcOn' <=> EcOn
               /\ "outdated" \notin ecTrouble /\ (EcOn => ~EcUpComes))
        <5>1. a = <<r>> => r \in ToSet(ms)
          BY <2>5, <2>11, ElementsOfOne
        <5> QED BY <1>4, <1>10, <2>5, <2>15, <3>3, <4>3, <5>1
      <4> QED BY <2>11, <4>4, <4>5, EndsAlike
    <3> QED BY <3>2, <3>3
  <2>21. "race" \notin ecTrouble' =>
           Ends(ms, EcListing, EcListIs(ecWanted'),
                Ends(ecApi, EcListing, EcListIs(ecWanted'), ecSvs' = ecWanted' /\ ecList' = ecWanted'))
    BY <1>6, <2>11, <2>13, <2>15, EndsAlike DEF EcKeptInv, EcListKept
  <2>22. ecTrouble' \cap EcListTroubles = {} /\ ~EcUpComes' =>
           Ends(ms, EcExcluding, EcExcludedIs(ecWanted', EcExcluded'),
                /\ ecWanted' = ecWanted /\ EcExcluded' = EcExcluded
                /\ ecTrouble \cap EcListTroubles = {} /\ ~EcUpComes)
    <3> SUFFICES ASSUME ecTrouble' \cap EcListTroubles = {}
                 PROVE  Ends(ms, EcExcluding, EcExcludedIs(ecWanted', EcExcluded'),
                             /\ ecWanted' = ecWanted /\ EcExcluded' = EcExcluded
                             /\ ecTrouble \cap EcListTroubles = {} /\ ~EcUpComes)
      OBVIOUS
    <3>1. ~bad /\ Silent(ecApi, EcListing) /\ "race" \notin ecTrouble
      BY <2>15, EcListOnItsWay
    <3>2. ecSvs = ecWanted
      BY <3>1 DEF EcKeptInv, EcListKept, Ends
    <3>3. s = EcExcluded'
      <4>1. CASE new.size # 0 /\ "disabled" \in cur.types /\ EcEnables(new)
        <5>1. s = {} /\ ecSvs = {}
          BY <1>5, <2>2, <3>1, <4>1
        <5> QED BY <1>8, <1>11, <3>2, <4>1, <5>1, EcTypeConfigKinds DEF EcCombineBlacklist,
          EcEnables
      <4>2. CASE ~(new.size # 0 /\ "disabled" \in cur.types /\ EcEnables(new))
        BY <1>11, <2>2, <3>2, <4>2
      <4> QED BY <4>1, <4>2
    <3>4. b \in EcExcludedIs(ecWanted', EcExcluded')
      BY <2>6, <3>3 DEF EcExcludedIs
    <3>6. b \in ToSet(ms) /\ b \in EcExcluding
      BY <2>6, <2>8, <2>11
    <3> QED BY <2>5, <2>11, <2>12, <3>4, <3>6, EndsAlike
  <2>23. EcKeptInv'
    <3>1. \A y \in ToSet(ms) : y.do # "open"
      BY <2>13
    <3> QED BY <1>3, <1>6, <2>11, <2>19, <2>20, <2>21, <2>22, <3>1, EcAfter
  <2> QED BY <1>3, <2>18, <2>23
<1> QED BY <1>12, <1>13

(* gnssUpdateSvConfig: what it sends for the constellations, then the      *)
(* satellites                                                              *)
EcSends(cur, config, r, c, b, ms) ==
  \E a, d :
    /\ a = <<>> \/ a = <<r>>
    /\ config.size = 0 => a = <<r>> /\ d = <<>>
    /\ config.size = 1 => d = <<c>> /\ (~EcEnables(cur) => a = <<>>)
    /\ ms = (a \o d) \o <<b>>

LEMMA EcSvsSends ==
  ASSUME NEW cur, NEW config \in EcTypeConfig, NEW r, NEW c, NEW b, NEW ms,
         ms = (IF config.size = 0 THEN <<r>>
               ELSE (IF EcEnables(cur) /\ ~EcEnables(config) THEN <<r>> ELSE <<>>) \o <<c>>)
                \o <<b>>
  PROVE  EcSends(cur, config, r, c, b, ms)
<1>2. PICK a, d :
        /\ a = (IF config.size = 0 \/ (EcEnables(cur) /\ ~EcEnables(config)) THEN <<r>> ELSE <<>>)
        /\ d = (IF config.size = 0 THEN <<>> ELSE <<c>>)
  OBVIOUS
<1>3. CASE config.size = 0
  <2>1. a = <<r>> /\ d = <<>>
    BY <1>2, <1>3
  <2>3. a \o d = a
    BY <2>1, ConcatEmptySeq
  <2>5. config.size # 1
    BY <1>3
  <2> QED BY <1>3, <2>1, <2>3, <2>5, Zenon DEF EcSends
<1>4. CASE config.size = 1
  <2>1. config.size # 0
    BY <1>4
  <2> QED BY <1>2, <2>1, Zenon DEF EcSends
<1> QED BY <1>3, <1>4, EcTypeConfigKinds

LEMMA EcSvsHandled ==
  ASSUME EcTypeOK, EcKeptInv, EcHandleSvs
  PROVE  EcTypeOK' /\ EcKeptInv' /\ ecPending' = ecPending
<1>1. PICK m : m = Head(ecQueue)
  OBVIOUS
<1>3. /\ m \in EcMessage /\ m.do = "svs" /\ ecQueue' \in Seq(EcMessage)
      /\ ToSet(ecQueue) = {m} \cup ToSet(ecQueue')
      /\ ecKnown' = ecKnown /\ ecPending' = ecPending /\ ecUnlocked' = ecUnlocked
      /\ ecModem' = ecModem /\ ecAsked' = ecAsked /\ ecTold' = ecTold /\ ecEvents' = ecEvents
  BY <1>1, EcReceives DEF EcHandleSvs
<1>5. m.id \in EcId \cup {0} /\ m.config \in EcTypeConfig /\ m.svs \in SUBSET EcSv
  BY <1>3, EcMessageKinds, EcInputAssumption
<1>6. PICK types, cur, new, left, r, c, b :
        /\ types = [ecTypes EXCEPT !["API"] = m.config]
        /\ cur = EcCombined(ecTypes) /\ new = EcCombined(types)
        /\ left = (m.config.size = 1 /\ EcEnables(cur))
        /\ r = [do |-> "reset", enabled |-> FALSE]
        /\ c = [do |-> "constellation", enabled |-> EcEnables(cur)]
        /\ b = [do |-> "blacklist", id |-> m.id, svs |-> m.svs]
  OBVIOUS
<1>7. PICK ms : ms = (IF m.config.size = 0 THEN <<r>>
                      ELSE (IF EcEnables(cur) /\ ~EcEnables(m.config) THEN <<r>> ELSE <<>>)
                             \o <<c>>)
                       \o <<b>>
  OBVIOUS
<1>8. /\ ecTypes' = types /\ ecApi' = ecApi \o ms
      /\ ecSvs' = m.svs /\ ecList' = m.svs /\ ecWanted' = m.svs
      /\ ecTrouble' = EcListTrouble("uncombined", m.svs # EcCombineBlacklist(m.svs, new))
                        \cup (IF left # EcEnables(new) THEN {"outdated"} ELSE {})
      /\ UNCHANGED <<ecAfw, ecNfw, ecConf>>
  BY <1>1, <1>6, <1>7 DEF EcHandleSvs, EcSend, ecLocks
<1>9. ecTypes' \in [EcSource -> EcTypeConfig]
  BY <1>5, <1>6, <1>8, EcTypesParts
<1>10. cur \in EcTypeConfig /\ new \in EcTypeConfig
  BY <1>6, <1>8, <1>9, EcTypesParts, EcCombinedType
<1>11. (EcOn <=> EcEnables(cur)) /\ (EcOn' <=> EcEnables(new))
  BY <1>6, <1>8 DEF EcOn
<1>12. EcExcluded' = EcCombineBlacklist(m.svs, new) /\ EcLockToSet' = EcLockToSet
  BY <1>6, <1>8 DEF EcExcluded, EcLockToSet
<1>13. /\ r \in EcApiMessage /\ r.do = "reset" /\ r \notin EcLocking /\ r \notin EcListing
       /\ r \notin EcExcluding /\ r \in EcSwitching
       /\ c \in EcApiMessage /\ c.do = "constellation" /\ c \notin EcLocking
       /\ c \notin EcListing /\ c \notin EcExcluding /\ (c \in EcSwitching <=> EcEnables(cur))
  <2>1. EcEnables(cur) \in BOOLEAN
    BY DEF EcEnables
  <2> QED BY <1>6, <2>1, EcSwitchMessage
<1>14. /\ b \in EcApiMessage /\ b.do = "blacklist" /\ b.svs = m.svs
       /\ b \notin EcLocking /\ b \notin EcSwitching /\ b \notin EcListing /\ b \in EcExcluding
  BY <1>5, <1>6, EcBlacklistMessage
<1>15. PICK a, d :
         /\ a = <<>> \/ a = <<r>>
         /\ m.config.size = 0 => a = <<r>> /\ d = <<>>
         /\ m.config.size = 1 => d = <<c>> /\ (~EcEnables(cur) => a = <<>>)
         /\ ms = (a \o d) \o <<b>>
  <2>1. EcSends(cur, m.config, r, c, b, ms)
    BY <1>5, <1>7, EcSvsSends
  <2> QED BY <2>1 DEF EcSends
<1>16. m.config.size = 0 \/ m.config.size = 1
  BY <1>5, EcTypeConfigKinds
<1>17. PICK be : be = <<b>>
  OBVIOUS
<1>18. /\ a \in Seq(EcApiMessage) /\ ToSet(a) \subseteq {r} /\ be \in Seq(EcApiMessage)
       /\ ToSet(be) = {b} /\ d \in Seq(EcApiMessage) /\ ToSet(d) \subseteq {c}
  <2>1. <<>> \in Seq(EcApiMessage) /\ ToSet(<<>>) = {}
    BY DEF ToSet
  <2>2. <<r>> \in Seq(EcApiMessage) /\ ToSet(<<r>>) = {r} /\ <<c>> \in Seq(EcApiMessage)
        /\ ToSet(<<c>>) = {c} /\ <<b>> \in Seq(EcApiMessage) /\ ToSet(<<b>>) = {b}
    BY <1>13, <1>14, ElementsOfOne
  <2> QED BY <1>15, <1>16, <1>17, <2>1, <2>2, Zenon
<1>19. a \in Seq(EcApiMessage) /\ be \in Seq(EcApiMessage) /\ d \in Seq(EcApiMessage)
  BY <1>18
<1>20. /\ ms \in Seq(EcApiMessage) /\ ToSet(ms) = ToSet(a) \cup ToSet(d) \cup ToSet(be)
       /\ \A B, G, rest : Ends(ms, B, G, rest)
                            <=> Ends(be, B, G, Ends(d, B, G, Ends(a, B, G, rest)))
  <2>2. ASSUME NEW B, NEW G, NEW rest
        PROVE  /\ (a \o d) \o be \in Seq(EcApiMessage)
               /\ ToSet((a \o d) \o be) = ToSet(a) \cup ToSet(d) \cup ToSet(be)
               /\ Ends((a \o d) \o be, B, G, rest)
                    <=> Ends(be, B, G, Ends(d, B, G, Ends(a, B, G, rest)))
    BY <1>19, EndsThree
  <2> QED BY <1>15, <1>17, <2>2, Zenon
<1>21. \A y \in ToSet(ms) : y = r \/ y = b \/ y = c
  BY <1>18, <1>20
<1>22. \A y \in ToSet(ms) : y.do # "open" /\ y \notin EcLocking /\ y \notin EcListing
  BY <1>13, <1>14, <1>21
<1>23. /\ "outdated" \notin ecTrouble' => "outdated" \notin ecTrouble /\ left = EcEnables(new)
       /\ "race" \notin ecTrouble' => ~EcListIsOnItsWay
       /\ ecTrouble' \cap EcListTroubles = {} => m.svs = EcCombineBlacklist(m.svs, new)
       /\ ecTrouble' \subseteq EcTroubles
  BY <1>8 DEF EcTypeOK, EcListTrouble, EcListTroubles, EcTroubles
<1>24. EcTypeOK'
  <2>2. ecApi' \in Seq(EcApiMessage)
    BY <1>8, <1>20, EcTypesParts
  <2> QED BY <1>3, <1>5, <1>8, <1>9, <1>23, <2>2 DEF EcTypeOK
<1>25. ~EcUpComes' =>
         Ends(ms, EcLocking, EcLockIs(EcLockToSet'), EcLockToSet' = EcLockToSet /\ ~EcUpComes)
  BY <1>3, <1>12, <1>20, <1>22, EndsAlike DEF EcUpComes
<1>26. "outdated" \notin ecTrouble' /\ (EcOn' => ~EcUpComes') =>
         Ends(ms, EcSwitching, EcSwitchIs(EcOn'),
              /\ EcOn' <=> EcOn
              /\ "outdated" \notin ecTrouble /\ (EcOn => ~EcUpComes))
  <2> SUFFICES ASSUME "outdated" \notin ecTrouble', EcOn' => ~EcUpComes'
               PROVE  Ends(ms, EcSwitching, EcSwitchIs(EcOn'),
                           /\ EcOn' <=> EcOn
                           /\ "outdated" \notin ecTrouble /\ (EcOn => ~EcUpComes))
    OBVIOUS
  <2>1. PICK rest : rest = (/\ EcOn' <=> EcOn
                            /\ "outdated" \notin ecTrouble /\ (EcOn => ~EcUpComes))
    OBVIOUS
  <2>2. PICK G : G = EcSwitchIs(EcOn')
    OBVIOUS
  <2>3. Ends(ms, EcSwitching, G, rest)
          <=> Ends(d, EcSwitching, G, Ends(a, EcSwitching, G, rest))
    BY <1>14, <1>17, <1>20, EndsOne
  <2>4. /\ EcEnables(new) => c \in G
        /\ ~EcEnables(new) => r \in G
    BY <1>6, <1>11, <1>13, <1>23, <2>2 DEF EcSwitchIs
  <2>5. CASE EcEnables(new)
    <3>1. EcEnables(cur) /\ m.config.size = 1
      BY <1>6, <1>23, <2>5
    <3>3. Ends(d, EcSwitching, G, Ends(a, EcSwitching, G, rest))
      BY <1>13, <1>15, <2>4, <2>5, <3>1, EndsOne
    <3> QED BY <2>1, <2>2, <2>3, <3>3
  <2>6. CASE ~EcEnables(new)
    <3>1. CASE m.config.size = 0
      <4>2. Ends(d, EcSwitching, G, Ends(a, EcSwitching, G, rest))
        BY <1>13, <1>15, <2>4, <2>6, <3>1, EndsOne
      <4> QED BY <2>1, <2>2, <2>3, <4>2
    <3>2. CASE m.config.size = 1
      <4>1. ~EcEnables(cur)
        BY <1>6, <1>23, <2>6, <3>2
      <4>2. rest
        BY <1>11, <1>23, <2>1, <2>6, <4>1
      <4>3. a = <<>> /\ d = <<c>>
        BY <1>15, <3>2, <4>1
      <4>5. Ends(d, EcSwitching, G, Ends(a, EcSwitching, G, rest))
        BY <1>13, <4>1, <4>2, <4>3, EndsOne
      <4> QED BY <2>1, <2>2, <2>3, <4>5
    <3> QED BY <1>16, <3>1, <3>2
  <2> QED BY <2>5, <2>6
<1>27. "race" \notin ecTrouble' =>
         Ends(ms, EcListing, EcListIs(ecWanted'),
              Ends(ecApi, EcListing, EcListIs(ecWanted'), ecSvs' = ecWanted' /\ ecList' = ecWanted'))
  BY <1>8, <1>20, <1>22, <1>23, EcListOnItsWay, EndsAlike DEF Ends, Silent
<1>28. ecTrouble' \cap EcListTroubles = {} /\ ~EcUpComes' =>
         Ends(ms, EcExcluding, EcExcludedIs(ecWanted', EcExcluded'),
              /\ ecWanted' = ecWanted /\ EcExcluded' = EcExcluded
              /\ ecTrouble \cap EcListTroubles = {} /\ ~EcUpComes)
  <2> SUFFICES ASSUME ecTrouble' \cap EcListTroubles = {}
               PROVE  Ends(ms, EcExcluding, EcExcludedIs(ecWanted', EcExcluded'),
                           /\ ecWanted' = ecWanted /\ EcExcluded' = EcExcluded
                           /\ ecTrouble \cap EcListTroubles = {} /\ ~EcUpComes)
    OBVIOUS
  <2>1. b \in EcExcludedIs(ecWanted', EcExcluded')
    BY <1>12, <1>14, <1>23 DEF EcExcludedIs
  <2>3. b \in ToSet(ms) /\ b \in EcExcluding
    BY <1>14, <1>18, <1>20
  <2> QED BY <1>13, <1>20, <1>21, <2>1, <2>3, EndsAlike
<1>29. EcKeptInv'
  <2>1. \A y \in ToSet(ms) : y.do # "open"
    BY <1>22
  <2> QED BY <1>3, <1>8, <1>20, <1>25, <1>26, <1>27, <1>28, <2>1, EcAfter
<1> QED BY <1>3, <1>24, <1>29

(* MsgHandleEngineUpEvent: everything is sent *)
LEMMA EcEngineUpHandled ==
  ASSUME EcTypeOK, EcKeptInv, EcHandleEngineUp,
         \A m \in ToSet(ecPending) : m.do # "up"
  PROVE  EcTypeOK' /\ EcKeptInv' /\ (ecPending' = ecPending \/ ecPending' = <<>>)
<1>1. PICK combined, need, none, c, x, b :
        /\ combined = EcCombined(ecTypes)
        /\ need = {"lock", "version", "server", "blacklist"} /\ none = {}
        /\ c = [do |-> "constellation", enabled |-> EcEnables(combined)]
        /\ x = [do |-> "configure", id |-> 0, items |-> need, need |-> need,
                invalid |-> none, lock |-> EcLockToSet, svs |-> ecList]
        /\ b = [do |-> "blacklist", id |-> 0, svs |-> EcCombineBlacklist(ecSvs, combined)]
  OBVIOUS
<1>2. PICK d : d = (IF combined.size = 0 THEN <<>> ELSE <<c>>)
  OBVIOUS
<1>3. PICK ms : ms = <<x, b>> \o d
  OBVIOUS
<1>4. /\ ecQueue # <<>> /\ Head(ecQueue).do = "up" /\ ecKnown' = TRUE
      /\ ecApi' = ecApi \o ms
      /\ IF ecUnlocked THEN EcFlush ELSE ecQueue' = Tail(ecQueue) /\ UNCHANGED ecPending
      /\ ecTrouble' = (ecTrouble \ {"uncombined", "enable"})
                        \cup (IF EcListIsOnItsWay THEN {"race"} ELSE {})
      /\ UNCHANGED <<ecAfw, ecNfw, ecConf, ecTypes, ecSvs, ecList, ecWanted, ecUnlocked, ecModem,
                     ecAsked, ecTold, ecEvents>>
  BY <1>1, <1>2, <1>3 DEF EcHandleEngineUp, EcSend, ecLocks, ecAnswers
<1>5. ecQueue' \in Seq(EcMessage) /\ ecPending' \in Seq(EcMessage)
      /\ (ecPending' = ecPending \/ ecPending' = <<>>)
  <2>1. ecQueue \in Seq(EcMessage) /\ ecPending \in Seq(EcMessage) /\ <<>> \in Seq(EcMessage)
    BY EcTypesParts
  <2>2. CASE ecUnlocked
    BY <1>4, <2>1, <2>2, EcFlushes, Zenon
  <2>3. CASE ~ecUnlocked
    <3>2. Tail(ecQueue) \in Seq(EcMessage)
      BY <1>4, <2>1, HeadAndTail
    <3> QED BY <1>4, <2>1, <2>3, <3>2, Zenon
  <2> QED BY <2>2, <2>3
<1>6. /\ ecTypes \in [EcSource -> EcTypeConfig] /\ ecSvs \in SUBSET EcSv /\ ecList \in SUBSET EcSv
      /\ ecConf \in SUBSET EcLock /\ ecApi \in Seq(EcApiMessage)
  BY EcTypesParts
<1>8. EcLockToSet' = EcLockToSet /\ EcOn' = EcOn /\ (EcOn <=> EcEnables(combined))
      /\ EcLockToSet \in SUBSET EcLock
  BY <1>1, <1>4, <1>6 DEF EcLockToSet, EcOn
<1>9. EcExcluded' = EcCombineBlacklist(ecWanted, combined)
  BY <1>1, <1>4 DEF EcExcluded
<1>10. /\ x \in EcApiMessage /\ x.do = "configure" /\ x.lock = EcLockToSet /\ x.svs = ecList
       /\ x \in EcLocking /\ x \notin EcSwitching /\ x \in EcListing /\ x \in EcExcluding
  <2>2. PICK lock, svs : lock = EcLockToSet /\ svs = ecList
    OBVIOUS
  <2>4. lock \in SUBSET EcLock /\ svs \in SUBSET EcSv
    BY <1>6, <1>8, <2>2
  <2> QED BY <1>1, <2>2, <2>4, EcConfigureMessage DEF EcItem
<1>11. /\ b \in EcApiMessage /\ b.do = "blacklist" /\ b.svs = EcCombineBlacklist(ecSvs, combined)
       /\ b \notin EcLocking /\ b \notin EcSwitching /\ b \notin EcListing /\ b \in EcExcluding
  <2>1. EcCombineBlacklist(ecSvs, combined) \in SUBSET EcSv /\ 0 \in EcId \cup {0}
    BY <1>6 DEF EcCombineBlacklist
  <2> QED BY <1>1, <2>1, EcBlacklistMessage
<1>12. /\ c \in EcApiMessage /\ c.do = "constellation" /\ c \notin EcLocking
       /\ c \notin EcListing /\ c \notin EcExcluding /\ (c \in EcSwitching <=> EcEnables(combined))
  <2>1. EcEnables(combined) \in BOOLEAN
    BY DEF EcEnables
  <2> QED BY <1>1, <2>1, EcSwitchMessage
<1>13. /\ d \in Seq(EcApiMessage) /\ ToSet(d) \subseteq {c}
       /\ combined.size # 0 => ToSet(d) = {c}
  <2>1. <<>> \in Seq(EcApiMessage) /\ ToSet(<<>>) = {}
    BY DEF ToSet
  <2> QED BY <1>2, <1>12, <2>1, ElementsOfOne, Zenon
<1>14. PICK xb : xb = <<x, b>>
  OBVIOUS
<1>15. xb \in Seq(EcApiMessage) /\ ToSet(xb) = {x, b}
  BY <1>10, <1>11, <1>14 DEF ToSet
<1>16. d \in Seq(EcApiMessage) /\ xb \in Seq(EcApiMessage) /\ ms = xb \o d
  BY <1>3, <1>13, <1>14, <1>15
<1>17. ms \in Seq(EcApiMessage) /\ ToSet(ms) = ToSet(xb) \cup ToSet(d)
  <2>2. xb \o d \in Seq(EcApiMessage) /\ ToSet(xb \o d) = ToSet(xb) \cup ToSet(d)
    BY <1>16, ElementsOfBoth, ConcatProperties
  <2> QED BY <1>16, <2>2, Zenon
<1>18. \A y \in ToSet(ms) : y = x \/ y = b \/ y = c
  BY <1>13, <1>15, <1>17
<1>19. x \in ToSet(ms) /\ b \in ToSet(ms)
  BY <1>15, <1>17
<1>20. /\ "outdated" \notin ecTrouble' => "outdated" \notin ecTrouble
       /\ "race" \notin ecTrouble' => "race" \notin ecTrouble /\ ~EcListIsOnItsWay
       /\ ecTrouble' \subseteq EcTroubles
  BY <1>4 DEF EcTypeOK, EcTroubles, EcListTroubles
<1>21. "race" \notin ecTrouble' => ecSvs = ecWanted /\ ecList = ecWanted
  BY <1>20, EcListOnItsWay DEF EcKeptInv, EcListKept, Ends
<1>22. EcTypeOK'
  BY <1>4, <1>5, <1>6, <1>17, <1>20 DEF EcTypeOK
<1>23. ~EcUpComes' =>
         Ends(ms, EcLocking, EcLockIs(EcLockToSet'), EcLockToSet' = EcLockToSet /\ ~EcUpComes)
  <2>2. \A y \in ToSet(ms) : y \in EcLocking => y \in EcLockIs(EcLockToSet')
    BY <1>8, <1>10, <1>11, <1>12, <1>18 DEF EcLockIs
  <2> QED BY <1>10, <1>17, <1>19, <2>2, EndsAlike
<1>24. "outdated" \notin ecTrouble' /\ (EcOn' => ~EcUpComes') =>
         Ends(ms, EcSwitching, EcSwitchIs(EcOn'),
              /\ EcOn' <=> EcOn
              /\ "outdated" \notin ecTrouble /\ (EcOn => ~EcUpComes))
  <2> SUFFICES ASSUME "outdated" \notin ecTrouble'
               PROVE  Ends(ms, EcSwitching, EcSwitchIs(EcOn'),
                           /\ EcOn' <=> EcOn
                           /\ "outdated" \notin ecTrouble /\ (EcOn => ~EcUpComes))
    OBVIOUS
  <2>1. CASE EcOn
    <3>1. combined.size # 0
      BY <1>1, <1>6, <1>8, <2>1, EcTypeConfigKinds, EcCombinedType DEF EcEnables
    <3>2. c \in EcSwitchIs(EcOn') /\ c \in EcSwitching
      BY <1>8, <1>12, <2>1 DEF EcSwitchIs
    <3>4. \A y \in ToSet(ms) : y \in EcSwitching => y \in EcSwitchIs(EcOn')
      BY <1>10, <1>11, <1>18, <3>2
    <3> QED BY <1>13, <1>17, <3>1, <3>2, <3>4, EndsAlike
  <2>2. CASE ~EcOn
    <3>1. \A y \in ToSet(ms) : y \notin EcSwitching
      BY <1>8, <1>10, <1>11, <1>12, <1>18, <2>2
    <3> QED BY <1>8, <1>17, <1>20, <2>2, <3>1, EndsAlike
  <2> QED BY <2>1, <2>2
<1>25. "race" \notin ecTrouble' =>
         Ends(ms, EcListing, EcListIs(ecWanted'),
              Ends(ecApi, EcListing, EcListIs(ecWanted'), ecSvs' = ecWanted' /\ ecList' = ecWanted'))
  <2> SUFFICES ASSUME "race" \notin ecTrouble'
               PROVE  Ends(ms, EcListing, EcListIs(ecWanted'),
                           Ends(ecApi, EcListing, EcListIs(ecWanted'),
                                ecSvs' = ecWanted' /\ ecList' = ecWanted'))
    OBVIOUS
  <2>2. \A y \in ToSet(ms) : y \in EcListing => y \in EcListIs(ecWanted')
    BY <1>4, <1>10, <1>11, <1>12, <1>18, <1>21 DEF EcListIs
  <2> QED BY <1>10, <1>17, <1>19, <2>2, EndsAlike
<1>26. ecTrouble' \cap EcListTroubles = {} /\ ~EcUpComes' =>
         Ends(ms, EcExcluding, EcExcludedIs(ecWanted', EcExcluded'),
              /\ ecWanted' = ecWanted /\ EcExcluded' = EcExcluded
              /\ ecTrouble \cap EcListTroubles = {} /\ ~EcUpComes)
  <2> SUFFICES ASSUME ecTrouble' \cap EcListTroubles = {}
               PROVE  Ends(ms, EcExcluding, EcExcludedIs(ecWanted', EcExcluded'),
                           /\ ecWanted' = ecWanted /\ EcExcluded' = EcExcluded
                           /\ ecTrouble \cap EcListTroubles = {} /\ ~EcUpComes)
    OBVIOUS
  <2>1. ecSvs = ecWanted /\ ecList = ecWanted /\ ecWanted' = ecWanted
    BY <1>4, <1>21 DEF EcListTroubles
  <2>3. \A y \in ToSet(ms) : y \in EcExcluding => y \in EcExcludedIs(ecWanted', EcExcluded')
    BY <1>9, <1>10, <1>11, <1>12, <1>18, <2>1 DEF EcExcludedIs
  <2> QED BY <1>10, <1>17, <1>19, <2>3, EndsAlike
<1>27. EcKeptInv'
  <2>1. \A y \in ToSet(ms) : y.do # "open"
    BY <1>10, <1>11, <1>12, <1>18
  <2> QED BY <1>4, <1>17, <1>23, <1>24, <1>25, <1>26, <2>1, EcAfter
<1> QED BY <1>5, <1>22, <1>27

-----------------------------------------------------------------------------
(* The thread of LocApiBase takes a message and the modem does it          *)

LEMMA EcTaken ==
  ASSUME EcTypeOK, EcKeptInv, ecApi # <<>>, NEW x, x = Head(ecApi), x.do # "open",
         ecApi' = Tail(ecApi), UNCHANGED <<ecTypes, ecLocks, ecWanted, ecTrouble>>,
         EcUpComes => EcUpComes', ecModem'.up = ecModem.up,
         ~ecModem.up => ecModem' = ecModem,
         ecModem.up => ecModem'.lock = IF x \in EcLocking THEN x.lock ELSE ecModem.lock,
         ecModem.up => (ecModem'.enabled <=> IF x \in EcSwitching THEN x.do = "constellation"
                                             ELSE ecModem.enabled),
         x \in EcListing => ecSvs' = x.svs /\ ecList' = x.svs,
         x \notin EcListing => ecSvs' = ecSvs /\ ecList' = ecList,
         ecModem.up => ecModem'.svs =
           IF x \notin EcExcluding THEN ecModem.svs
           ELSE IF x.do = "blacklist" THEN x.svs
           ELSE EcCombineBlacklist(x.svs, EcCombined(ecTypes))
  PROVE  EcKeptInv'
<1>1. ecApi \in Seq(EcApiMessage)
  BY EcTypesParts
<1>2. /\ x \in EcApiMessage /\ ecApi' \in Seq(EcApiMessage)
      /\ ToSet(ecApi) = {x} \cup ToSet(ecApi')
  BY <1>1, HeadAndTail
<1>3. EcOpening' <=> EcOpening
  BY <1>2 DEF EcOpening
<1>4. EcComes => EcComes'
  BY <1>3 DEF EcComes
<1>5. ecModem.up <=> ~EcOpening
  BY EcUpMeans DEF EcKeptInv
<1>6. /\ ecTypes' = ecTypes /\ ecAfw' = ecAfw /\ ecNfw' = ecNfw /\ ecConf' = ecConf
      /\ ecWanted' = ecWanted /\ ecTrouble' = ecTrouble
  BY DEF ecLocks
<1>7. EcLockToSet' = EcLockToSet /\ EcOn' = EcOn /\ EcExcluded' = EcExcluded
  BY <1>6 DEF EcLockToSet, EcOn, EcExcluded
<1>9. EcLockKept'
  <2> SUFFICES ASSUME ~EcComes'
               PROVE  Ends(ecApi', EcLocking, EcLockIs(EcLockToSet'), ecModem'.lock = EcLockToSet')
    BY DEF EcLockKept, EcLockIs, EcLocking
  <2>1. PICK G, rest, then : /\ G = EcLockIs(EcLockToSet)
                             /\ rest = (ecModem.lock = EcLockToSet)
                             /\ then = (ecModem'.lock = EcLockToSet)
    OBVIOUS
  <2> QED BY <1>1, <1>4, <1>5, <1>7, <2>1, EndsTail DEF EcLockIs, EcKeptInv, EcLockKept, EcComes
<1>10. EcSwitchKept'
  <2> SUFFICES ASSUME "outdated" \notin ecTrouble, EcOn => ~EcComes'
               PROVE  Ends(ecApi', EcSwitching, EcSwitchIs(EcOn), ecModem'.enabled <=> EcOn)
    BY <1>6, <1>7 DEF EcSwitchKept, EcSwitchIs, EcSwitching
  <2>1. PICK G, rest, then : /\ G = EcSwitchIs(EcOn)
                             /\ rest = (ecModem.enabled <=> EcOn)
                             /\ then = ((ecModem'.enabled <=> EcOn) \/ EcOpening')
    OBVIOUS
  <2>5. Ends(Tail(ecApi), EcSwitching, G, then)
    BY <1>1, <1>3, <1>4, <1>5, <2>1, EndsTail DEF EcKeptInv, EcSwitchKept, EcSwitchIs
  <2>6. EcOpening' => ~Silent(ecApi', EcSwitching)
    BY <1>2, SilentElements, ElementsOf DEF EcOpening, EcSwitching
  <2> QED BY <2>1, <2>5, <2>6 DEF Ends
<1>11. EcListKept'
  <2> SUFFICES ASSUME "race" \notin ecTrouble
               PROVE  Ends(ecApi', EcListing, EcListIs(ecWanted), ecSvs' = ecWanted /\ ecList' = ecWanted)
    BY <1>6 DEF EcListKept, EcListIs, EcListing
  <2>1. PICK G, rest, then : /\ G = EcListIs(ecWanted)
                             /\ rest = (ecSvs = ecWanted /\ ecList = ecWanted)
                             /\ then = (ecSvs' = ecWanted /\ ecList' = ecWanted)
    OBVIOUS
  <2> QED BY <1>1, <2>1, EndsTail DEF EcListIs, EcKeptInv, EcListKept
<1>12. EcExcludedKept'
  <2> SUFFICES ASSUME ecTrouble \cap EcListTroubles = {}, ~EcComes'
               PROVE  Ends(ecApi', EcExcluding, EcExcludedIs(ecWanted, EcExcluded),
                           ecModem'.svs = EcExcluded)
    BY <1>6, <1>7 DEF EcExcludedKept, EcExcludedIs, EcExcluding, EcListing
  <2>1. PICK G, rest, then : /\ G = EcExcludedIs(ecWanted, EcExcluded)
                             /\ rest = (ecModem.svs = EcExcluded)
                             /\ then = (ecModem'.svs = EcExcluded)
    OBVIOUS
  <2> QED BY <1>1, <1>4, <1>5, <2>1, EndsTail DEF EcExcludedIs, EcExcluded, EcKeptInv,
    EcExcludedKept, EcComes
<1> QED BY <1>1, <1>9, <1>10, <1>11, <1>12, CountTail DEF EcKeptInv, EcOpens, EcIsUp

(* The answers of the modem *)
LEMMA EcReplyIs ==
  ASSUME EcTypeOK, NEW x, x.id \in EcId \cup {0},
         NEW items \in SUBSET EcItem, NEW refused \in SUBSET EcItem,
         NEW invalid \in SUBSET EcItem
  PROVE  /\ ecQueue \o EcReply(x, items, refused, invalid) \in Seq(EcMessage)
         /\ \E r : /\ EcReply(x, items, refused, invalid) = IF x.id = 0 THEN <<>> ELSE <<r>>
                   /\ r = [do |-> "answer", id |-> x.id,
                           answer |-> [items |-> items, refused |-> refused,
                                       invalid |-> invalid, errors |-> EcErrors(items, refused)]]
                   /\ x.id # 0 => r \in EcMessage
         /\ ToSet(EcReply(x, items, refused, invalid)) \subseteq {m \in EcMessage : m.do = "answer"}
         /\ EcReply(x, items, refused, invalid) \in Seq(EcMessage)
<1>1. PICK e, w, r : /\ e = EcErrors(items, refused)
                     /\ w = [items |-> items, refused |-> refused, invalid |-> invalid,
                             errors |-> e]
                     /\ r = [do |-> "answer", id |-> x.id, answer |-> w]
  OBVIOUS
<1>2. EcReply(x, items, refused, invalid) = IF x.id = 0 THEN <<>> ELSE <<r>>
  BY <1>1 DEF EcReply
<1>3. IsFiniteSet(items)
  <2>2. IsFiniteSet({"lock"} \cup {"version"})
    BY FS_AddElement, FS_EmptySet, FS_Singleton
  <2>3. IsFiniteSet(({"lock"} \cup {"version"}) \cup {"server"})
    BY <2>2, FS_AddElement
  <2>4. IsFiniteSet((({"lock"} \cup {"version"}) \cup {"server"}) \cup {"mode"})
    BY <2>3, FS_AddElement
  <2>7. IsFiniteSet(EcItem)
    BY <2>4, FS_AddElement DEF EcItem
  <2> QED BY <2>7, FS_Subset
<1>5. e \in Seq(BOOLEAN)
  <2>1. PICK n \in Nat : n = Cardinality(items)
    BY <1>3, FS_CardinalityType
  <2>2. e = [i \in 1..n |->
               \E item \in refused : EcPlace(EcEngineOrder, EcPlaced(items), item) = i]
    BY <1>1, <2>1 DEF EcErrors
  <2> QED BY <2>2
<1>6. x.id # 0 => r \in EcMessage /\ r.do = "answer"
  BY <1>1, <1>5 DEF EcAnswer, EcMessage
<1>7. /\ EcReply(x, items, refused, invalid) \in Seq(EcMessage)
      /\ ToSet(EcReply(x, items, refused, invalid)) \subseteq {m \in EcMessage : m.do = "answer"}
  <2>3. CASE x.id = 0
    BY <1>2, <2>3 DEF ToSet
  <2>4. CASE x.id # 0
    BY <1>2, <1>6, <2>4, ElementsOfOne
  <2> QED BY <2>3, <2>4
<1>8. ecQueue \in Seq(EcMessage)
  BY EcTypesParts
<1> QED BY <1>1, <1>2, <1>6, <1>7, <1>8

LEMMA EcTakes ==
  ASSUME EcTypeOK, ecApi # <<>>
  PROVE  /\ Head(ecApi) \in EcApiMessage /\ Tail(ecApi) \in Seq(EcApiMessage)
         /\ ToSet(ecApi) = {Head(ecApi)} \cup ToSet(Tail(ecApi))
  BY EcTypesParts, HeadAndTail

(* An answer comes to the queue *)
LEMMA EcReplied ==
  ASSUME EcTypeOK, NEW r \in Seq(EcMessage), ToSet(r) \subseteq {m \in EcMessage : m.do = "answer"},
         ecQueue' = ecQueue \o r
  PROVE  ecQueue' \in Seq(EcMessage) /\ EcUpComes' = EcUpComes
  BY EcTypesParts, ElementsOfBoth, ConcatProperties DEF EcUpComes

(* gnssUpdateConfig *)
LEMMA EcConfigureDone ==
  ASSUME EcTypeOK, EcKeptInv, EcApiConfigure
  PROVE  EcTypeOK' /\ EcKeptInv' /\ ecPending' = ecPending
<1>1. PICK x : x = Head(ecApi)
  OBVIOUS
<1>2. PICK refused :
        /\ ecApi # <<>> /\ x.do = "configure" /\ ecApi' = Tail(ecApi)
        /\ ecSvs' = (IF "blacklist" \in x.items THEN x.svs ELSE ecSvs)
        /\ ecList' = (IF "blacklist" \in x.items THEN x.svs ELSE ecList)
        /\ refused \in (IF ecModem.up THEN SUBSET (x.need \cap EcPlaced(x.items) \cap EcRefusable)
                        ELSE {(x.need \cap EcPlaced(x.items)) \ {"mode"}})
        /\ ecQueue' = ecQueue \o EcReply(x, x.items, refused, x.invalid)
        /\ ecModem' = IF ~ecModem.up THEN ecModem
                      ELSE [ecModem EXCEPT
                              !.lock = IF "lock" \in x.need THEN x.lock ELSE @,
                              !.svs = IF "blacklist" \in x.items
                                      THEN EcCombineBlacklist(x.svs, EcCombined(ecTypes)) ELSE @]
        /\ UNCHANGED <<ecPending, ecKnown, ecLocks, ecTypes, ecWanted, ecTrouble, ecUnlocked,
                       ecAnswers, ecEvents>>
  BY <1>1 DEF EcApiConfigure
<1>3. x \in EcApiMessage /\ ecApi' \in Seq(EcApiMessage)
  BY <1>1, <1>2, EcTakes
<1>4. /\ x.id \in EcId \cup {0} /\ x.items \in SUBSET EcItem /\ x.need \in SUBSET EcItem
      /\ x.invalid \in SUBSET EcItem /\ x.lock \in SUBSET EcLock /\ x.svs \in SUBSET EcSv
  BY <1>2, <1>3, EcApiMessageKinds
<1>6. ecQueue' \in Seq(EcMessage) /\ EcUpComes' = EcUpComes
  <2>1. PICK r : r = EcReply(x, x.items, refused, x.invalid)
    OBVIOUS
  <2> QED BY <1>2, <1>4, <2>1, EcReplied, EcReplyIs
<1>7. /\ x \in EcLocking <=> "lock" \in x.need
      /\ x \notin EcSwitching
      /\ x \in EcListing <=> "blacklist" \in x.items
      /\ x \in EcExcluding <=> "blacklist" \in x.items
  BY <1>2, <1>3 DEF EcLocking, EcSwitching, EcListing, EcExcluding
<1>8. ecModem = [up |-> ecModem.up, lock |-> ecModem.lock, svs |-> ecModem.svs,
                 enabled |-> ecModem.enabled]
      /\ ecModem.up \in BOOLEAN /\ ecModem.lock \in SUBSET EcLock
      /\ ecModem.svs \in SUBSET EcSv /\ ecModem.enabled \in BOOLEAN
  BY EcTypesParts
<1>9. PICK lock, svs :
        /\ lock = (IF "lock" \in x.need THEN x.lock ELSE ecModem.lock)
        /\ svs = (IF "blacklist" \in x.items THEN EcCombineBlacklist(x.svs, EcCombined(ecTypes))
                  ELSE ecModem.svs)
  OBVIOUS
<1>10. ecModem.up => /\ ecModem'.up = ecModem.up /\ ecModem'.enabled = ecModem.enabled
                     /\ ecModem'.lock = lock /\ ecModem'.svs = svs
                     /\ ecModem' = [up |-> ecModem.up, lock |-> lock, svs |-> svs,
                                    enabled |-> ecModem.enabled]
  BY <1>2, <1>8, <1>9
<1>11. ~ecModem.up => ecModem' = ecModem
  BY <1>2
<1>13. ecModem' \in [up: BOOLEAN, lock: SUBSET EcLock, svs: SUBSET EcSv, enabled: BOOLEAN]
  <2>1. CASE ecModem.up
    BY <1>4, <1>8, <1>9, <1>10, <2>1 DEF EcCombineBlacklist
  <2>2. CASE ~ecModem.up
    BY <1>11, <2>2 DEF EcTypeOK
  <2> QED BY <2>1, <2>2
<1>15. EcKeptInv'
  <2>1. ecModem'.up = ecModem.up
    BY <1>10, <1>11, <1>8
  <2>2. ecModem.up => ecModem'.lock = IF x \in EcLocking THEN x.lock ELSE ecModem.lock
    BY <1>7, <1>9, <1>10
  <2>3. ecModem.up => (ecModem'.enabled <=> IF x \in EcSwitching THEN x.do = "constellation"
                                            ELSE ecModem.enabled)
    BY <1>7, <1>10
  <2>4. ecModem.up => ecModem'.svs =
          IF x \notin EcExcluding THEN ecModem.svs
          ELSE IF x.do = "blacklist" THEN x.svs
          ELSE EcCombineBlacklist(x.svs, EcCombined(ecTypes))
    BY <1>2, <1>7, <1>9, <1>10
  <2>5. /\ x \in EcListing => ecSvs' = x.svs /\ ecList' = x.svs
        /\ x \notin EcListing => ecSvs' = ecSvs /\ ecList' = ecList
    BY <1>2, <1>7
  <2>6. x.do # "open" /\ UNCHANGED <<ecTypes, ecLocks, ecWanted, ecTrouble>>
    BY <1>2
  <2> QED BY <1>1, <1>2, <1>6, <1>11, <2>1, <2>2, <2>3, <2>4, <2>5, <2>6, EcTaken
<1> QED BY <1>2, <1>3, <1>4, <1>6, <1>13, <1>15 DEF EcTypeOK, ecLocks, ecAnswers

(* The other calls *)
LEMMA EcCallDone ==
  ASSUME EcTypeOK, EcKeptInv, EcApiCall
  PROVE  EcTypeOK' /\ EcKeptInv' /\ ecPending' = ecPending
<1>1. PICK x : x = Head(ecApi)
  OBVIOUS
<1>2. PICK refused, none : refused = (IF ecModem.up THEN {} ELSE {"blacklist"}) /\ none = {}
  OBVIOUS
<1>3. /\ ecApi # <<>> /\ x.do \in {"lock", "blacklist", "constellation", "reset"}
      /\ ecApi' = Tail(ecApi)
      /\ ecModem' = IF ~ecModem.up THEN ecModem
                    ELSE CASE x.do = "lock" -> [ecModem EXCEPT !.lock = x.lock]
                           [] x.do = "blacklist" -> [ecModem EXCEPT !.svs = x.svs]
                           [] x.do = "constellation" -> [ecModem EXCEPT !.enabled = @ \/ x.enabled]
                           [] OTHER -> [ecModem EXCEPT !.enabled = FALSE]
      /\ ecQueue' = IF x.do # "blacklist" THEN ecQueue
                    ELSE ecQueue \o EcReply(x, {"blacklist"}, refused, none)
      /\ UNCHANGED <<ecPending, ecKnown, ecKept, ecUnlocked, ecAnswers, ecEvents>>
  BY <1>1, <1>2 DEF EcApiCall
<1>4. x \in EcApiMessage /\ ecApi' \in Seq(EcApiMessage)
  BY <1>1, <1>3, EcTakes
<1>5. /\ x.do = "lock" => x.lock \in SUBSET EcLock
      /\ x.do = "blacklist" => x.id \in EcId \cup {0} /\ x.svs \in SUBSET EcSv
      /\ x.do = "constellation" \/ x.do = "reset" => x.enabled \in BOOLEAN
  BY <1>4, EcApiMessageKinds
<1>6. ecQueue' \in Seq(EcMessage) /\ EcUpComes' = EcUpComes
  <2>1. CASE x.do = "blacklist"
    <3>1. PICK r : r = EcReply(x, {"blacklist"}, refused, none)
      OBVIOUS
    <3>3. r \in Seq(EcMessage) /\ ToSet(r) \subseteq {m \in EcMessage : m.do = "answer"}
      BY <1>2, <1>5, <2>1, <3>1, EcReplyIs DEF EcItem
    <3> QED BY <1>3, <2>1, <3>1, <3>3, EcReplied
  <2>2. CASE x.do # "blacklist"
    BY <1>3, <2>2, EcTypesParts DEF EcUpComes
  <2> QED BY <2>1, <2>2
<1>7. /\ x \in EcLocking <=> x.do = "lock"
      /\ x \in EcSwitching <=> x.do = "reset" \/ (x.do = "constellation" /\ x.enabled)
      /\ x \notin EcListing
      /\ x \in EcExcluding <=> x.do = "blacklist"
  BY <1>3, <1>4 DEF EcLocking, EcSwitching, EcListing, EcExcluding
<1>8. ecModem = [up |-> ecModem.up, lock |-> ecModem.lock, svs |-> ecModem.svs,
                 enabled |-> ecModem.enabled]
      /\ ecModem.up \in BOOLEAN /\ ecModem.lock \in SUBSET EcLock
      /\ ecModem.svs \in SUBSET EcSv /\ ecModem.enabled \in BOOLEAN
  BY EcTypesParts
<1>9. PICK lock, svs, enabled :
        /\ lock = (IF x.do = "lock" THEN x.lock ELSE ecModem.lock)
        /\ svs = (IF x.do = "blacklist" THEN x.svs ELSE ecModem.svs)
        /\ enabled = (IF x.do = "constellation" THEN ecModem.enabled \/ x.enabled
                      ELSE IF x.do = "reset" THEN FALSE ELSE ecModem.enabled)
  OBVIOUS
<1>10. ecModem.up => ecModem' = [up |-> ecModem.up, lock |-> lock, svs |-> svs,
                                 enabled |-> enabled]
  <2> SUFFICES ASSUME ecModem.up
               PROVE  ecModem' = [up |-> ecModem.up, lock |-> lock, svs |-> svs,
                                  enabled |-> enabled]
    OBVIOUS
  <2>1. CASE x.do = "lock"
    BY <1>3, <1>8, <1>9, <2>1
  <2>2. CASE x.do = "blacklist"
    BY <1>3, <1>8, <1>9, <2>2
  <2>3. CASE x.do = "constellation"
    BY <1>3, <1>8, <1>9, <2>3
  <2>4. CASE x.do = "reset"
    BY <1>3, <1>8, <1>9, <2>4
  <2> QED BY <1>3, <2>1, <2>2, <2>3, <2>4
<1>11. ~ecModem.up => ecModem' = ecModem
  BY <1>3
<1>13. ecModem' \in [up: BOOLEAN, lock: SUBSET EcLock, svs: SUBSET EcSv, enabled: BOOLEAN]
  <2>1. CASE ecModem.up
    <3>1. PICK isUp : isUp = ecModem.up
      OBVIOUS
    <3>3. [up |-> isUp, lock |-> lock, svs |-> svs, enabled |-> enabled]
            \in [up: BOOLEAN, lock: SUBSET EcLock, svs: SUBSET EcSv, enabled: BOOLEAN]
      BY <1>5, <1>8, <1>9, <3>1
    <3> QED BY <1>10, <2>1, <3>1, <3>3
  <2>2. CASE ~ecModem.up
    BY <1>11, <2>2 DEF EcTypeOK
  <2> QED BY <2>1, <2>2
<1>15. EcKeptInv'
  <2>1. ecModem'.up = ecModem.up
    BY <1>8, <1>10, <1>11
  <2>2. ecModem.up => ecModem'.lock = IF x \in EcLocking THEN x.lock ELSE ecModem.lock
    BY <1>7, <1>9, <1>10
  <2>3. ecModem.up => (ecModem'.enabled <=> IF x \in EcSwitching THEN x.do = "constellation"
                                            ELSE ecModem.enabled)
    BY <1>3, <1>5, <1>7, <1>9, <1>10
  <2>4. ecModem.up => ecModem'.svs =
          IF x \notin EcExcluding THEN ecModem.svs
          ELSE IF x.do = "blacklist" THEN x.svs
          ELSE EcCombineBlacklist(x.svs, EcCombined(ecTypes))
    BY <1>7, <1>9, <1>10
  <2>5. /\ x \in EcListing => ecSvs' = x.svs /\ ecList' = x.svs
        /\ x \notin EcListing => ecSvs' = ecSvs /\ ecList' = ecList
    BY <1>3, <1>7 DEF ecKept, ecLists
  <2>6. x.do # "open" /\ UNCHANGED <<ecTypes, ecLocks, ecWanted, ecTrouble>>
    BY <1>3 DEF ecKept, ecLists
  <2> QED BY <1>1, <1>3, <1>6, <1>11, <2>1, <2>2, <2>3, <2>4, <2>5, <2>6, EcTaken
<1> QED BY <1>3, <1>4, <1>6, <1>13, <1>15 DEF EcTypeOK, ecKept, ecLocks, ecLists, ecAnswers

(* LocOpenMsg: the modem is there again, and what it forgot is to come *)
LEMMA EcOpenDone ==
  ASSUME EcTypeOK, EcKeptInv, EcApiOpen
  PROVE  EcTypeOK' /\ EcKeptInv' /\ ecPending' = ecPending
<1>1. PICK x, m, trouble :
        /\ x = Head(ecApi) /\ m = [do |-> "up"]
        /\ trouble = (IF EcIsOnItsWay("constellation") THEN ecTrouble
                      ELSE ecTrouble \ {"outdated"})
  OBVIOUS
<1>2. /\ ecApi # <<>> /\ x.do = "open" /\ ecApi' = Tail(ecApi)
      /\ ecModem' = [ecModem EXCEPT !.up = TRUE, !.svs = {}, !.enabled = FALSE]
      /\ ecQueue' = Append(ecQueue, m)
      /\ ecTrouble' = trouble
      /\ UNCHANGED <<ecPending, ecKnown, ecLocks, ecTypes, ecSvs, ecList, ecWanted, ecUnlocked,
                     ecAnswers, ecEvents>>
  BY <1>1 DEF EcApiOpen
<1>3. ecApi \in Seq(EcApiMessage) /\ ecQueue \in Seq(EcMessage) /\ ecModem.lock \in SUBSET EcLock
      /\ ecModem = [up |-> ecModem.up, lock |-> ecModem.lock, svs |-> ecModem.svs,
                    enabled |-> ecModem.enabled]
  BY EcTypesParts
<1>4. /\ x \in EcApiMessage /\ ecApi' \in Seq(EcApiMessage)
      /\ ToSet(ecApi) = {x} \cup ToSet(ecApi')
  BY <1>1, <1>2, EcTakes
<1>5. m \in EcMessage /\ m.do = "up"
  BY <1>1 DEF EcMessage
<1>6. ecQueue' \in Seq(EcMessage) /\ ToSet(ecQueue') = ToSet(ecQueue) \cup {m}
  BY <1>2, <1>3, <1>5, ElementsWith
<1>7. EcComes' /\ EcUpComes'
  BY <1>5, <1>6 DEF EcComes, EcUpComes
<1>8. ecModem' = [up |-> TRUE, lock |-> ecModem.lock, svs |-> {}, enabled |-> FALSE]
  BY <1>2, <1>3
<1>9. ecModem'.up = TRUE /\ ecModem'.enabled = FALSE
  BY <1>8
<1>10. ecModem' \in [up: BOOLEAN, lock: SUBSET EcLock, svs: SUBSET EcSv, enabled: BOOLEAN]
  <2>1. PICK lock \in SUBSET EcLock : lock = ecModem.lock
    BY <1>3
  <2> QED BY <1>8, <2>1
<1>12. EcTypeOK'
  BY <1>1, <1>2, <1>4, <1>6, <1>10 DEF EcTypeOK, ecLocks, ecAnswers
<1>13. EcIsUp'
  BY <1>1, <1>2, <1>3, <1>4, <1>9, CountTail DEF EcOpens, EcKeptInv, EcIsUp
<1>16. EcSwitchKept'
  <2> SUFFICES ASSUME "outdated" \notin ecTrouble', ~EcOn
               PROVE  Ends(ecApi', EcSwitching, EcSwitchIs(FALSE), TRUE)
    BY <1>2, <1>7, <1>9 DEF EcSwitchKept, EcSwitchIs, EcSwitching, EcOn, EcEnables
  <2>2. CASE "outdated" \notin ecTrouble
    BY <1>2, <1>3, <2>2, EndsTail DEF EcKeptInv, EcSwitchKept, EcSwitchIs
  <2>3. CASE "outdated" \in ecTrouble
    <3>1. ~EcIsOnItsWay("constellation")
      BY <1>1, <1>2, <2>3
    <3>3. PICK G : G = EcSwitchIs(FALSE)
      OBVIOUS
    <3>4. \A y \in ToSet(ecApi') : y \in EcSwitching => y \in G
      BY <1>3, <1>4, <3>1, <3>3, ElementsOf DEF EcSwitchIs, EcIsOnItsWay
    <3>5. PICK q : q = ecApi'
      OBVIOUS
    <3> QED BY <1>4, <3>3, <3>4, <3>5, EndsAlike
  <2> QED BY <2>2, <2>3
<1>17. EcListKept'
  <2> SUFFICES ASSUME "race" \notin ecTrouble
               PROVE  Ends(ecApi', EcListing, EcListIs(ecWanted), ecSvs = ecWanted /\ ecList = ecWanted)
    BY <1>1, <1>2 DEF EcListKept, EcListIs, EcListing
  <2>1. PICK G, rest : G = EcListIs(ecWanted) /\ rest = (ecSvs = ecWanted /\ ecList = ecWanted)
    OBVIOUS
  <2> QED BY <1>1, <1>2, <1>3, <1>4, <2>1, EndsTail DEF EcKeptInv, EcListKept, EcSwitching,
    EcListing
<1> QED BY <1>2, <1>7, <1>12, <1>13, <1>16, <1>17 DEF EcKeptInv, EcLockKept, EcExcludedKept

(* The modem is gone, and its next coming is awaited *)
LEMMA EcDownDone ==
  ASSUME EcTypeOK, EcKeptInv, EcModemDown
  PROVE  EcTypeOK' /\ EcKeptInv' /\ ecPending' = ecPending
<1>1. PICK m : m = [do |-> "open"]
  OBVIOUS
<1>2. /\ ecModem.up /\ ecEvents < MaxEcEvents /\ ecEvents' = ecEvents + 1
      /\ ecModem' = [ecModem EXCEPT !.up = FALSE]
      /\ ecApi' = Append(ecApi, m)
      /\ UNCHANGED <<ecPending, ecKnown, ecKept, ecAnswers, ecQueue, ecUnlocked>>
  BY <1>1 DEF EcModemDown, EcEvent
<1>3. /\ m \in EcApiMessage /\ m.do = "open"
      /\ m \notin EcLocking /\ m \in EcSwitching /\ m \notin EcListing /\ m \notin EcExcluding
  BY <1>1, EcOpenMessage
<1>4. ecApi \in Seq(EcApiMessage) /\ ecModem.up \in BOOLEAN /\ ecModem.lock \in SUBSET EcLock
      /\ ecModem.svs \in SUBSET EcSv /\ ecModem.enabled \in BOOLEAN
      /\ ecModem = [up |-> ecModem.up, lock |-> ecModem.lock, svs |-> ecModem.svs,
                    enabled |-> ecModem.enabled]
  BY EcTypesParts
<1>5. PICK one : one = <<m>>
  OBVIOUS
<1>6. one \in Seq(EcApiMessage) /\ ToSet(one) = {m}
  BY <1>3, <1>5, ElementsOfOne
<1>7. ecApi' = ecApi \o one
  BY <1>2, <1>3, <1>4, <1>5, AppendIsConcat
<1>8. /\ ecApi \o one \in Seq(EcApiMessage)
      /\ ToSet(ecApi \o one) = ToSet(ecApi) \cup ToSet(one)
  BY <1>4, <1>6, ElementsOfBoth, ConcatProperties
<1>9. EcComes' /\ EcOpening'
  BY <1>3, <1>6, <1>7, <1>8 DEF EcComes, EcOpening
<1>10. ecModem' = [up |-> FALSE, lock |-> ecModem.lock, svs |-> ecModem.svs,
                   enabled |-> ecModem.enabled]
  BY <1>2, <1>4
<1>11. ecModem' \in [up: BOOLEAN, lock: SUBSET EcLock, svs: SUBSET EcSv, enabled: BOOLEAN]
  <2>1. PICK lock \in SUBSET EcLock, svs \in SUBSET EcSv, enabled \in BOOLEAN :
          lock = ecModem.lock /\ svs = ecModem.svs /\ enabled = ecModem.enabled
    BY <1>4
  <2> QED BY <1>10, <2>1
<1>12. ecEvents' \in 0..MaxEcEvents
  BY <1>2, EcBoundsAssumption DEF EcTypeOK
<1>13. EcTypeOK'
  BY <1>2, <1>7, <1>8, <1>11, <1>12 DEF EcTypeOK, ecKept, ecLocks, ecLists, ecAnswers
<1>14. EcIsUp'
  BY <1>2, <1>3, <1>4, <1>10, CountAppend DEF EcOpens, EcKeptInv, EcIsUp
<1>17. EcSwitchKept'
  <2> SUFFICES ASSUME ~EcOn'
               PROVE  Ends(ecApi', EcSwitching, EcSwitchIs(EcOn'), ecModem'.enabled <=> EcOn')
    BY <1>9 DEF EcSwitchKept, EcSwitchIs, EcSwitching
  <2>1. PICK G, rest : G = EcSwitchIs(EcOn') /\ rest = (ecModem'.enabled <=> EcOn')
    OBVIOUS
  <2>3. Ends(one, EcSwitching, G, Ends(ecApi, EcSwitching, G, rest))
    BY <1>3, <1>5, <2>1, EndsOne DEF EcSwitchIs
  <2> QED BY <1>4, <1>6, <1>7, <2>1, <2>3, EndsBoth
<1>18. EcListKept'
  <2> SUFFICES ASSUME "race" \notin ecTrouble
               PROVE  Ends(ecApi', EcListing, EcListIs(ecWanted), ecSvs = ecWanted /\ ecList = ecWanted)
    BY <1>2 DEF EcListKept, EcListIs, EcListing, ecKept, ecLists
  <2>1. PICK G, rest : G = EcListIs(ecWanted) /\ rest = (ecSvs = ecWanted /\ ecList = ecWanted)
    OBVIOUS
  <2>3. Ends(one, EcListing, G, Ends(ecApi, EcListing, G, rest))
    BY <1>3, <1>5, <2>1, EndsOne, EndsWeaker DEF EcKeptInv, EcListKept
  <2> QED BY <1>4, <1>6, <1>7, <2>1, <2>3, EndsBoth
<1> QED BY <1>2, <1>9, <1>13, <1>14, <1>17, <1>18 DEF EcKeptInv, EcLockKept, EcExcludedKept

(* At first the LocApi is to be opened *)
LEMMA EcInits ==
  ASSUME EcInit
  PROVE  EcInv
<1>1. PICK m : m = [do |-> "open"]
  OBVIOUS
<1>2. /\ m \in EcApiMessage /\ m.do = "open"
      /\ m \notin EcLocking /\ m \in EcSwitching /\ m \notin EcListing /\ m \notin EcExcluding
  BY <1>1, EcOpenMessage
<1>3. ecApi = <<m>>
  BY <1>1 DEF EcInit
<1>4. ecApi \in Seq(EcApiMessage) /\ ToSet(ecApi) = {m}
  BY <1>2, <1>3, ElementsOfOne
<1>5. /\ ecTypes \in [EcSource -> EcTypeConfig] /\ \A s \in EcSource : ecTypes[s] = EcReset
  BY DEF EcInit, EcTypeConfig
<1>6. ~EcOn
  BY <1>5 DEF EcOn, EcEnables, EcCombined, EcReset
<1>7. EcTypeOK
  <2>2. ecQueue \in Seq(EcMessage) /\ ecPending \in Seq(EcMessage)
    BY DEF EcInit
  <2>3. ecEvents \in 0..MaxEcEvents
    BY EcBoundsAssumption DEF EcInit
  <2> QED BY <1>4, <1>5, <2>2, <2>3 DEF EcTypeOK, EcInit, EcLock
<1>8. EcPendingOK
  BY DEF EcPendingOK, EcInit, ToSet
<1>9. EcOpening
  BY <1>2, <1>4 DEF EcOpening
<1>10. EcIsUp
  BY <1>2, <1>3, CountOne DEF EcIsUp, EcInit, EcOpens
<1>12. EcSwitchKept
  <2>1. PICK G, rest : G = EcSwitchIs(EcOn) /\ rest = (ecModem.enabled <=> EcOn)
    OBVIOUS
  <2> QED BY <1>2, <1>3, <1>6, <2>1, EndsOne DEF EcSwitchKept, EcSwitchIs
<1>13. EcListKept
  <2>1. PICK G, rest : G = EcListIs(ecWanted) /\ rest = (ecSvs = ecWanted /\ ecList = ecWanted)
    OBVIOUS
  <2> QED BY <1>2, <1>3, <2>1, EndsOne DEF EcListKept, EcInit
<1> QED BY <1>7, <1>8, <1>9, <1>10, <1>12, <1>13 DEF EcInv, EcKeptInv, EcLockKept,
  EcExcludedKept, EcComes

LEMMA EcStays ==
  ASSUME EcInv, [EcNext]_ecVars
  PROVE  EcInv'
<1>1. EcTypeOK /\ EcPendingOK /\ EcKeptInv
  BY DEF EcInv
<1>2. ASSUME EcTypeOK', EcKeptInv', ecPending' = ecPending \/ ecPending' = <<>>
      PROVE  EcInv'
  BY <1>1, <1>2 DEF ToSet, EcPendingOK, EcInv
<1>3. CASE EcCommands
  BY <1>1, <1>2, <1>3, EcCommandsDo, EcSame
<1>4. CASE EcMoves
  BY <1>1, <1>4, EcMovesDo, EcSame DEF EcInv
<1>5. CASE EcHandleConfig
  BY <1>1, <1>2, <1>5, EcConfigHandled
<1>6. CASE EcHandleEnable \/ EcHandleDisable \/ EcHandleNfwControl
  BY <1>1, <1>2, <1>6, EcControlsHandled
<1>7. CASE EcHandleTypes
  BY <1>1, <1>2, <1>7, EcTypesHandled
<1>8. CASE EcHandleSvs
  BY <1>1, <1>2, <1>8, EcSvsHandled
<1>9. CASE EcHandleEngineUp
  BY <1>1, <1>2, <1>9, EcEngineUpHandled DEF EcPendingOK
<1>10. CASE EcApiConfigure
  BY <1>1, <1>2, <1>10, EcConfigureDone
<1>11. CASE EcApiCall
  BY <1>1, <1>2, <1>11, EcCallDone
<1>12. CASE EcApiOpen
  BY <1>1, <1>2, <1>12, EcOpenDone
<1>13. CASE EcModemDown
  BY <1>1, <1>2, <1>13, EcDownDone
<1>14. CASE UNCHANGED ecVars
  <2>1. /\ UNCHANGED <<ecApi, ecModem, ecKept>> /\ ecQueue' = ecQueue /\ ecPending' = ecPending
        /\ UNCHANGED <<ecKnown, ecUnlocked, ecAnswers, ecEvents>>
    BY <1>14 DEF ecVars
  <2>3. EcTypeOK'
    BY <1>1, <2>1 DEF EcTypeOK, ecKept, ecLocks, ecLists, ecAnswers
  <2> QED BY <1>1, <1>2, <2>1, <2>3, EcSame DEF EcUpComes
<1> QED BY <1>3, <1>4, <1>5, <1>6, <1>7, <1>8, <1>9, <1>10, <1>11, <1>12, <1>13, <1>14
       DEF EcNext, EcCommands, EcMoves

(* When nothing is on its way, the last word is what the modem goes by *)
LEMMA EcSettles ==
  ASSUME EcInv
  PROVE  EngineIsConfigured
<1> SUFFICES ASSUME ecQueue = <<>>, ecApi = <<>>
             PROVE  /\ ecModem.lock = EcLockToSet
                    /\ ecTrouble \cap EcListTroubles = {} =>
                         /\ ecSvs = ecWanted /\ ecList = ecWanted
                         /\ ecModem.svs = EcExcluded
                    /\ "outdated" \notin ecTrouble => ecModem.enabled = EcOn
  BY DEF EngineIsConfigured, EcExcluded, EcCombineBlacklist, EcOn
<1>2. ~EcComes
  BY DEF EcComes, EcOpening, EcUpComes, ToSet
<1>3. \A B, G, rest : Ends(<<>>, B, G, rest) <=> (rest <=> TRUE)
  BY DEF Ends, Silent
<1>5. ASSUME "outdated" \notin ecTrouble PROVE ecModem.enabled = EcOn
  <2>1. ecModem.enabled <=> EcOn
    BY <1>2, <1>3, <1>5 DEF EcInv, EcKeptInv, EcSwitchKept
  <2> QED BY <2>1, EcTypesParts DEF EcInv, EcOn, EcEnables
<1>6. ASSUME ecTrouble \cap EcListTroubles = {}
      PROVE  ecSvs = ecWanted /\ ecList = ecWanted /\ ecModem.svs = EcExcluded
  BY <1>2, <1>3, <1>6 DEF EcListTroubles, EcInv, EcKeptInv, EcListKept, EcExcludedKept
<1> QED BY <1>2, <1>3, <1>5, <1>6 DEF EcInv, EcKeptInv, EcLockKept

-----------------------------------------------------------------------------
(* The messages of EngineCommands                                          *)

LEMMA EdMessageKinds ==
  ASSUME NEW m \in EdMessage
  PROVE  /\ m.do \in {"set", "keys", "pause", "engine", "answer", "up", "capabilities"}
         /\ m.do \notin {"up", "capabilities"} => m.id \in EdId
         /\ m.do = "set" => m.setting \in EdSetting
         /\ m.do = "keys" => m.keys \in {1, 2}
         /\ m.do = "pause" \/ m.do = "engine" => m.agrees \in BOOLEAN
         /\ m.do = "answer" => m.left \in {0, 1} /\ m.took \in BOOLEAN
<1>2. CASE m \in [do: {"set"}, id: EdId, setting: EdSetting]
  BY <1>2
<1>3. CASE m \in [do: {"keys"}, id: EdId, keys: {1, 2}]
  BY <1>3
<1>4. CASE m \in [do: {"pause", "engine"}, id: EdId, agrees: BOOLEAN]
  BY <1>4
<1>5. CASE m \in [do: {"answer"}, id: EdId, left: {0, 1}, took: BOOLEAN]
  BY <1>5
<1>6. CASE m \in [do: {"up", "capabilities"}]
  BY <1>6
<1> QED BY <1>2, <1>3, <1>4, <1>5, <1>6 DEF EdMessage

LEMMA EdApiMessageKinds ==
  ASSUME NEW m \in EdApiMessage
  PROVE  /\ m.do \in {"set", "key", "config", "open"}
         /\ m.do = "set" => /\ m.id \in EdId \cup {0} /\ m.setting \in EdSetting
                            /\ m.value \in EdValue
         /\ m.do = "key" => m.id \in EdId /\ m.left \in {0, 1}
         /\ m.do = "config" => /\ m.left \in SUBSET EdFromConf
                               /\ m = [do |-> "config", left |-> m.left]
<1>2. CASE m \in [do: {"set"}, id: EdId \cup {0}, setting: EdSetting, value: EdValue]
  BY <1>2
<1>3. CASE m \in [do: {"key"}, id: EdId, left: {0, 1}]
  BY <1>3
<1>4. CASE m \in [do: {"config"}, left: SUBSET EdFromConf]
  BY <1>4
<1>5. CASE m \in [do: {"open"}]
  BY <1>5
<1> QED BY <1>2, <1>3, <1>4, <1>5 DEF EdApiMessage

(* A command, an answer, and what a command sends *)
LEMMA EdMessageMade ==
  ASSUME NEW id \in EdId
  PROVE  /\ \A s \in EdSetting : [do |-> "set", id |-> id, setting |-> s] \in EdMessage
         /\ \A keys \in {1, 2} : [do |-> "keys", id |-> id, keys |-> keys] \in EdMessage
         /\ \A agrees \in BOOLEAN :
              /\ [do |-> "pause", id |-> id, agrees |-> agrees] \in EdMessage
              /\ [do |-> "engine", id |-> id, agrees |-> agrees] \in EdMessage
         /\ \A left \in {0, 1}, took \in BOOLEAN :
              [do |-> "answer", id |-> id, left |-> left, took |-> took] \in EdMessage
         /\ \A left \in {0, 1} : [do |-> "key", id |-> id, left |-> left] \in EdApiMessage
<1>1. ASSUME NEW s \in EdSetting PROVE [do |-> "set", id |-> id, setting |-> s] \in EdMessage
  BY DEF EdMessage
<1>2. ASSUME NEW keys \in {1, 2} PROVE [do |-> "keys", id |-> id, keys |-> keys] \in EdMessage
  BY DEF EdMessage
<1>3. ASSUME NEW agrees \in BOOLEAN
      PROVE  /\ [do |-> "pause", id |-> id, agrees |-> agrees] \in EdMessage
             /\ [do |-> "engine", id |-> id, agrees |-> agrees] \in EdMessage
  BY DEF EdMessage
<1>4. ASSUME NEW left \in {0, 1}, NEW took \in BOOLEAN
      PROVE  [do |-> "answer", id |-> id, left |-> left, took |-> took] \in EdMessage
  BY DEF EdMessage
<1>5. ASSUME NEW left \in {0, 1} PROVE [do |-> "key", id |-> id, left |-> left] \in EdApiMessage
  BY DEF EdApiMessage
<1> QED BY <1>1, <1>2, <1>3, <1>4, <1>5

LEMMA EdSetMade ==
  ASSUME NEW id \in EdId \cup {0}, NEW s \in EdSetting, NEW value \in EdValue,
         NEW m, m = [do |-> "set", id |-> id, setting |-> s, value |-> value]
  PROVE  m \in EdApiMessage /\ m.do = "set" /\ m.id = id /\ m.setting = s /\ m.value = value
  BY DEF EdApiMessage

LEMMA EdConfigMade ==
  ASSUME NEW left \in SUBSET EdFromConf, NEW m, m = [do |-> "config", left |-> left]
  PROVE  m \in EdApiMessage /\ m.do = "config" /\ m.left = left
  BY DEF EdApiMessage

LEMMA EdTypesParts ==
  ASSUME EdTypeOK
  PROVE  /\ edQueue \in Seq(EdMessage) /\ edApi \in Seq(EdApiMessage)
         /\ edStored \in [EdSetting -> SUBSET EdValue] /\ edModem \in [EdSetting -> SUBSET EdValue]
         /\ edFound \in SUBSET EdFromConf /\ edTimerId \in EdId \cup {0}
         /\ edCaller \in {"away", "opening", "done"}
         /\ edUp \in BOOLEAN /\ edRunning \in BOOLEAN /\ edFired \in BOOLEAN
         /\ edIsOpen \in BOOLEAN /\ edKnown \in BOOLEAN /\ edCorr \in BOOLEAN
         /\ edEvents \in 0..MaxEdEvents
         /\ edWanted \in [EdSetting -> EdValue] /\ edRaced \in SUBSET EdSetting
         /\ edRefused \in SUBSET (EdSetting \X EdValue)
         /\ edTold \in [EdId -> Nat]
         /\ edAsked \in SUBSET EdId /\ edAgreed \in SUBSET EdId /\ edDone \in SUBSET EdId
         /\ edLapped \in SUBSET EdId
  BY DEF EdTypeOK

(* What is taken from either queue, and what is put into it *)
LEMMA EdTakes ==
  ASSUME EdTypeOK
  PROVE  /\ edQueue # <<>> =>
              /\ Head(edQueue) \in EdMessage /\ Tail(edQueue) \in Seq(EdMessage)
              /\ ToSet(edQueue) = {Head(edQueue)} \cup ToSet(Tail(edQueue))
         /\ edApi # <<>> =>
              /\ Head(edApi) \in EdApiMessage /\ Tail(edApi) \in Seq(EdApiMessage)
              /\ ToSet(edApi) = {Head(edApi)} \cup ToSet(Tail(edApi))
  BY EdTypesParts, HeadAndTail

LEMMA EdPuts ==
  ASSUME EdTypeOK
  PROVE  /\ \A m \in EdMessage : /\ Append(edQueue, m) \in Seq(EdMessage)
                                 /\ ToSet(Append(edQueue, m)) = ToSet(edQueue) \cup {m}
         /\ \A m \in EdApiMessage : /\ Append(edApi, m) \in Seq(EdApiMessage)
                                    /\ ToSet(Append(edApi, m)) = ToSet(edApi) \cup {m}
  BY EdTypesParts, ElementsWith, AppendProperties

EdCommands ==
  \/ \E s \in EdSetting : EdSetCommand(s)
  \/ \E keys \in {1, 2} : EdKeysCommand(keys)
  \/ \E agrees \in BOOLEAN : EdPauseCommand(agrees)
  \/ \E agrees \in BOOLEAN : EdEngineCommand(agrees)

EdNewId == edEvents + 1

LEMMA EdCommandIs ==
  ASSUME EdTypeOK, EdCommands
  PROVE  /\ EdNewId \in EdId
         /\ \E m \in EdMessage :
              /\ m.do \in {"set", "keys", "pause", "engine"} /\ m.id = EdNewId
              /\ EdCommand(m)
<1>1. ASSUME NEW m, EdCommand(m) PROVE EdNewId \in EdId
  BY <1>1, EdAssumption DEF EdCommand, EdTypeOK, EdId, EdNewId
<1>2. CASE \E s \in EdSetting : EdSetCommand(s)
  <2>1. PICK s \in EdSetting : EdSetCommand(s)
    BY <1>2
  <2>2. PICK m : m = [do |-> "set", id |-> EdNewId, setting |-> s]
    OBVIOUS
  <2> QED BY <1>1, <2>1, <2>2, EdMessageMade DEF EdSetCommand, EdNewId
<1>3. CASE \E keys \in {1, 2} : EdKeysCommand(keys)
  <2>1. PICK keys \in {1, 2} : EdKeysCommand(keys)
    BY <1>3
  <2>2. PICK m : m = [do |-> "keys", id |-> EdNewId, keys |-> keys]
    OBVIOUS
  <2> QED BY <1>1, <2>1, <2>2, EdMessageMade DEF EdKeysCommand, EdNewId
<1>4. CASE \E agrees \in BOOLEAN : EdPauseCommand(agrees)
  <2>1. PICK agrees \in BOOLEAN : EdPauseCommand(agrees)
    BY <1>4
  <2>2. PICK m : m = [do |-> "pause", id |-> EdNewId, agrees |-> agrees]
    OBVIOUS
  <2> QED BY <1>1, <2>1, <2>2, EdMessageMade DEF EdPauseCommand, EdNewId
<1>5. CASE \E agrees \in BOOLEAN : EdEngineCommand(agrees)
  <2>1. PICK agrees \in BOOLEAN : EdEngineCommand(agrees)
    BY <1>5
  <2>2. PICK m : m = [do |-> "engine", id |-> EdNewId, agrees |-> agrees]
    OBVIOUS
  <2> QED BY <1>1, <2>1, <2>2, EdMessageMade DEF EdEngineCommand, EdNewId
<1> QED BY <1>2, <1>3, <1>4, <1>5 DEF EdCommands

(* A timer that runs or has expired has an id *)
EdTimerOK == edRunning \/ edFired => edTimerId # 0

(* What is said of the settings and of the measurement corrections while   *)
(* an action only answers, waits or comes                                  *)
EdOthersMove ==
  \/ EdHandleEngine \/ EdHandlePause \/ EdHandleCapabilities
  \/ EdTimeout \/ EdTimeOutCallback \/ EdOpen \/ EdOpened

LEMMA EdAnswersDo ==
  ASSUME EdTypeOK, NEW id \in EdId, NEW agrees, EdAnswer(id, agrees)
  PROVE  edTold' \in [EdId -> Nat] /\ edAgreed' \in SUBSET EdId
  BY EdTypesParts DEF EdAnswer

LEMMA EdHeadDo ==
  ASSUME EdTypeOK, NEW do, EdReceive(do)
  PROVE  /\ edQueue # <<>> /\ Head(edQueue).do = do /\ Head(edQueue) \in EdMessage
         /\ edQueue' = Tail(edQueue) /\ edQueue' \in Seq(EdMessage)
         /\ ToSet(edQueue) = {Head(edQueue)} \cup ToSet(edQueue')
  BY EdTakes DEF EdReceive

LEMMA EdOthersTypes ==
  ASSUME EdTypeOK, EdTimerOK, EdOthersMove
  PROVE  /\ EdTypeOK' /\ EdTimerOK' /\ UNCHANGED <<edApi, edKept, edFound, edUp, edModem, edRefused>>
         /\ {m \in ToSet(edQueue') : m.do = "up"} = {m \in ToSet(edQueue) : m.do = "up"}
<1> USE DEF edKept, edTimer, edCorrections, edEngine, edAnswers
<1>1. PICK m : m = Head(edQueue)
  OBVIOUS
<1>2. CASE EdHandleEngine
  <2>1. /\ EdReceive("engine") /\ EdAnswer(m.id, m.agrees)
        /\ edDone' = (IF m.agrees THEN edDone \cup {m.id} ELSE edDone)
        /\ UNCHANGED <<edApi, edKept, edFound, edUp, edModem, edRefused, edTimer,
                       edCorrections, edEvents, edAsked>>
    BY <1>1, <1>2, Zenon DEF EdHandleEngine, EdDoes
  <2>2. /\ m.do = "engine" /\ m \in EdMessage /\ edQueue' \in Seq(EdMessage)
        /\ ToSet(edQueue) = {m} \cup ToSet(edQueue')
    BY <1>1, <2>1, EdHeadDo
  <2> QED BY <2>1, <2>2, EdAnswersDo, EdMessageKinds DEF EdTypeOK, EdTimerOK
<1>3. CASE EdHandlePause
  <2>1. /\ EdReceive("pause")
        /\ edDone' = (IF m.agrees THEN edDone \cup {m.id} ELSE edDone)
        /\ edTimerId' = m.id /\ edRunning' = TRUE /\ edFired' = edFired
        /\ edLapped' = IF edRunning \/ edFired THEN edLapped \cup {edTimerId, m.id} ELSE edLapped
        /\ UNCHANGED <<edApi, edKept, edFound, edUp, edModem, edRefused, edCorrections, edEvents,
                       edAsked, edAnswers>>
    BY <1>1, <1>3, Zenon DEF EdHandlePause, EdDoes, EdStartTimer
  <2>2. /\ m.do = "pause" /\ m \in EdMessage /\ edQueue' \in Seq(EdMessage)
        /\ ToSet(edQueue) = {m} \cup ToSet(edQueue')
    BY <1>1, <2>1, EdHeadDo
  <2> QED BY <2>1, <2>2, EdMessageKinds DEF EdTypeOK, EdTimerOK, EdId
<1>4. CASE EdHandleCapabilities
  BY <1>1, <1>4, EdHeadDo DEF EdHandleCapabilities, EdTypeOK, EdTimerOK
<1>5. CASE EdTimeout
  BY <1>5 DEF EdTimeout, EdTypeOK, EdTimerOK
<1>6. CASE EdTimeOutCallback
  BY <1>6, EdTypesParts, EdAnswersDo DEF EdTimeOutCallback, EdTimerOK, EdTypeOK
<1>7. CASE EdOpen
  BY <1>7 DEF EdOpen, EdTypeOK, EdTimerOK
<1>8. CASE EdOpened
  <2>1. PICK c : c = EdCapabilities
    OBVIOUS
  <2> QED BY <1>8, <2>1, EdPuts DEF EdTypeOK, EdTimerOK, EdOpened, EdCapabilities, EdMessage
<1> QED BY <1>2, <1>3, <1>4, <1>5, <1>6, <1>7, <1>8 DEF EdOthersMove
-----------------------------------------------------------------------------
(* What holds of the settings between messages                             *)

(* The messages that have a word on a setting, and which of them are right *)
EdSays(s) ==
  {m \in EdApiMessage :
     \/ m.do = "set" /\ m.setting = s
     \/ m.do = "config" /\ s \in m.left}
EdSaysRight(s, value) ==
  {m \in EdSays(s) : m.do = "set" => m.value = value /\ value # EdConf}

EdKeptOf(s, value) == IF s \in EdOther /\ value = EdConf THEN {} ELSE {value}
EdSettled(s) ==
  /\ edStored[s] = EdKeptOf(s, edWanted[s])
  /\ edModem[s] = edStored[s] \/ <<s, edWanted[s]>> \in edRefused

(* The modem is about to be told everything *)
EdOpening == \E m \in ToSet(edApi) : m.do = "open"
EdUps == {m \in ToSet(edQueue) : m.do = "up"}
EdComes == EdOpening \/ EdUps # {}

EdTypeInv == EdTypeOK /\ EdTimerOK

EdFoundOK ==
  /\ edFound # {} => /\ edApi # <<>> /\ Head(edApi).do = "config"
                     /\ edFound \subseteq Head(edApi).left
  /\ \A s \in edFound \ edRaced : edWanted[s] = EdConf
  /\ edRaced \subseteq EdFromConf
EdStoredKept ==
  \A s \in EdSetting \ edRaced :
    IF edWanted[s] # EdConf THEN edStored[s] = {edWanted[s]}
    ELSE edStored[s] \subseteq EdKeptOf(s, EdConf)
EdOtherKept ==
  \A s \in EdOther : edWanted[s] = EdConf => edModem[s] = {} /\ Silent(edApi, EdSays(s))
EdWordsKept ==
  ~EdComes =>
    \A s \in EdSetting \ edRaced :
      Ends(edApi, EdSays(s), EdSaysRight(s, edWanted[s]), EdSettled(s))
EdKeptInv == EdFoundOK /\ EdStoredKept /\ EdOtherKept /\ EdWordsKept
EdInv == EdTypeInv /\ EdKeptInv

LEMMA EdKeyIs ==
  ASSUME NEW m \in EdApiMessage, m.do = "key" \/ m.do = "open", NEW s
  PROVE  m \notin EdSays(s)
  BY DEF EdSays

(* Something else than a setting is put at the end *)
LEMMA EndsAppend ==
  ASSUME NEW S, NEW q \in Seq(S), NEW m \in S, NEW B, m \notin B, NEW G, NEW rest
  PROVE  /\ Ends(Append(q, m), B, G, rest) <=> Ends(q, B, G, rest)
         /\ Silent(Append(q, m), B) <=> Silent(q, B)
<1>1. PICK one : one = <<m>>
  OBVIOUS
<1>2. one \in Seq(S)
  BY <1>1
<1>3. Append(q, m) = q \o one
  BY <1>1, AppendIsConcat
<1>4. Ends(q \o one, B, G, rest) <=> Ends(one, B, G, Ends(q, B, G, rest))
  BY <1>2, EndsBoth
<1>6. Ends(q, B, G, rest) \in BOOLEAN
  BY DEF Ends
<1> QED BY <1>1, <1>3, <1>4, <1>6, EndsOne DEF Silent

LEMMA EndsAppended ==
  ASSUME NEW S, NEW q \in Seq(S), NEW m \in S, NEW B, NEW G, m \in B, m \in G, NEW rest
  PROVE  Ends(Append(q, m), B, G, rest)
<1>1. PICK one : one = <<m>>
  OBVIOUS
<1>2. one \in Seq(S)
  BY <1>1
<1>3. Append(q, m) = q \o one
  BY <1>1, AppendIsConcat
<1> QED BY <1>1, <1>2, <1>3, EndsBoth, EndsOne

(* What has no word on settings may come to the end, and the rest stays *)
LEMMA EdPassed ==
  ASSUME EdTypeOK, EdKeptInv, UNCHANGED <<edKept, edFound, edModem, edRefused>>,
         EdComes => EdComes',
         edApi' = edApi \/ \E m \in EdApiMessage : m.do = "key" /\ edApi' = Append(edApi, m)
  PROVE  EdKeptInv'
<1>1. /\ edStored' = edStored /\ edWanted' = edWanted /\ edRaced' = edRaced
      /\ edFound' = edFound /\ edModem' = edModem /\ edRefused' = edRefused
  BY DEF edKept
<1>2. edApi \in Seq(EdApiMessage)
  BY EdTypesParts
<1>4. \A s, G, rest : /\ Ends(edApi', EdSays(s), G, rest) <=> Ends(edApi, EdSays(s), G, rest)
                      /\ Silent(edApi', EdSays(s)) <=> Silent(edApi, EdSays(s))
  <2>1. CASE edApi' = edApi
    BY <2>1
  <2>2. ASSUME NEW m \in EdApiMessage, m.do = "key", edApi' = Append(edApi, m)
        PROVE  \A s, G, rest :
                 /\ Ends(edApi', EdSays(s), G, rest) <=> Ends(edApi, EdSays(s), G, rest)
                 /\ Silent(edApi', EdSays(s)) <=> Silent(edApi, EdSays(s))
    <3> TAKE s, G, rest
    <3>1. PICK B : B = EdSays(s)
      OBVIOUS
    <3> QED BY <1>2, <2>2, <3>1, EndsAppend, EdKeyIs
  <2> QED BY <2>1, <2>2
<1>5. EdFoundOK'
  BY <1>1, <1>2, AppendProperties DEF EdFoundOK, EdKeptInv
<1>8. EdWordsKept'
  <2> SUFFICES ASSUME ~EdComes', NEW s \in EdSetting \ edRaced
               PROVE  Ends(edApi', EdSays(s), EdSaysRight(s, edWanted[s]), EdSettled(s)')
    BY <1>1 DEF EdWordsKept, EdSays, EdSaysRight
  <2> QED BY <1>1, <1>4, EndsWeaker DEF EdKeptInv, EdWordsKept, EdSettled
<1> QED BY <1>1, <1>4, <1>5, <1>8 DEF EdKeptInv, EdStoredKept, EdOtherKept, EdSays

(* A message is taken that has no word on a setting that is settled *)
LEMMA EdTaken ==
  ASSUME EdTypeOK, EdKeptInv, edApi # <<>>, edApi' = Tail(edApi),
         edFound = {}, UNCHANGED <<edKept, edFound>>, EdComes => EdComes',
         NEW x, x = Head(edApi),
         \A s \in EdSetting : x \notin EdSays(s) =>
            /\ edModem'[s] = edModem[s]
            /\ \A v : <<s, v>> \in edRefused' <=> <<s, v>> \in edRefused,
         ~EdComes => \A s \in EdSetting \ edRaced :
            x \in EdSays(s) /\ x \in EdSaysRight(s, edWanted[s]) => EdSettled(s)'
  PROVE  EdKeptInv'
<1>1. /\ edStored' = edStored /\ edWanted' = edWanted /\ edRaced' = edRaced
      /\ edFound' = {}
  BY DEF edKept
<1>2. /\ x \in EdApiMessage /\ edApi \in Seq(EdApiMessage) /\ edApi' \in Seq(EdApiMessage)
      /\ ToSet(edApi) = {x} \cup ToSet(edApi')
  BY EdTakes, EdTypesParts
<1>5. EdOtherKept'
  <2> SUFFICES ASSUME NEW s \in EdOther, edWanted[s] = EdConf
               PROVE  edModem'[s] = {} /\ Silent(edApi', EdSays(s))
    BY <1>1 DEF EdOtherKept, EdSays
  <2>1. edModem[s] = {} /\ Silent(edApi, EdSays(s))
    BY DEF EdOtherKept, EdKeptInv
  <2>2. PICK B : B = EdSays(s)
    OBVIOUS
  <2>3. \A y \in ToSet(edApi) : y \notin B
    BY <1>2, <2>1, <2>2, SilentElements
  <2> QED BY <1>2, <2>1, <2>2, <2>3, SilentElements DEF EdSetting
<1>6. EdWordsKept'
  <2> SUFFICES ASSUME ~EdComes', NEW s \in EdSetting \ edRaced
               PROVE  Ends(edApi', EdSays(s), EdSaysRight(s, edWanted[s]), EdSettled(s)')
    BY <1>1 DEF EdWordsKept, EdSays, EdSaysRight
  <2>1. PICK B, G, rest, then : /\ B = EdSays(s) /\ G = EdSaysRight(s, edWanted[s])
                                /\ rest = EdSettled(s) /\ then = EdSettled(s)'
    OBVIOUS
  <2> QED BY <1>1, <1>2, <2>1, EndsTail DEF EdSettled, EdKeptInv, EdWordsKept
<1> QED BY <1>1, <1>5, <1>6 DEF EdKeptInv, EdStoredKept, EdFoundOK

-----------------------------------------------------------------------------
(* The actions                                                             *)

LEMMA EdCommandsDone ==
  ASSUME EdInv, EdCommands
  PROVE  EdInv'
<1>1. EdTypeOK /\ EdTimerOK /\ EdKeptInv
  BY DEF EdInv, EdTypeInv
<1>2. PICK m \in EdMessage : /\ m.do \in {"set", "keys", "pause", "engine"} /\ m.id = EdNewId
                             /\ EdCommand(m)
  BY <1>1, EdCommandIs
<1>3. /\ EdNewId \in EdId /\ m.do # "up"
  BY <1>1, <1>2, EdCommandIs
<1>4. /\ edEvents < MaxEdEvents /\ edEvents' = edEvents + 1
      /\ edQueue' = Append(edQueue, m) /\ edAsked' = edAsked \cup {m.id}
      /\ UNCHANGED <<edApi, edKept, edFound, edEngine, edTimer, edCorrections, edAnswers>>
  BY <1>2 DEF EdCommand
<1>5. edQueue' \in Seq(EdMessage) /\ ToSet(edQueue') = ToSet(edQueue) \cup {m}
  BY <1>1, <1>4, EdPuts
<1>6. edEvents' \in 0..MaxEdEvents /\ edAsked' \in SUBSET EdId
  BY <1>1, <1>2, <1>3, <1>4, EdAssumption DEF EdTypeOK
<1>7. EdTypeInv'
  BY <1>1, <1>4, <1>5, <1>6
     DEF EdTypeInv, EdTypeOK, EdTimerOK, edKept, edEngine, edTimer, edCorrections, edAnswers
<1> QED BY <1>1, <1>3, <1>4, <1>5, <1>7, EdPassed DEF EdInv, edEngine, EdComes, EdUps, EdOpening

LEMMA EdOthersDone ==
  ASSUME EdInv, EdOthersMove
  PROVE  EdInv'
  BY EdOthersTypes, EdPassed DEF EdInv, EdTypeInv, EdComes, EdUps, EdOpening

LEMMA EdKeysDone ==
  ASSUME EdInv, EdHandleKeys \/ EdHandleAnswer
  PROVE  EdInv'
<1>1. EdTypeOK /\ EdTimerOK /\ EdKeptInv
  BY DEF EdInv, EdTypeInv
<1>2. PICK m : m = Head(edQueue)
  OBVIOUS
<1>3. /\ m.id \in EdId /\ m.do \in {"keys", "answer"}
      /\ m.do = "answer" => m.left \in {0, 1} /\ m.took \in BOOLEAN
      /\ m.do = "keys" => m.keys \in {1, 2}
      /\ edQueue' \in Seq(EdMessage) /\ ToSet(edQueue) = {m} \cup ToSet(edQueue')
  BY <1>1, <1>2, EdHeadDo, EdMessageKinds DEF EdHandleKeys, EdHandleAnswer
<1>4. /\ UNCHANGED <<edKept, edFound, edEngine, edTimer, edCorrections, edEvents, edAsked>>
      /\ \/ edApi' = edApi /\ EdAnswer(m.id, m.took)
         \/ \E left \in {0, 1} :
              edApi' = Append(edApi, [do |-> "key", id |-> m.id, left |-> left])
              /\ UNCHANGED edAnswers
  <2>1. CASE EdHandleKeys
    BY <1>1, <1>2, <1>3, <2>1, EdHeadDo DEF EdHandleKeys
  <2>2. CASE EdHandleAnswer
    BY <1>1, <1>2, <1>3, <2>2, EdHeadDo DEF EdHandleAnswer
  <2> QED BY <2>1, <2>2
<1>5. /\ edApi' = edApi \/ \E x \in EdApiMessage : x.do = "key" /\ edApi' = Append(edApi, x)
      /\ edTold' \in [EdId -> Nat] /\ edAgreed' \in SUBSET EdId
  <2>1. CASE edApi' = edApi /\ EdAnswer(m.id, m.took)
    BY <1>1, <1>3, <2>1, EdAnswersDo
  <2>2. ASSUME NEW left \in {0, 1}, UNCHANGED edAnswers,
               edApi' = Append(edApi, [do |-> "key", id |-> m.id, left |-> left])
        PROVE  /\ \E x \in EdApiMessage : x.do = "key" /\ edApi' = Append(edApi, x)
               /\ edTold' \in [EdId -> Nat] /\ edAgreed' \in SUBSET EdId
    BY <1>1, <1>3, <2>2, EdMessageMade DEF edAnswers, EdTypeOK
  <2> QED BY <1>4, <2>1, <2>2
<1>6. /\ edApi' \in Seq(EdApiMessage)
      /\ {x \in ToSet(edApi') : x.do = "open"} = {x \in ToSet(edApi) : x.do = "open"}
  <2>1. CASE edApi' = edApi
    BY <1>1, <2>1 DEF EdTypeOK
  <2>2. ASSUME NEW x \in EdApiMessage, x.do = "key", edApi' = Append(edApi, x)
        PROVE  /\ edApi' \in Seq(EdApiMessage)
               /\ {y \in ToSet(edApi') : y.do = "open"} = {y \in ToSet(edApi) : y.do = "open"}
    BY <1>1, <2>2, EdPuts
  <2> QED BY <1>5, <2>1, <2>2
<1>7. EdTypeInv'
  BY <1>1, <1>3, <1>4, <1>5, <1>6
     DEF EdTypeInv, EdTypeOK, EdTimerOK, edKept, edEngine, edTimer, edCorrections
<1>9. EdKeptInv'
  BY <1>1, <1>3, <1>4, <1>5, <1>6, EdPassed DEF edEngine, EdUps, EdOpening, EdComes
<1> QED BY <1>7, <1>9 DEF EdInv

(* A command sets: what is kept, and the last word, is its value *)
LEMMA EdSetDone ==
  ASSUME EdInv, EdHandleSet
  PROVE  EdInv'
<1>1. EdTypeOK /\ EdTimerOK /\ EdKeptInv
  BY DEF EdInv, EdTypeInv
<1>2. PICK m : m = Head(edQueue)
  OBVIOUS
<1>3. /\ m \in EdMessage /\ m.do = "set"
      /\ edQueue' \in Seq(EdMessage) /\ ToSet(edQueue) = {m} \cup ToSet(edQueue')
  BY <1>1, <1>2, EdHeadDo DEF EdHandleSet
<1>4. PICK s, id : s = m.setting /\ id = m.id
  OBVIOUS
<1>5. s \in EdSetting /\ id \in EdId
  BY <1>3, <1>4, EdMessageKinds
<1>6. PICK x : x = [do |-> "set", id |-> id, setting |-> s, value |-> id]
  OBVIOUS
<1>7. /\ edStored' = [edStored EXCEPT ![s] = {id}]
      /\ edWanted' = [edWanted EXCEPT ![s] = id]
      /\ edRaced' = (IF s \in edFound THEN edRaced \cup {s} ELSE edRaced \ {s})
      /\ edApi' = Append(edApi, x)
      /\ UNCHANGED <<edFound, edEngine, edTimer, edCorrections, edEvents, edAsked, edAnswers>>
  BY <1>2, <1>4, <1>6, Zenon DEF EdHandleSet, EdKeep
<1>8. id \in EdValue /\ id # EdConf
  BY <1>5 DEF EdValue, EdId, EdConf
<1>9. x \in EdApiMessage /\ x.do = "set" /\ x.setting = s /\ x.value = id
  BY <1>5, <1>6, <1>8, EdSetMade
<1>10. edApi' \in Seq(EdApiMessage) /\ ToSet(edApi') = ToSet(edApi) \cup {x}
  BY <1>1, <1>7, <1>9, EdPuts
<1>11. /\ edApi \in Seq(EdApiMessage) /\ edFound \in SUBSET EdFromConf
       /\ edStored \in [EdSetting -> SUBSET EdValue] /\ edWanted \in [EdSetting -> EdValue]
       /\ edRaced \in SUBSET EdSetting
  BY <1>1, EdTypesParts
<1>12. /\ edStored' \in [EdSetting -> SUBSET EdValue] /\ edWanted' \in [EdSetting -> EdValue]
       /\ edRaced' \in SUBSET EdSetting
  BY <1>5, <1>7, <1>8, <1>11
<1>13. EdTypeInv'
  BY <1>1, <1>3, <1>7, <1>10, <1>12
     DEF EdTypeInv, EdTypeOK, EdTimerOK, edEngine, edTimer, edCorrections, edAnswers
<1>14. /\ edStored'[s] = {id} /\ edWanted'[s] = id
       /\ \A t \in EdSetting : t # s => edStored'[t] = edStored[t] /\ edWanted'[t] = edWanted[t]
       /\ edFound' = edFound /\ edModem' = edModem /\ edRefused' = edRefused
  BY <1>5, <1>7, <1>11 DEF edEngine
<1>15. EdFoundOK'
  BY <1>1, <1>7, <1>9, <1>11, <1>14, AppendProperties DEF EdSetting, EdKeptInv, EdFoundOK
<1>16. \A t \in EdSetting \ edRaced' : t # s => t \in EdSetting \ edRaced
  BY <1>7
<1>17. EdStoredKept'
  BY <1>1, <1>8, <1>14, <1>16 DEF EdStoredKept, EdKeptInv, EdKeptOf
<1>18. \A t : t # s => x \notin EdSays(t)
  BY <1>9 DEF EdSays
<1>19. EdOtherKept'
  <2> SUFFICES ASSUME NEW t \in EdOther, edWanted'[t] = EdConf
               PROVE  edModem'[t] = {} /\ Silent(edApi', EdSays(t))
    BY DEF EdOtherKept, EdSays
  <2>1. t # s /\ t \in EdSetting
    BY <1>8, <1>14 DEF EdSetting
  <2>2. edModem[t] = {} /\ Silent(edApi, EdSays(t))
    BY <1>1, <1>14, <2>1 DEF EdKeptInv, EdOtherKept
  <2>3. PICK B : B = EdSays(t)
    OBVIOUS
  <2>4. x \notin B
    BY <1>18, <2>1, <2>3
  <2>5. Silent(Append(edApi, x), B)
    BY <1>9, <1>11, <2>2, <2>3, <2>4, EndsAppend
  <2> QED BY <1>7, <1>14, <2>2, <2>3, <2>5
<1>20. EdWordsKept'
  <2> SUFFICES ASSUME ~EdComes', NEW t \in EdSetting \ edRaced'
               PROVE  Ends(edApi', EdSays(t), EdSaysRight(t, edWanted'[t]), EdSettled(t)')
    BY DEF EdWordsKept, EdSays, EdSaysRight
  <2>1. PICK B, G, rest : /\ B = EdSays(t) /\ G = EdSaysRight(t, edWanted'[t])
                          /\ rest = EdSettled(t)'
    OBVIOUS
  <2>2. CASE t = s
    <3>1. x \in B /\ x \in G
      BY <1>8, <1>9, <1>14, <2>1, <2>2 DEF EdSays, EdSaysRight
    <3> QED BY <1>7, <1>9, <1>11, <2>1, <3>1, EndsAppended
  <2>3. CASE t # s
    <3>1. ~EdComes
      BY <1>3, <1>10 DEF EdComes, EdUps, EdOpening
    <3>4. x \notin B
      BY <1>18, <2>1, <2>3
    <3>5. Ends(edApi, B, G, rest)
      BY <1>1, <1>14, <1>16, <2>1, <2>3, <3>1 DEF EdKeptInv, EdWordsKept, EdSettled
    <3>6. Ends(Append(edApi, x), B, G, rest)
      BY <1>9, <1>11, <3>4, <3>5, EndsAppend
    <3> QED BY <1>7, <2>1, <3>6
  <2> QED BY <2>2, <2>3
<1> QED BY <1>13, <1>15, <1>17, <1>19, <1>20 DEF EdInv, EdKeptInv

(* What was kept is sent again: the last word on each setting is what is   *)
(* kept, except on one that nobody has set and gps.conf has no value for   *)
LEMMA EdUpDone ==
  ASSUME EdInv, EdHandleUp
  PROVE  EdInv'
<1>1. EdTypeOK /\ EdTimerOK /\ EdKeptInv
  BY DEF EdInv, EdTypeInv
<1>2. PICK others, config, sets, again, caps :
        /\ others = {s \in EdOther : edStored[s] # {}}
        /\ config = [do |-> "config", left |-> EdFromConf]
        /\ sets = {[do |-> "set", id |-> 0, setting |-> s,
                    value |-> CHOOSE v \in edStored[s] : TRUE] : s \in others}
        /\ again = SetToSeq(sets)
        /\ caps = IF edIsOpen THEN <<EdCapabilities>> ELSE <<>>
  OBVIOUS
<1>3. /\ edQueue # <<>> /\ Head(edQueue).do = "up" /\ edKnown' = TRUE
      /\ edQueue' = Tail(edQueue) \o caps
      /\ edApi' = Append(edApi, config) \o again
      /\ UNCHANGED <<edKept, edFound, edEngine, edTimer, edCaller, edIsOpen, edCorr, edEvents,
                     edAsked, edAnswers>>
  BY <1>2, Zenon DEF EdHandleUp, EdResend
<1>4. /\ edApi \in Seq(EdApiMessage) /\ edIsOpen \in BOOLEAN
      /\ edStored \in [EdSetting -> SUBSET EdValue]
      /\ Tail(edQueue) \in Seq(EdMessage)
  BY <1>1, <1>3, EdTypesParts, EdTakes
<1>5. caps \in Seq(EdMessage)
  <2>1. PICK c : c = EdCapabilities
    OBVIOUS
  <2>2. c \in EdMessage
    BY <2>1 DEF EdCapabilities, EdMessage
  <2>3. <<c>> \in Seq(EdMessage) /\ <<>> \in Seq(EdMessage)
    BY <2>2
  <2> QED BY <1>2, <2>1, <2>3
<1>6. edQueue' \in Seq(EdMessage)
  <2>1. PICK t : t = Tail(edQueue)
    OBVIOUS
  <2>2. t \in Seq(EdMessage)
    BY <1>4, <2>1
  <2>3. t \o caps \in Seq(EdMessage)
    BY <1>5, <2>2, ConcatProperties
  <2> QED BY <1>3, <2>1, <2>3
<1>7. config \in EdApiMessage /\ config.do = "config" /\ config.left = EdFromConf
  BY <1>2, EdConfigMade
<1>8. PICK one : one = <<config>>
  OBVIOUS
<1>9. one \in Seq(EdApiMessage) /\ ToSet(one) = {config}
  BY <1>7, <1>8, ElementsOfOne
<1>10. \A x \in sets : /\ x \in EdApiMessage /\ x.do = "set" /\ x.setting \in others
                       /\ x.value \in edStored[x.setting]
  <2> TAKE x \in sets
  <2>1. PICK s \in others : x = [do |-> "set", id |-> 0, setting |-> s,
                                 value |-> CHOOSE v \in edStored[s] : TRUE]
    BY <1>2
  <2>2. PICK v : v = CHOOSE w \in edStored[s] : TRUE
    OBVIOUS
  <2>3. s \in EdOther /\ s \in EdSetting /\ edStored[s] # {} /\ edStored[s] \subseteq EdValue
    BY <1>2, <1>4, <2>1 DEF EdSetting
  <2>4. v \in edStored[s] /\ v \in EdValue
    BY <2>2, <2>3
  <2>5. 0 \in EdId \cup {0} /\ x = [do |-> "set", id |-> 0, setting |-> s, value |-> v]
    BY <2>1, <2>2
  <2>6. x \in EdApiMessage /\ x.do = "set" /\ x.setting = s /\ x.value = v
    BY <2>3, <2>4, <2>5, EdSetMade
  <2> QED BY <2>1, <2>4, <2>6
<1>11. PICK f : f = [s \in others |-> [do |-> "set", id |-> 0, setting |-> s,
                                     value |-> CHOOSE v \in edStored[s] : TRUE]]
  OBVIOUS
<1>12. sets = {f[s] : s \in others} /\ \A s \in others : f[s].setting = s
  BY <1>2, <1>11
<1>13. \A s \in others : \E x \in sets : x.setting = s
  BY <1>12
<1>14. IsFiniteSet(sets)
  <2>1. IsFiniteSet(others)
    <3>1. others \in SUBSET EdOther
      BY <1>2
    <3> QED BY <3>1, EdAssumption, FS_Subset
  <2>3. f \in [others -> sets]
    BY <1>11, <1>12
  <2>4. f \in Surjection(others, sets)
    BY <1>12, <2>3 DEF Surjection
  <2> QED BY <2>1, <2>4, FS_Surjection
<1>15. again \in Seq(EdApiMessage) /\ ToSet(again) = sets
  <2>1. again \in Seq(sets) /\ ToSet(again) = sets
    BY <1>2, <1>14, SequenceOfSet
  <2>2. sets \subseteq EdApiMessage
    BY <1>10
  <2> QED BY <2>1, <2>2
<1>16. PICK q : q = (edApi \o one) \o again
  OBVIOUS
<1>17. edApi' = q
  <2>1. Append(edApi, config) = edApi \o one
    BY <1>4, <1>7, <1>8, AppendIsConcat
  <2> QED BY <1>3, <1>16, <2>1
<1>18. /\ q \in Seq(EdApiMessage) /\ ToSet(q) = ToSet(edApi) \cup {config} \cup sets
       /\ \A B, G, rest : Ends(q, B, G, rest)
            <=> Ends(again, B, G, Ends(one, B, G, Ends(edApi, B, G, rest)))
  <2>1. PICK old : old = edApi
    OBVIOUS
  <2>2. old \in Seq(EdApiMessage) /\ one \in Seq(EdApiMessage) /\ again \in Seq(EdApiMessage)
    BY <1>4, <1>9, <1>15, <2>1
  <2>3. ASSUME NEW B, NEW G, NEW rest
        PROVE  /\ (old \o one) \o again \in Seq(EdApiMessage)
               /\ ToSet((old \o one) \o again) = ToSet(old) \cup ToSet(one) \cup ToSet(again)
               /\ Ends((old \o one) \o again, B, G, rest)
                    <=> Ends(again, B, G, Ends(one, B, G, Ends(old, B, G, rest)))
    BY <2>2, EndsThree
  <2> QED BY <1>9, <1>15, <1>16, <2>1, <2>3
<1>19. EdTypeInv'
  BY <1>1, <1>3, <1>6, <1>17, <1>18
     DEF EdTypeInv, EdTypeOK, EdTimerOK, edKept, edEngine, edTimer, edAnswers
<1>20. /\ edStored' = edStored /\ edWanted' = edWanted /\ edRaced' = edRaced
       /\ edFound' = edFound /\ edModem' = edModem /\ edRefused' = edRefused
  BY <1>3 DEF edKept, edEngine
<1>21. EdFoundOK'
  <2>1. ASSUME edApi # <<>> PROVE edApi' # <<>> /\ Head(edApi') = Head(edApi)
    <3>1. /\ Append(edApi, config) \in Seq(EdApiMessage) /\ Len(Append(edApi, config)) = Len(edApi) + 1
          /\ Append(edApi, config)[1] = edApi[1] /\ Len(edApi) > 0
      BY <1>4, <1>7, <2>1, AppendProperties
    <3>2. PICK a : a = Append(edApi, config)
      OBVIOUS
    <3>3. a \in Seq(EdApiMessage) /\ Len(a) > 0 /\ a[1] = edApi[1]
      BY <1>4, <3>1, <3>2
    <3>4. Len(a \o again) = Len(a) + Len(again) /\ (a \o again)[1] = a[1] /\ a \o again \in Seq(EdApiMessage)
      BY <1>15, <3>3, ConcatProperties
    <3>5. a \o again # <<>> /\ Head(a \o again) = (a \o again)[1] /\ Head(edApi) = edApi[1]
      BY <1>4, <1>15, <2>1, <3>3, <3>4
    <3> QED BY <1>3, <3>2, <3>3, <3>4, <3>5
  <2> QED BY <1>1, <1>20, <2>1 DEF EdFoundOK, EdKeptInv
<1>22. EdStoredKept'
  BY <1>1, <1>20 DEF EdStoredKept, EdKeptInv
<1>23. \A s \in EdOther : /\ s \in EdSetting /\ s \notin edRaced /\ s \notin EdFromConf
                          /\ config \notin EdSays(s)
  BY <1>1, <1>7, EdAssumption DEF EdSetting, EdKeptInv, EdFoundOK, EdSays
<1>24. \A s \in EdOther : edWanted[s] = EdConf => edStored[s] = {} /\ \A x \in sets : x \notin EdSays(s)
  <2> TAKE s \in EdOther
  <2>1. edWanted[s] = EdConf => edStored[s] = {}
    BY <1>1, <1>23 DEF EdKeptInv, EdStoredKept, EdKeptOf
  <2>2. edStored[s] = {} => \A x \in sets : x \notin EdSays(s)
    BY <1>2, <1>10 DEF EdSays
  <2> QED BY <2>1, <2>2
<1>25. EdOtherKept'
  <2> SUFFICES ASSUME NEW s \in EdOther, edWanted[s] = EdConf
               PROVE  edModem[s] = {} /\ Silent(q, EdSays(s))
    BY <1>17, <1>20 DEF EdOtherKept, EdSays
  <2>1. edModem[s] = {} /\ Silent(edApi, EdSays(s))
    BY <1>1 DEF EdKeptInv, EdOtherKept
  <2>2. PICK B : B = EdSays(s)
    OBVIOUS
  <2>3. \A x \in ToSet(edApi) : x \notin B
    BY <1>4, <2>1, <2>2, SilentElements
  <2>4. \A x \in ToSet(q) : x \notin B
    BY <1>18, <1>23, <1>24, <2>2, <2>3
  <2>5. Silent(q, B)
    BY <1>18, <2>4, SilentElements
  <2> QED BY <2>1, <2>2, <2>5
<1>26. EdWordsKept'
  <2> SUFFICES ASSUME NEW s \in EdSetting \ edRaced
               PROVE  Ends(q, EdSays(s), EdSaysRight(s, edWanted[s]), EdSettled(s)')
    BY <1>17, <1>20 DEF EdWordsKept, EdSays, EdSaysRight
  <2>1. PICK B, G, rest : /\ B = EdSays(s) /\ G = EdSaysRight(s, edWanted[s])
                          /\ rest = EdSettled(s)'
    OBVIOUS
  <2>2. CASE s \in EdFromConf
    <3>1. config \in B /\ config \in G
      BY <1>7, <2>1, <2>2 DEF EdSays, EdSaysRight
    <3>2. \A x \in sets : x \notin B
      <4>1. s \notin others
        BY <1>2, <2>2, EdAssumption
      <4> QED BY <1>10, <2>1, <4>1 DEF EdSays
    <3>3. Ends(one, B, G, Ends(edApi, B, G, rest))
      BY <1>8, <3>1, EndsOne
    <3>4. PICK then : then = Ends(one, B, G, Ends(edApi, B, G, rest))
      OBVIOUS
    <3>5. Ends(again, B, G, then)
      <4>1. \A x \in ToSet(again) : x \in B => x \in G
        BY <1>15, <3>2
      <4>2. then
        BY <3>3, <3>4
      <4> QED BY <1>15, <4>1, <4>2, EndsAlike
    <3> QED BY <1>18, <2>1, <3>4, <3>5
  <2>3. CASE s \in EdOther /\ edWanted[s] = EdConf
    <3>1. rest
      BY <1>20, <1>23, <1>24, <1>25, <2>1, <2>3 DEF EdSettled, EdKeptOf, EdOtherKept
    <3>2. Silent(q, B)
      BY <1>17, <1>20, <1>25, <2>1, <2>3 DEF EdOtherKept, EdSays
    <3>3. \A x \in ToSet(q) : x \notin B
      BY <1>18, <3>2, SilentElements
    <3>4. Ends(q, B, G, rest)
      BY <1>18, <3>1, <3>3, EndsAlike
    <3> QED BY <2>1, <3>4
  <2>4. CASE s \in EdOther /\ edWanted[s] # EdConf
    <3>1. edStored[s] = {edWanted[s]}
      BY <1>1, <1>23, <2>4 DEF EdKeptInv, EdStoredKept
    <3>2. s \in others
      BY <1>2, <2>4, <3>1
    <3>3. \A x \in sets : x \in B => x \in G
      BY <1>10, <2>1, <2>4, <3>1 DEF EdSays, EdSaysRight
    <3>4. \E x \in sets : x \in B
      <4>1. PICK x \in sets : x.setting = s
        BY <1>13, <3>2
      <4>2. x \in B
        BY <1>10, <2>1, <4>1 DEF EdSays
      <4> QED BY <4>2
    <3>5. PICK then : then = Ends(one, B, G, Ends(edApi, B, G, rest))
      OBVIOUS
    <3>6. Ends(again, B, G, then)
      BY <1>15, <3>3, <3>4, EndsAlike
    <3> QED BY <1>18, <2>1, <3>5, <3>6
  <2> QED BY <2>2, <2>3, <2>4 DEF EdSetting
<1> QED BY <1>19, <1>21, <1>22, <1>25, <1>26 DEF EdInv, EdKeptInv

-----------------------------------------------------------------------------
(* The thread of LocApiBase, and the modem                                 *)

LEMMA EdGives ==
  ASSUME EdTypeOK, NEW s \in EdSetting, NEW v \in EdValue, NEW takes, EdGive(s, v, takes)
  PROVE  /\ edModem' \in [EdSetting -> SUBSET EdValue]
         /\ edRefused' \in SUBSET (EdSetting \X EdValue)
         /\ \A t \in EdSetting : t # s => edModem'[t] = edModem[t]
         /\ \A t, w : t # s => (<<t, w>> \in edRefused' <=> <<t, w>> \in edRefused)
         /\ edModem'[s] = {v} \/ <<s, v>> \in edRefused'
<1>1. /\ edModem \in [EdSetting -> SUBSET EdValue]
      /\ edRefused \in SUBSET (EdSetting \X EdValue)
  BY EdTypesParts
<1>2. /\ edModem' = (IF takes THEN [edModem EXCEPT ![s] = {v}] ELSE edModem)
      /\ edRefused' = (IF takes THEN edRefused \ ({s} \X EdValue) ELSE edRefused \cup {<<s, v>>})
  BY DEF EdGive
<1>3. CASE takes
  BY <1>1, <1>2, <1>3
<1>4. CASE ~takes
  BY <1>1, <1>2, <1>4
<1> QED BY <1>3, <1>4

LEMMA EdReturns ==
  ASSUME EdTypeOK, NEW id \in EdId \cup {0}, NEW left \in {0, 1}, NEW takes \in BOOLEAN,
         EdReturn(id, left, takes)
  PROVE  edQueue' \in Seq(EdMessage) /\ EdUps' = EdUps
<1>1. CASE id = 0
  BY <1>1, EdTypesParts DEF EdReturn, EdUps
<1>2. CASE id # 0
  <2>1. PICK m : m = [do |-> "answer", id |-> id, left |-> left, took |-> takes]
    OBVIOUS
  <2>2. m \in EdMessage /\ m.do # "up"
    BY <1>2, <2>1, EdMessageMade
  <2> QED BY <1>2, <2>1, <2>2, EdPuts DEF EdUps, EdReturn
<1> QED BY <1>1, <1>2

LEMMA EdApiSetDone ==
  ASSUME EdInv, NEW takes \in BOOLEAN, EdApiSet(takes)
  PROVE  EdInv'
<1>1. EdTypeOK /\ EdTimerOK /\ EdKeptInv
  BY DEF EdInv, EdTypeInv
<1>2. PICK x : x = Head(edApi)
  OBVIOUS
<1>3. PICK s, v, id : s = x.setting /\ v = x.value /\ id = x.id
  OBVIOUS
<1>4. /\ edApi # <<>> /\ x.do = "set" /\ edApi' = Tail(edApi)
      /\ EdGive(s, v, takes) /\ EdReturn(id, 0, takes)
      /\ edDone' = (IF takes THEN edDone \cup ({id} \ {0}) ELSE edDone)
      /\ UNCHANGED <<edKept, edFound, edUp, edTimer, edCorrections, edEvents, edAsked, edAnswers>>
  BY <1>2, <1>3, Zenon DEF EdApiSet, EdApiReceive
<1>5. /\ x \in EdApiMessage /\ edApi' \in Seq(EdApiMessage)
      /\ ToSet(edApi) = {x} \cup ToSet(edApi')
  BY <1>1, <1>2, <1>4, EdTakes
<1>6. s \in EdSetting /\ v \in EdValue /\ id \in EdId \cup {0}
  BY <1>3, <1>4, <1>5, EdApiMessageKinds
<1>7. /\ edModem' \in [EdSetting -> SUBSET EdValue]
      /\ edRefused' \in SUBSET (EdSetting \X EdValue)
      /\ \A t \in EdSetting : t # s => edModem'[t] = edModem[t]
      /\ \A t, w : t # s => (<<t, w>> \in edRefused' <=> <<t, w>> \in edRefused)
      /\ edModem'[s] = {v} \/ <<s, v>> \in edRefused'
  BY <1>1, <1>4, <1>6, EdGives
<1>8. edQueue' \in Seq(EdMessage) /\ EdUps' = EdUps
  BY <1>1, <1>4, <1>6, EdReturns
<1>9. edDone' \in SUBSET EdId
  BY <1>1, <1>4, <1>6 DEF EdTypeOK
<1>10. EdTypeInv'
  BY <1>1, <1>4, <1>5, <1>7, <1>8, <1>9
     DEF EdTypeInv, EdTypeOK, EdTimerOK, edKept, edTimer, edCorrections, edAnswers
<1>11. EdComes => EdComes'
  BY <1>4, <1>5, <1>8 DEF EdComes, EdOpening
<1>12. edFound = {}
  BY <1>1, <1>2, <1>4 DEF EdKeptInv, EdFoundOK
<1>13. \A t \in EdSetting : x \notin EdSays(t) =>
         /\ edModem'[t] = edModem[t]
         /\ \A w : <<t, w>> \in edRefused' <=> <<t, w>> \in edRefused
  BY <1>3, <1>4, <1>5, <1>7 DEF EdSays
<1>14. ASSUME NEW t \in EdSetting \ edRaced, x \in EdSays(t), x \in EdSaysRight(t, edWanted[t])
       PROVE  EdSettled(t)'
  <2>1. t = s /\ v = edWanted[t] /\ v # EdConf
    BY <1>3, <1>4, <1>14 DEF EdSays, EdSaysRight
  <2> QED BY <1>1, <1>4, <1>7, <2>1 DEF EdSettled, EdKeptOf, edKept, EdKeptInv, EdStoredKept
<1>15. UNCHANGED <<edKept, edFound>>
  BY <1>4
<1>16. EdKeptInv'
  BY <1>1, <1>2, <1>4, <1>11, <1>12, <1>13, <1>14, <1>15, EdTaken
<1> QED BY <1>10, <1>16 DEF EdInv

(* What has no word on settings is taken *)
EdApiPass ==
  \/ \E takes \in BOOLEAN : EdApiKey(takes)
  \/ EdApiConfigured \/ EdApiOpen

LEMMA EdApiPassDone ==
  ASSUME EdInv, EdApiPass
  PROVE  EdInv'
<1>1. EdTypeOK /\ EdTimerOK /\ EdKeptInv
  BY DEF EdInv, EdTypeInv
<1>2. PICK x : x = Head(edApi)
  OBVIOUS
<1>3. /\ edApi # <<>> /\ edApi' = Tail(edApi)
      /\ x.do \in {"key", "open"} \/ (x.do = "config" /\ x.left = {})
      /\ UNCHANGED <<edKept, edFound, edModem, edRefused, edTimer, edCorrections, edEvents,
                     edAsked, edAnswers>>
  BY <1>2 DEF EdApiPass, EdApiKey, EdApiConfigured, EdApiOpen, EdApiReceive, edEngine
<1>4. /\ x \in EdApiMessage /\ edApi' \in Seq(EdApiMessage)
      /\ ToSet(edApi) = {x} \cup ToSet(edApi')
  BY <1>1, <1>2, <1>3, EdTakes
<1>5. \A s : x \notin EdSays(s)
  BY <1>3, <1>4 DEF EdSays
<1>6. edFound = {}
  BY <1>1, <1>2, <1>3 DEF EdKeptInv, EdFoundOK
<1>7. /\ edQueue' \in Seq(EdMessage) /\ edDone' \in SUBSET EdId /\ edUp' \in BOOLEAN
      /\ EdComes => EdComes'
  <2>1. CASE \E takes \in BOOLEAN : EdApiKey(takes)
    <3>1. PICK takes \in BOOLEAN : EdApiKey(takes)
      BY <2>1
    <3>2. PICK id, left : id = x.id /\ left = x.left
      OBVIOUS
    <3>3. /\ x.do = "key" /\ EdReturn(id, left, takes) /\ edUp' = edUp
          /\ edDone' = IF takes /\ left = 0 THEN edDone \cup {id} ELSE edDone
      BY <1>2, <3>1, <3>2, Zenon DEF EdApiKey, EdApiReceive
    <3>4. id \in EdId /\ left \in {0, 1}
      BY <1>4, <3>2, <3>3, EdApiMessageKinds
    <3> QED BY <1>1, <1>4, <3>3, <3>4, EdReturns, EdTypesParts DEF EdComes, EdOpening
  <2>2. CASE EdApiConfigured
    <3>1. x.do = "config" /\ edQueue' = edQueue /\ edUp' = edUp /\ edDone' = edDone
      BY <1>2, <2>2 DEF EdApiConfigured, EdApiReceive, edEngine
    <3> QED BY <1>1, <1>4, <3>1, EdTypesParts DEF EdComes, EdOpening, EdUps
  <2>3. CASE EdApiOpen
    BY <1>1, <2>3, EdPuts, EdTypesParts DEF EdMessage, EdApiOpen, EdComes, EdUps
  <2> QED BY <2>1, <2>2, <2>3 DEF EdApiPass
<1>8. EdTypeInv'
  BY <1>1, <1>3, <1>4, <1>7
     DEF EdTypeInv, EdTypeOK, EdTimerOK, edKept, edTimer, edCorrections, edAnswers
<1>9. UNCHANGED <<edKept, edFound>> /\ edModem' = edModem /\ edRefused' = edRefused
  BY <1>3
<1>10. EdKeptInv'
  BY <1>1, <1>2, <1>3, <1>5, <1>6, <1>7, <1>9, EdTaken
<1> QED BY <1>8, <1>10 DEF EdInv

(* setConfig's message stays at the head, with one setting less *)
LEMMA HeadChanged ==
  ASSUME NEW S, NEW q \in Seq(S), q # <<>>, NEW h \in S
  PROVE  [q EXCEPT ![1] = h] = <<h>> \o Tail(q)
<1> DEFINE r == [q EXCEPT ![1] = h]
           u == <<h>>
           t == Tail(q)
<1>1. /\ t \in Seq(S) /\ Len(t) = Len(q) - 1 /\ \A i \in 1..Len(t) : t[i] = q[i + 1]
      /\ Len(q) \in Nat /\ Len(q) > 0
  BY HeadTailProperties
<1>2. u \in Seq(S) /\ Len(u) = 1 /\ u[1] = h
  OBVIOUS
<1>4. \A i \in 1..Len(q) : r[i] = IF i = 1 THEN h ELSE q[i]
  OBVIOUS
<1> HIDE DEF r, u, t
<1>5. /\ u \o t \in Seq(S) /\ Len(u \o t) = Len(u) + Len(t)
      /\ \A i \in 1..(Len(u) + Len(t)) : (u \o t)[i] = IF i <= Len(u) THEN u[i] ELSE t[i - Len(u)]
  <2>1. u \in Seq(S) /\ t \in Seq(S)
    BY <1>1, <1>2
  <2> QED BY <2>1, ConcatProperties
<1>6. ASSUME NEW i \in 1..Len(q) PROVE r[i] = (u \o t)[i]
  <2>1. CASE i = 1
    BY <1>1, <1>2, <1>4, <1>5, <2>1
  <2>2. CASE i # 1
    BY <1>1, <1>2, <1>4, <1>5, <2>2
  <2> QED BY <2>1, <2>2
<1> QED BY <1>1, <1>2, <1>5, <1>6, SeqEqual DEF r, u, t

(* The messages of a queue are y and those of t *)
FirstIs(q, y, t) ==
  \A B, G, rest : Ends(q, B, G, rest) <=> Ends(t, B, G, Ends(<<y>>, B, G, rest))

LEMMA FirstIsHead ==
  ASSUME NEW S, NEW y \in S, NEW t \in Seq(S)
  PROVE  FirstIs(<<y>> \o t, y, t)
<1>1. PICK one : one = <<y>>
  OBVIOUS
<1>2. one \in Seq(S)
  BY <1>1
<1> SUFFICES ASSUME NEW B, NEW G, NEW rest
             PROVE  Ends(one \o t, B, G, rest) <=> Ends(t, B, G, Ends(one, B, G, rest))
  BY <1>1 DEF FirstIs
<1> QED BY <1>2, EndsBoth

LEMMA EdConfiguredIs ==
  ASSUME EdTypeOK, edApi # <<>>, NEW x, x = Head(edApi), x.do = "config",
         NEW s, EdConfigured(s),
         NEW h, h = [do |-> "config", left |-> x.left \ {s}]
  PROVE  /\ x \in EdApiMessage /\ x.left \in SUBSET EdFromConf
         /\ h \in EdApiMessage /\ h.do = "config" /\ h.left = x.left \ {s}
         /\ edApi' \in Seq(EdApiMessage)
         /\ ToSet(edApi') = {h} \cup ToSet(Tail(edApi))
         /\ FirstIs(edApi, x, Tail(edApi)) /\ FirstIs(edApi', h, Tail(edApi))
         /\ edApi = <<x>> \o Tail(edApi) /\ edApi' = <<h>> \o Tail(edApi)
<1>1. PICK q, t : q = edApi /\ t = Tail(edApi)
  OBVIOUS
<1>2. /\ q \in Seq(EdApiMessage) /\ q # <<>> /\ x = Head(q) /\ t = Tail(q)
      /\ x = q[1] /\ 1 \in DOMAIN q
  BY <1>1, EdTypesParts
<1>3. /\ x \in EdApiMessage /\ t \in Seq(EdApiMessage)
      /\ q = <<x>> \o t
  BY <1>2, HeadAndTail
<1>4. x.left \in SUBSET EdFromConf /\ x = [do |-> "config", left |-> x.left]
  BY <1>3, EdApiMessageKinds
<1>5. h \in EdApiMessage /\ h.do = "config" /\ h.left = x.left \ {s}
  BY <1>4, EdConfigMade
<1>7. [x EXCEPT !.left = @ \ {s}] = h
  <2>1. PICK left : left = x.left
    OBVIOUS
  <2>3. \A less : [[do |-> "config", left |-> left] EXCEPT !.left = less]
                     = [do |-> "config", left |-> less]
    OBVIOUS
  <2>4. [x EXCEPT !.left = left \ {s}] = h
    BY <1>4, <2>1, <2>3, Zenon
  <2> QED BY <2>1, <2>4
<1>9. edApi' = <<h>> \o t
  BY <1>1, <1>2, <1>5, <1>7, HeadChanged DEF EdConfigured
<1>10. PICK two : two = <<h>>
  OBVIOUS
<1>11. two \in Seq(EdApiMessage) /\ ToSet(two) = {h}
  BY <1>5, <1>10, ElementsOfOne
<1>12. /\ two \o t \in Seq(EdApiMessage) /\ ToSet(two \o t) = ToSet(two) \cup ToSet(t)
  BY <1>3, <1>11, ElementsOfBoth, ConcatProperties
<1>13. FirstIs(<<x>> \o t, x, t) /\ FirstIs(<<h>> \o t, h, t)
  BY <1>3, <1>5, FirstIsHead
<1>14. edApi' \in Seq(EdApiMessage) /\ ToSet(edApi') = {h} \cup ToSet(Tail(edApi))
  BY <1>1, <1>9, <1>10, <1>11, <1>12
<1>15. FirstIs(edApi, x, Tail(edApi)) /\ FirstIs(edApi', h, Tail(edApi))
  BY <1>1, <1>3, <1>9, <1>13
<1> QED BY <1>1, <1>3, <1>4, <1>5, <1>9, <1>14, <1>15

LEMMA EdGiven ==
  ASSUME EdTypeOK, EdKeptInv, edApi # <<>>, Head(edApi).do = "config",
         NEW s \in EdFromConf, s \in Head(edApi).left, EdConfigured(s),
         edFound' = {}, edWanted' = edWanted, edRaced' = edRaced, edQueue' = edQueue,
         \A t \in EdSetting : t # s =>
            /\ edStored'[t] = edStored[t] /\ edModem'[t] = edModem[t]
            /\ \A v : <<t, v>> \in edRefused' <=> <<t, v>> \in edRefused,
         s \notin edRaced => EdSettled(s)'
  PROVE  edApi' \in Seq(EdApiMessage) /\ EdKeptInv'
<1>1. PICK x : x = Head(edApi)
  OBVIOUS
<1>2. PICK h : h = [do |-> "config", left |-> x.left \ {s}]
  OBVIOUS
<1>3. x.do = "config" /\ s \in x.left
  BY <1>1
<1>4. /\ x \in EdApiMessage /\ x.left \in SUBSET EdFromConf
      /\ h \in EdApiMessage /\ h.do = "config" /\ h.left = x.left \ {s}
      /\ edApi' \in Seq(EdApiMessage)
      /\ ToSet(edApi') = {h} \cup ToSet(Tail(edApi))
      /\ FirstIs(edApi, x, Tail(edApi)) /\ FirstIs(edApi', h, Tail(edApi))
  BY <1>1, <1>2, <1>3, EdConfiguredIs
<1>5. ToSet(edApi) = {x} \cup ToSet(Tail(edApi)) /\ edApi \in Seq(EdApiMessage)
  BY <1>1, EdTakes, EdTypesParts
<1>6. s \in EdSetting /\ s \notin EdOther
  BY EdAssumption DEF EdSetting
<1>8. EdStoredKept'
  <2> SUFFICES ASSUME NEW t \in EdSetting \ edRaced
               PROVE  IF edWanted[t] # EdConf THEN edStored'[t] = {edWanted[t]}
                      ELSE edStored'[t] \subseteq EdKeptOf(t, EdConf)
    BY DEF EdStoredKept, EdKeptOf
  <2>1. CASE t = s
    BY <1>6, <2>1 DEF EdSettled, EdKeptOf
  <2>2. CASE t # s
    BY <2>2 DEF EdKeptInv, EdStoredKept
  <2> QED BY <2>1, <2>2
<1>9. EdOtherKept'
  <2> SUFFICES ASSUME NEW t \in EdOther, edWanted[t] = EdConf
               PROVE  edModem'[t] = {} /\ Silent(edApi', EdSays(t))
    BY DEF EdOtherKept, EdSays
  <2>1. t # s /\ t \in EdSetting /\ t \notin EdFromConf
    BY <1>6, EdAssumption DEF EdSetting
  <2>2. edModem[t] = {} /\ Silent(edApi, EdSays(t))
    BY DEF EdOtherKept, EdKeptInv
  <2>3. PICK B : B = EdSays(t)
    OBVIOUS
  <2> QED BY <1>4, <1>5, <2>1, <2>2, <2>3, SilentElements DEF EdSays
<1>10. EdComes' => EdComes
  BY <1>3, <1>4, <1>5 DEF EdComes, EdUps, EdOpening
<1>11. EdComes => EdComes'
  BY <1>3, <1>4, <1>5 DEF EdComes, EdUps, EdOpening
<1>12. EdWordsKept'
  <2> SUFFICES ASSUME ~EdComes', NEW t \in EdSetting \ edRaced
               PROVE  Ends(edApi', EdSays(t), EdSaysRight(t, edWanted[t]), EdSettled(t)')
    BY DEF EdWordsKept, EdSays, EdSaysRight
  <2>1. PICK B, G, rest, then : /\ B = EdSays(t) /\ G = EdSaysRight(t, edWanted[t])
                                /\ rest = EdSettled(t) /\ then = EdSettled(t)'
    OBVIOUS
  <2>3. PICK q, first : q = Tail(edApi) /\ first = Ends(<<x>>, B, G, rest)
    OBVIOUS
  <2>4. Ends(q, B, G, first)
    BY <1>4, <1>11, <2>1, <2>3 DEF FirstIs, EdKeptInv, EdWordsKept
  <2>5. first => Ends(<<h>>, B, G, then)
    <3>1. CASE t = s
      BY <1>4, <2>1, <3>1, EndsOne DEF EdSays
    <3>2. CASE t # s
      <4>4. first => (IF x \in B THEN x \in G ELSE (rest <=> TRUE))
        <5>1. Ends(<<x>>, B, G, rest) <=> IF x \in B THEN x \in G ELSE (rest <=> TRUE)
          BY EndsOne
        <5> QED BY <2>3, <5>1, Zenon
      <4> QED BY <1>3, <1>4, <2>1, <3>2, <4>4, EndsOne DEF EdSettled, EdSaysRight, EdSays
    <3> QED BY <3>1, <3>2
  <2>6. PICK next : next = Ends(<<h>>, B, G, then)
    OBVIOUS
  <2>7. Ends(q, B, G, next)
    BY <2>4, <2>5, <2>6, EndsWeaker
  <2> QED BY <1>4, <2>1, <2>3, <2>6, <2>7 DEF FirstIs
<1> QED BY <1>4, <1>8, <1>9, <1>12 DEF EdKeptInv, EdFoundOK

LEMMA EdResendDone ==
  ASSUME EdInv, NEW s \in EdFromConf, NEW takes \in BOOLEAN, EdApiResend(s, takes)
  PROVE  EdInv'
<1>1. EdTypeOK /\ EdTimerOK /\ EdKeptInv
  BY DEF EdInv, EdTypeInv
<1>2. PICK v : v = CHOOSE w \in edStored[s] : TRUE
  OBVIOUS
<1>3. /\ edApi # <<>> /\ Head(edApi).do = "config" /\ s \in Head(edApi).left
      /\ edFound = {} /\ edStored[s] # {}
      /\ EdGive(s, v, takes) /\ EdConfigured(s)
      /\ UNCHANGED <<edQueue, edKept, edFound, edUp, edDone, edTimer, edCorrections, edEvents,
                     edAsked, edAnswers>>
  BY <1>2, Zenon DEF EdApiResend, EdApiReceive
<1>4. s \in EdSetting /\ s \notin EdOther
  BY EdAssumption DEF EdSetting
<1>5. v \in edStored[s] /\ v \in EdValue
  BY <1>1, <1>2, <1>3, <1>4, EdTypesParts
<1>6. /\ edModem' \in [EdSetting -> SUBSET EdValue]
      /\ edRefused' \in SUBSET (EdSetting \X EdValue)
      /\ \A t \in EdSetting : t # s => edModem'[t] = edModem[t]
      /\ \A t, w : t # s => (<<t, w>> \in edRefused' <=> <<t, w>> \in edRefused)
      /\ edModem'[s] = {v} \/ <<s, v>> \in edRefused'
  BY <1>1, <1>3, <1>4, <1>5, EdGives
<1>7. /\ edStored' = edStored /\ edWanted' = edWanted /\ edRaced' = edRaced
      /\ edFound' = {} /\ edQueue' = edQueue
  BY <1>3 DEF edKept
<1>8. ASSUME s \notin edRaced PROVE EdSettled(s)'
  <2>1. edStored[s] = {edWanted[s]}
    BY <1>1, <1>3, <1>4, <1>8 DEF EdKeptInv, EdStoredKept, EdKeptOf
  <2> QED BY <1>4, <1>5, <1>6, <1>7, <2>1 DEF EdSettled, EdKeptOf
<1>9. edApi' \in Seq(EdApiMessage) /\ EdKeptInv'
  BY <1>1, <1>3, <1>6, <1>7, <1>8, EdGiven
<1>10. EdTypeInv'
  BY <1>1, <1>3, <1>6, <1>9
     DEF EdTypeInv, EdTypeOK, EdTimerOK, edKept, edTimer, edCorrections, edAnswers
<1> QED BY <1>9, <1>10 DEF EdInv

(* What is not valid is found so, and gets the value of gps.conf later: a  *)
(* command that came between is overwritten, and known to be               *)
LEMMA EdFindDone ==
  ASSUME EdInv, NEW s \in EdFromConf, EdApiFind(s)
  PROVE  EdInv'
<1>1. EdTypeOK /\ EdTimerOK /\ EdKeptInv
  BY DEF EdInv, EdTypeInv
<1>2. /\ edApi # <<>> /\ Head(edApi).do = "config" /\ s \in Head(edApi).left
      /\ edStored[s] = {} /\ edFound' = {s}
      /\ UNCHANGED <<edQueue, edApi, edKept, edEngine, edTimer, edCorrections, edEvents, edAsked,
                     edAnswers>>
  BY DEF EdApiFind, EdApiReceive
<1>3. EdTypeInv'
  BY <1>1, <1>2
     DEF EdTypeInv, EdTypeOK, EdTimerOK, edKept, edEngine, edTimer, edCorrections, edAnswers
<1>4. /\ edStored' = edStored /\ edWanted' = edWanted /\ edRaced' = edRaced
      /\ edModem' = edModem /\ edRefused' = edRefused /\ edQueue' = edQueue /\ edApi' = edApi
  BY <1>2 DEF edKept, edEngine
<1>7. EdOtherKept'
  BY <1>1, <1>4 DEF EdOtherKept, EdKeptInv, EdSays
<1>8. EdComes' <=> EdComes
  BY <1>4 DEF EdComes, EdUps, EdOpening
<1>9. EdWordsKept'
  BY <1>1, <1>4, <1>8 DEF EdWordsKept, EdKeptInv, EdSays, EdSaysRight, EdSettled
<1> QED BY <1>1, <1>2, <1>3, <1>4, <1>7, <1>9 DEF EdInv, EdKeptInv, EdStoredKept, EdSetting,
  EdFoundOK

LEMMA EdLoadDone ==
  ASSUME EdInv, NEW takes \in BOOLEAN, EdApiLoad(takes)
  PROVE  EdInv'
<1>1. EdTypeOK /\ EdTimerOK /\ EdKeptInv
  BY DEF EdInv, EdTypeInv
<1>2. PICK s \in edFound :
        /\ edStored' = [edStored EXCEPT ![s] = {EdConf}]
        /\ EdGive(s, EdConf, takes) /\ EdConfigured(s) /\ edFound' = {}
        /\ UNCHANGED <<edQueue, edWanted, edRaced, edUp, edDone, edTimer, edCorrections, edEvents,
                       edAsked, edAnswers>>
  BY DEF EdApiLoad
<1>3. /\ edApi # <<>> /\ Head(edApi).do = "config" /\ s \in Head(edApi).left
      /\ s \in EdFromConf /\ (s \notin edRaced => edWanted[s] = EdConf)
  BY <1>1 DEF EdKeptInv, EdFoundOK, EdTypeOK
<1>4. s \in EdSetting /\ s \notin EdOther /\ EdConf \in EdValue
  BY <1>3, EdAssumption DEF EdSetting, EdValue
<1>5. /\ edModem' \in [EdSetting -> SUBSET EdValue]
      /\ edRefused' \in SUBSET (EdSetting \X EdValue)
      /\ \A t \in EdSetting : t # s => edModem'[t] = edModem[t]
      /\ \A t, w : t # s => (<<t, w>> \in edRefused' <=> <<t, w>> \in edRefused)
      /\ edModem'[s] = {EdConf} \/ <<s, EdConf>> \in edRefused'
  BY <1>1, <1>2, <1>4, EdGives
<1>6. /\ edStored' \in [EdSetting -> SUBSET EdValue] /\ edStored'[s] = {EdConf}
      /\ \A t \in EdSetting : t # s => edStored'[t] = edStored[t]
  BY <1>1, <1>2, <1>4, EdTypesParts
<1>7. s \notin edRaced => EdSettled(s)'
  BY <1>2, <1>3, <1>4, <1>5, <1>6 DEF EdSettled, EdKeptOf
<1>8. edApi' \in Seq(EdApiMessage) /\ EdKeptInv'
  BY <1>1, <1>2, <1>3, <1>5, <1>6, <1>7, EdGiven
<1>9. EdTypeInv'
  BY <1>1, <1>2, <1>5, <1>6, <1>8
     DEF EdTypeInv, EdTypeOK, EdTimerOK, edTimer, edCorrections, edAnswers
<1> QED BY <1>8, <1>9 DEF EdInv

LEMMA EdDownDone ==
  ASSUME EdInv, EdModemDown
  PROVE  EdInv'
<1>1. EdTypeOK /\ EdTimerOK /\ EdKeptInv
  BY DEF EdInv, EdTypeInv
<1>2. PICK m : m = [do |-> "open"]
  OBVIOUS
<1>3. /\ edUp' = FALSE /\ edEvents < MaxEdEvents /\ edEvents' = edEvents + 1
      /\ edModem' = [s \in EdSetting |-> {}] /\ edApi' = Append(edApi, m)
      /\ UNCHANGED <<edQueue, edKept, edFound, edRefused, edDone, edTimer, edCorrections, edAsked,
                     edAnswers>>
  BY <1>2 DEF EdModemDown
<1>4. m \in EdApiMessage /\ m.do = "open"
  BY <1>2 DEF EdApiMessage
<1>5. edApi' \in Seq(EdApiMessage) /\ ToSet(edApi') = ToSet(edApi) \cup {m}
  BY <1>1, <1>3, <1>4, EdPuts
<1>6. edEvents' \in 0..MaxEdEvents /\ edModem' \in [EdSetting -> SUBSET EdValue]
  BY <1>1, <1>3, EdAssumption DEF EdTypeOK
<1>7. EdTypeInv'
  BY <1>1, <1>3, <1>5, <1>6
     DEF EdTypeInv, EdTypeOK, EdTimerOK, edKept, edTimer, edCorrections, edAnswers
<1>9. /\ edStored' = edStored /\ edWanted' = edWanted /\ edRaced' = edRaced /\ edFound' = edFound
  BY <1>3 DEF edKept
<1>10. edApi \in Seq(EdApiMessage)
  BY <1>1, EdTypesParts
<1>11. EdFoundOK'
  BY <1>1, <1>3, <1>4, <1>9, <1>10, AppendProperties DEF EdFoundOK, EdKeptInv
<1>13. EdOtherKept'
  <2> SUFFICES ASSUME NEW t \in EdOther, edWanted[t] = EdConf
               PROVE  edModem'[t] = {} /\ Silent(edApi', EdSays(t))
    BY <1>9 DEF EdOtherKept, EdSays
  <2>1. PICK B : B = EdSays(t)
    OBVIOUS
  <2>4. Silent(Append(edApi, m), B)
    BY <1>1, <1>4, <1>10, <2>1, EndsAppend, EdKeyIs DEF EdKeptInv, EdOtherKept
  <2> QED BY <1>3, <2>1, <2>4 DEF EdSetting
<1>14. EdWordsKept'
  BY <1>4, <1>5 DEF EdWordsKept, EdComes, EdOpening
<1> QED BY <1>1, <1>7, <1>9, <1>11, <1>13, <1>14 DEF EdInv, EdKeptInv, EdStoredKept

LEMMA EdInits ==
  ASSUME EdInit
  PROVE  EdInv
<1>1. PICK m : m = [do |-> "open"]
  OBVIOUS
<1>2. m \in EdApiMessage /\ m.do = "open"
  BY <1>1 DEF EdApiMessage
<1>4. edApi \in Seq(EdApiMessage) /\ ToSet(edApi) = {m}
  BY <1>1, <1>2, ElementsOfOne DEF EdInit
<1>5. EdTypeInv
  <2>1. edQueue \in Seq(EdMessage) /\ edEvents \in 0..MaxEdEvents
    BY EdAssumption DEF EdInit
  <2> QED BY <1>4, <2>1 DEF EdInit, EdTypeInv, EdTypeOK, EdTimerOK, EdValue
<1>8. EdOtherKept
  <2> SUFFICES ASSUME NEW s \in EdOther
               PROVE  Silent(edApi, EdSays(s))
    BY DEF EdInit, EdOtherKept, EdSetting
  <2>2. PICK B : B = EdSays(s)
    OBVIOUS
  <2> QED BY <1>2, <1>4, <2>2, SilentElements, EdKeyIs
<1>9. EdWordsKept
  BY <1>2, <1>4 DEF EdWordsKept, EdComes, EdOpening
<1> QED BY <1>5, <1>8, <1>9 DEF EdInv, EdKeptInv, EdInit, EdFoundOK, EdStoredKept

LEMMA EdStays ==
  ASSUME EdInv, [EdNext]_edVars
  PROVE  EdInv'
<1>1. CASE EdCommands
  BY <1>1, EdCommandsDone
<1>2. CASE EdOthersMove
  BY <1>2, EdOthersDone
<1>3. CASE EdHandleSet
  BY <1>3, EdSetDone
<1>4. CASE EdHandleKeys \/ EdHandleAnswer
  BY <1>4, EdKeysDone
<1>5. CASE EdHandleUp
  BY <1>5, EdUpDone
<1>6. CASE \E takes \in BOOLEAN : EdApiSet(takes)
  BY <1>6, EdApiSetDone
<1>7. CASE EdApiPass
  BY <1>7, EdApiPassDone
<1>8. CASE \E s \in EdFromConf, takes \in BOOLEAN : EdApiResend(s, takes)
  BY <1>8, EdResendDone
<1>9. CASE \E s \in EdFromConf : EdApiFind(s)
  BY <1>9, EdFindDone
<1>10. CASE \E takes \in BOOLEAN : EdApiLoad(takes)
  BY <1>10, EdLoadDone
<1>11. CASE EdModemDown
  BY <1>11, EdDownDone
<1>12. CASE UNCHANGED edVars
  <2>1. /\ edQueue' = edQueue /\ edApi' = edApi
        /\ UNCHANGED <<edKept, edFound, edUp, edModem, edRefused, edDone, edTimer, edCorrections,
                       edEvents, edAsked, edAnswers>>
    BY <1>12 DEF edVars, edEngine
  <2>2. EdTypeOK /\ EdTimerOK /\ EdKeptInv
    BY DEF EdInv, EdTypeInv
  <2>3. EdTypeInv'
    BY <2>1, <2>2
       DEF EdTypeInv, EdTypeOK, EdTimerOK, edKept, edTimer, edCorrections, edAnswers
  <2> QED BY <2>1, <2>2, <2>3, EdPassed DEF EdInv, EdComes, EdUps, EdOpening
<1> QED BY <1>1, <1>2, <1>3, <1>4, <1>5, <1>6, <1>7, <1>8, <1>9, <1>10, <1>11, <1>12
       DEF EdNext, EdCommands, EdOthersMove, EdApiPass

LEMMA EdSettles ==
  ASSUME EdInv
  PROVE  SettingsArePassedOn
<1> SUFFICES ASSUME edQueue = <<>>, edApi = <<>>, NEW s \in EdSetting \ edRaced
             PROVE  EdSettled(s)
  BY DEF SettingsArePassedOn, EdQuiet, EdSettled, EdKeptOf
<1>2. ~EdComes
  BY DEF EdComes, EdOpening, EdUps, ToSet
<1> QED BY <1>2 DEF Ends, Silent, EdInv, EdKeptInv, EdWordsKept

-----------------------------------------------------------------------------
(* Tracking: what is owed for a session                                    *)

Owing == {"start", "update", "stop", "switch"}

TimeOption == {opt \in Option : ~opt.distance}
DistanceOption == {opt \in Option : opt.distance}

(* A call is for a session, unless nobody waits for its answer, and has    *)
(* the options that its answer goes on with                                *)
ProperCall ==
  {c \in Call : /\ c.by = "distance" \/ c.request # "none" => c.s \in Session
                /\ c.by = "distance" /\ c.request \in {"update", "switch"} => c.opt \in Option
                /\ c.by = "time" => /\ c.request \in Request \cup {"none"}
                                    /\ c.old \in TimeOption \cup {None}}
ProperReply == {m \in Reply : m.call \in ProperCall /\ m.call.request # "none"}

(* Calls whose answer is one for s, and messages that are or bring one *)
CallsFor(s) == {c \in ProperCall : c.s = s /\ c.request \in Owing}
RepliesFor(s) == {m \in ProperReply : m.call \in CallsFor(s)}
WaitsFor(s) == {m \in Message : m.s = s}

Inboxes == ProperReply \cup Message \cup Event
TrTyped ==
  /\ timeBased \in [Session -> TimeOption \cup {None}]
  /\ distanceBased \in [Session -> DistanceOption \cup {None}]
  /\ power \in {"unknown", "awake", "suspended"}
  /\ known \in BOOLEAN
  /\ pending \in Seq(Message)
  /\ clients \in SUBSET Client
  /\ api \in Seq(ProperCall)
  /\ inbox \in Seq(Inboxes)
  /\ up \in BOOLEAN /\ locked \in BOOLEAN
  /\ engineTime \in Nat \cup {None}
  /\ engineDistance \in SUBSET Session
  /\ asked \in [Session -> Seq(Request)]
  /\ answers \in [Session -> Seq(Answered)]
  /\ failed \in BOOLEAN
  /\ events \in [EventKind -> Nat]

Given(s) == HowMany(api, CallsFor(s)) + HowMany(pending, WaitsFor(s)) + Len(answers[s])
Due(s) == Given(s) + HowMany(inbox, RepliesFor(s) \cup WaitsFor(s))

(* Before the modem was there nothing was asked of it by distance *)
NoDistance ==
  /\ \A s \in Session : distanceBased[s] = None
  /\ \A c \in ToSet(api) : c.by = "time"

(* An operation for a session that owes one answer more, or gives it *)
HandlerTypes ==
  /\ timeBased' \in [Session -> TimeOption \cup {None}]
  /\ distanceBased' \in [Session -> DistanceOption \cup {None}]
  /\ pending' \in Seq(Message) /\ api' \in Seq(ProperCall)
  /\ answers' \in [Session -> Seq(Answered)]

OwesOne(s) ==
  /\ \A t \in Session : Owner[t] \in clients =>
       Given(t)' = Given(t) + (IF t = s THEN 1 ELSE 0)
  /\ \A t \in Session : Owner[t] \notin clients => answers'[t] = answers[t]

HandlerDoes(s) == HandlerTypes /\ OwesOne(s) /\ (~known /\ NoDistance => NoDistance')

LEMMA TrTypesParts ==
  ASSUME TrTyped
  PROVE  /\ timeBased \in [Session -> Option \cup {None}]
         /\ distanceBased \in [Session -> Option \cup {None}]
         /\ timeBased \in [Session -> TimeOption \cup {None}]
         /\ distanceBased \in [Session -> DistanceOption \cup {None}]
         /\ pending \in Seq(Message) /\ api \in Seq(ProperCall)
         /\ inbox \in Seq(Inboxes)
         /\ answers \in [Session -> Seq(Answered)]
         /\ asked \in [Session -> Seq(Request)]
         /\ clients \in SUBSET Client
  BY DEF TrTyped, TimeOption, DistanceOption

LEMMA WantedTypes ==
  ASSUME NEW map \in [Session -> Option \cup {None}]
  PROVE  Wanted(map) \in Nat \cup {None}
<1>2. CASE SessionsOf(map) = {}
  BY <1>2 DEF Wanted
<1>3. CASE SessionsOf(map) # {}
  BY <1>3, LeastNumber, OptionAssumption DEF Intervals, Min, Wanted, SessionsOf
<1> QED BY <1>2, <1>3

LEMMA TimeCallTypes ==
  ASSUME NEW cmd \in {"start", "stop"}, NEW s \in Session \cup {None},
         NEW interval \in Nat \cup {None}, NEW request \in Request \cup {"none"},
         request # "none" => s \in Session,
         NEW old \in TimeOption \cup {None}, NEW c,
         c = TimeCall(cmd, s, interval, request, old)
  PROVE  c \in ProperCall /\ c.s = s /\ c.request = request /\ c.by = "time"
  BY DEF TimeCall, ProperCall, Call, Request, TimeOption

LEMMA DistanceCallTypes ==
  ASSUME NEW cmd \in {"start", "stop"}, NEW s \in Session, NEW opt \in Option \cup {None},
         NEW request \in Request \cup {"switch", "gone", "none"},
         request \in {"update", "switch"} => opt \in Option,
         NEW c, c = DistanceCall(cmd, s, opt, request)
  PROVE  c \in ProperCall /\ c.s = s /\ c.request = request /\ c.by = "distance" /\ c.cmd = cmd
  BY DEF DistanceCall, ProperCall, Call, Request

(* A call that will be answered, or an answer at once *)
Answering(todo, s, request) ==
  \/ /\ todo.status = "later"
     /\ \E c \in ProperCall : /\ todo.calls = <<c>> /\ c.s = s /\ c.request = request
                        /\ c.by = "time"
  \/ todo.status \in {"success", "failure"} /\ todo.calls = <<>>

LEMMA StartTimeAnswers ==
  ASSUME NEW s \in Session, NEW interval \in Nat \cup {None}, NEW request \in Request
  PROVE  Answering(StartTime(s, interval, request), s, request)
<1>2. PICK c : c = TimeCall("start", s, interval, request, None)
  OBVIOUS
<1> QED BY <1>2, TimeCallTypes DEF Answering, StartTime, Later, AtOnce

LEMMA TodosAnswer ==
  ASSUME TrTyped, NEW s \in Session, NEW request \in Request
  PROVE  /\ \A opt \in Option : Answering(StartMultiplex(s, opt, request), s, request)
         /\ \A opt \in Option : Answering(UpdateMultiplex(s, opt), s, "update")
         /\ \A map \in [Session -> Option \cup {None}] :
              Answering(StopMultiplex(map, s, request), s, request)
<1>1. /\ timeBased \in [Session -> Option \cup {None}]
      /\ timeBased \in [Session -> TimeOption \cup {None}]
  BY TrTypesParts
<1>2. ASSUME NEW opt \in Option PROVE Answering(StartMultiplex(s, opt, request), s, request)
  <2>1. PICK N : N = Intervals(timeBased) \cup {opt.interval}
    OBVIOUS
  <2>2. N \subseteq Nat /\ N # {}
    BY <1>1, <2>1, OptionAssumption DEF Intervals, SessionsOf
  <2> QED BY <2>1, <2>2, StartTimeAnswers, LeastNumber DEF StartMultiplex, Answering, AtOnce,
    Min
<1>3. ASSUME NEW opt \in Option PROVE Answering(UpdateMultiplex(s, opt), s, "update")
  <2>1. PICK new : new = Wanted([timeBased EXCEPT ![s] = opt])
    OBVIOUS
  <2>2. new \in Nat \cup {None}
    BY <1>1, <2>1, WantedTypes
  <2>3. PICK c : c = TimeCall("start", s, new, "update", timeBased[s])
    OBVIOUS
  <2>4. c \in ProperCall /\ c.s = s /\ c.request = "update" /\ c.by = "time"
    BY <1>1, <2>2, <2>3, TimeCallTypes DEF Request
  <2> QED BY <2>1, <2>3, <2>4 DEF UpdateMultiplex, Answering, Later, AtOnce
<1>4. ASSUME NEW map \in [Session -> Option \cup {None}]
      PROVE  Answering(StopMultiplex(map, s, request), s, request)
  <2>1. PICK rest : rest = Wanted(Without(map, s))
    OBVIOUS
  <2>3. PICK c : c = TimeCall("stop", s, None, request, None)
    OBVIOUS
  <2>4. c \in ProperCall /\ c.s = s /\ c.request = request /\ c.by = "time"
    BY <2>3 DEF TimeCall, ProperCall, Call, Request, TimeOption
  <2> QED BY <2>1, <2>3, <2>4, StartTimeAnswers, WantedTypes DEF StopMultiplex, Answering,
    Later, AtOnce, Without
<1> QED BY <1>2, <1>3, <1>4

(* Nothing is added to q but what brings one answer of s *)
LEMMA CallsCount ==
  ASSUME NEW q \in Seq(ProperCall), NEW s \in Session, NEW c \in ProperCall, c.s = s
  PROVE  /\ Append(q, c) \in Seq(ProperCall) /\ ToSet(Append(q, c)) = ToSet(q) \cup {c}
         /\ \A t \in Session :
              /\ HowMany(q, CallsFor(t)) \in Nat
              /\ HowMany(Append(q, c), CallsFor(t)) = HowMany(q, CallsFor(t))
                   + (IF t = s /\ c.request \in Owing THEN 1 ELSE 0)
<1>2. ASSUME NEW t \in Session
      PROVE  /\ HowMany(q, CallsFor(t)) \in Nat
             /\ HowMany(Append(q, c), CallsFor(t)) = HowMany(q, CallsFor(t))
                  + (IF t = s /\ c.request \in Owing THEN 1 ELSE 0)
  BY CountAppend DEF CallsFor
<1> QED BY <1>2, ElementsWith

(* What a client is told is one answer more *)
LEMMA Tells ==
  ASSUME TrTyped, NEW s \in Session, NEW request \in Request,
         NEW status \in {"later", "success", "failure"}, Tell(s, request, status)
  PROVE  /\ answers' \in [Session -> Seq(Answered)]
         /\ \A t \in Session : Owner[t] \notin clients => answers'[t] = answers[t]
         /\ \A t \in Session : Owner[t] \in clients =>
              /\ Len(answers[t]) \in Nat
              /\ Len(answers'[t]) = Len(answers[t])
                                    + (IF t = s /\ status # "later" THEN 1 ELSE 0)
<1>1. answers \in [Session -> Seq(Answered)]
  BY TrTypesParts
<1>2. CASE status = "later" \/ Owner[s] \notin clients
  BY <1>1, <1>2 DEF Tell
<1>3. CASE ~(status = "later" \/ Owner[s] \notin clients)
  <2>1. PICK a : a = [request |-> request, status |-> status]
    OBVIOUS
  <2>2. a \in Answered
    BY <1>3, <2>1 DEF Answered
  <2>3. answers' = [answers EXCEPT ![s] = Append(@, a)]
    BY <1>3, <2>1 DEF Tell
  <2> QED BY <1>1, <1>3, <2>2, <2>3
<1> QED BY <1>2, <1>3

LEMMA TellsNow ==
  ASSUME TrTyped, NEW s \in Session, NEW request \in Request,
         NEW status \in {"success", "failure"}, Tell(s, request, status)
  PROVE  /\ answers' \in [Session -> Seq(Answered)]
         /\ \A t \in Session : Owner[t] \notin clients => answers'[t] = answers[t]
         /\ \A t \in Session : Owner[t] \in clients =>
              /\ Len(answers[t]) \in Nat
              /\ Len(answers'[t]) = Len(answers[t]) + (IF t = s THEN 1 ELSE 0)
<1>1. status # "later" /\ status \in {"later", "success", "failure"}
  OBVIOUS
<1>2. /\ answers' \in [Session -> Seq(Answered)]
      /\ \A t \in Session : Owner[t] \notin clients => answers'[t] = answers[t]
      /\ \A t \in Session : Owner[t] \in clients =>
           /\ Len(answers[t]) \in Nat
           /\ Len(answers'[t]) = Len(answers[t])
                                 + (IF t = s /\ status # "later" THEN 1 ELSE 0)
  BY <1>1, Tells, Zenon
<1> QED BY <1>1, <1>2

(* What calls and answers alone do, where the calls are now those of q *)
CallsOweIn(q, s) ==
  /\ \A t \in Session : Owner[t] \notin clients => answers'[t] = answers[t]
  /\ \A t \in Session : Owner[t] \in clients =>
       /\ HowMany(api, CallsFor(t)) \in Nat /\ Len(answers[t]) \in Nat
       /\ HowMany(q, CallsFor(t)) + Len(answers'[t])
            = HowMany(api, CallsFor(t)) + Len(answers[t]) + (IF t = s THEN 1 ELSE 0)

LEMMA TodoIn ==
  ASSUME TrTyped, NEW s \in Session, NEW request \in Owing, NEW todo,
         Answering(todo, s, request), NEW told \in Request,
         NEW q, q = api \o todo.calls,
         Tell(s, told, todo.status)
  PROVE  /\ q \in Seq(ProperCall) /\ answers' \in [Session -> Seq(Answered)]
         /\ \A c \in ToSet(q) : c \in ToSet(api) \/ c.by = "time"
         /\ CallsOweIn(q, s)
<1>1. api \in Seq(ProperCall)
  BY TrTypesParts
<1>2. CASE todo.status = "later"
  <2>1. PICK c \in ProperCall : /\ todo.calls = <<c>> /\ c.s = s /\ c.request = request
                          /\ c.by = "time"
    BY <1>2 DEF Answering
  <2>2. q = Append(api, c)
    BY <1>1, <2>1
  <2>3. /\ q \in Seq(ProperCall) /\ ToSet(q) = ToSet(api) \cup {c}
        /\ \A t \in Session :
              /\ HowMany(api, CallsFor(t)) \in Nat
              /\ HowMany(q, CallsFor(t)) = HowMany(api, CallsFor(t))
                   + (IF t = s THEN 1 ELSE 0)
    <3>1. c.s = s /\ c.request \in Owing
      BY <2>1
    <3>2. /\ Append(api, c) \in Seq(ProperCall) /\ ToSet(Append(api, c)) = ToSet(api) \cup {c}
          /\ \A t \in Session :
                /\ HowMany(api, CallsFor(t)) \in Nat
                /\ HowMany(Append(api, c), CallsFor(t)) = HowMany(api, CallsFor(t))
                     + (IF t = s /\ c.request \in Owing THEN 1 ELSE 0)
      BY <1>1, <3>1, CallsCount
    <3> QED BY <2>2, <3>1, <3>2
  <2>4. answers' = answers
    BY <1>2 DEF Tell
  <2>5. answers \in [Session -> Seq(Answered)]
    BY TrTypesParts
  <2>6. ASSUME NEW t \in Session
        PROVE  /\ HowMany(api, CallsFor(t)) \in Nat /\ Len(answers[t]) \in Nat
               /\ HowMany(q, CallsFor(t)) + Len(answers'[t])
                    = HowMany(api, CallsFor(t)) + Len(answers[t]) + (IF t = s THEN 1 ELSE 0)
    <3>1. PICK x, y, z : /\ x = HowMany(api, CallsFor(t)) /\ y = HowMany(q, CallsFor(t))
                         /\ z = Len(answers[t])
      OBVIOUS
    <3>2. x \in Nat /\ z \in Nat /\ y = x + (IF t = s THEN 1 ELSE 0)
      BY <2>3, <2>5, <3>1
    <3>3. y + z = x + z + (IF t = s THEN 1 ELSE 0)
      BY <3>2
    <3> QED BY <2>4, <3>1, <3>2, <3>3
  <2>7. \A a \in ToSet(q) : a \in ToSet(api) \/ a.by = "time"
    BY <2>1, <2>3
  <2> QED BY <2>3, <2>4, <2>5, <2>6, <2>7 DEF CallsOweIn
<1>3. CASE todo.status \in {"success", "failure"} /\ todo.calls = <<>>
  <2>1. q = api
    BY <1>1, <1>3
  <2>2. /\ answers' \in [Session -> Seq(Answered)]
        /\ \A t \in Session : Owner[t] \notin clients => answers'[t] = answers[t]
        /\ \A t \in Session : Owner[t] \in clients =>
              /\ Len(answers[t]) \in Nat
              /\ Len(answers'[t]) = Len(answers[t]) + (IF t = s THEN 1 ELSE 0)
    BY <1>3, TellsNow
  <2>3. \A t \in Session : HowMany(api, CallsFor(t)) \in Nat
    BY <1>1, CountBoth
  <2>4. ASSUME NEW t \in Session, Owner[t] \in clients
        PROVE  /\ HowMany(api, CallsFor(t)) \in Nat /\ Len(answers[t]) \in Nat
               /\ HowMany(q, CallsFor(t)) + Len(answers'[t])
                    = HowMany(api, CallsFor(t)) + Len(answers[t]) + (IF t = s THEN 1 ELSE 0)
    <3>1. PICK x, y, z : /\ x = HowMany(api, CallsFor(t)) /\ y = Len(answers'[t])
                         /\ z = Len(answers[t])
      OBVIOUS
    <3>2. x \in Nat /\ z \in Nat /\ y = z + (IF t = s THEN 1 ELSE 0)
      BY <2>2, <2>3, <2>4, <3>1
    <3>3. x + y = x + z + (IF t = s THEN 1 ELSE 0)
      BY <3>2
    <3> QED BY <2>1, <3>1, <3>2, <3>3
  <2> QED BY <1>1, <2>1, <2>2, <2>4 DEF CallsOweIn
<1> QED BY <1>2, <1>3 DEF Answering

CallsOwe(s) == CallsOweIn(api', s)

LEMMA TodoDoes ==
  ASSUME TrTyped, NEW s \in Session, NEW request \in Owing, NEW todo,
         Answering(todo, s, request), NEW told \in Request, api' = api \o todo.calls,
         Tell(s, told, todo.status)
  PROVE  /\ api' \in Seq(ProperCall) /\ answers' \in [Session -> Seq(Answered)]
         /\ \A c \in ToSet(api') : c \in ToSet(api) \/ c.by = "time"
         /\ CallsOwe(s)
  BY TodoIn DEF CallsOwe

LEMMA WaitingCounts ==
  ASSUME NEW q \in Seq(Message), NEW m \in Message
  PROVE  /\ Append(q, m) \in Seq(Message)
         /\ \A t \in Session :
              /\ HowMany(q, WaitsFor(t)) \in Nat
              /\ HowMany(Append(q, m), WaitsFor(t))
                   = HowMany(q, WaitsFor(t)) + (IF t = m.s THEN 1 ELSE 0)
<1>2. ASSUME NEW t \in Session
      PROVE  /\ HowMany(q, WaitsFor(t)) \in Nat
             /\ HowMany(Append(q, m), WaitsFor(t))
                   = HowMany(q, WaitsFor(t)) + (IF m \in WaitsFor(t) THEN 1 ELSE 0)
  BY CountAppend
<1> QED BY <1>2 DEF WaitsFor

LEMMA OwesFromCalls ==
  ASSUME TrTyped, NEW s \in Session, pending' = pending, CallsOwe(s),
         api' \in Seq(ProperCall), answers' \in [Session -> Seq(Answered)]
  PROVE  OwesOne(s)
<1>1. ASSUME NEW t \in Session, Owner[t] \in clients
      PROVE  Given(t)' = Given(t) + (IF t = s THEN 1 ELSE 0)
  <2>1. HowMany(pending, WaitsFor(t)) \in Nat /\ HowMany(api', CallsFor(t)) \in Nat
    BY TrTypesParts, CountBoth
  <2>2. PICK x, y, z, w, u : /\ x = HowMany(api, CallsFor(t)) /\ y = Len(answers[t])
                             /\ z = HowMany(api', CallsFor(t)) /\ w = Len(answers'[t])
                             /\ u = HowMany(pending, WaitsFor(t))
    OBVIOUS
  <2>3. /\ x \in Nat /\ y \in Nat /\ z \in Nat /\ w \in Nat /\ u \in Nat
        /\ z + w = x + y + (IF t = s THEN 1 ELSE 0)
    BY <1>1, <2>1, <2>2 DEF CallsOwe, CallsOweIn
  <2>4. z + u + w = x + u + y + (IF t = s THEN 1 ELSE 0)
    BY <2>3
  <2> QED BY <2>2, <2>4 DEF Given
<1> QED BY <1>1 DEF OwesOne, CallsOwe, CallsOweIn

LEMMA DistanceDoes ==
  ASSUME TrTyped, NEW s \in Session, NEW cmd \in {"start", "stop"},
         NEW opt \in Option \cup {None}, NEW request \in {"start", "update", "stop", "switch"},
         request \in {"update", "switch"} => opt \in Option,
         api' = Append(api, DistanceCall(cmd, s, opt, request)), answers' = answers
  PROVE  api' \in Seq(ProperCall) /\ CallsOwe(s)
<1>1. PICK c : c = DistanceCall(cmd, s, opt, request)
  OBVIOUS
<1>2. c \in ProperCall /\ c.s = s /\ c.request = request
  BY <1>1, DistanceCallTypes DEF Request
<1>3. api \in Seq(ProperCall) /\ api' = Append(api, c) /\ answers \in [Session -> Seq(Answered)]
  BY <1>1, TrTypesParts
<1>4. /\ api' \in Seq(ProperCall)
      /\ \A t \in Session :
           /\ HowMany(api, CallsFor(t)) \in Nat
           /\ HowMany(api', CallsFor(t)) = HowMany(api, CallsFor(t))
                + (IF t = s /\ c.request \in Owing THEN 1 ELSE 0)
  BY <1>2, <1>3, CallsCount
<1>6. ASSUME NEW t \in Session
      PROVE  /\ HowMany(api, CallsFor(t)) \in Nat /\ Len(answers[t]) \in Nat
             /\ HowMany(api', CallsFor(t)) + Len(answers'[t])
                  = HowMany(api, CallsFor(t)) + Len(answers[t]) + (IF t = s THEN 1 ELSE 0)
  <2>1. PICK x, y, z : /\ x = HowMany(api, CallsFor(t)) /\ y = HowMany(api', CallsFor(t))
                       /\ z = Len(answers[t])
    OBVIOUS
  <2> QED BY <1>2, <1>3, <1>4, <2>1 DEF Owing
<1> QED BY <1>4, <1>6 DEF CallsOwe, CallsOweIn

LEMMA WaitingDoes ==
  ASSUME TrTyped, NEW s \in Session, NEW m \in Message, m.s = s, pending' = Append(pending, m),
         UNCHANGED <<timeBased, distanceBased, api, answers>>
  PROVE  HandlerDoes(s)
<1>1. /\ timeBased \in [Session -> TimeOption \cup {None}]
      /\ distanceBased \in [Session -> DistanceOption \cup {None}]
      /\ pending \in Seq(Message) /\ api \in Seq(ProperCall) /\ answers \in [Session -> Seq(Answered)]
  BY TrTypesParts
<1>2. /\ pending' \in Seq(Message)
      /\ \A t \in Session :
           /\ HowMany(pending, WaitsFor(t)) \in Nat
           /\ HowMany(pending', WaitsFor(t))
                = HowMany(pending, WaitsFor(t)) + (IF t = m.s THEN 1 ELSE 0)
  BY <1>1, WaitingCounts
<1>3. ASSUME NEW t \in Session PROVE Given(t)' = Given(t) + (IF t = s THEN 1 ELSE 0)
  <2>1. HowMany(api, CallsFor(t)) \in Nat
    BY <1>1, CountBoth
  <2>2. PICK x, y, z, u : /\ x = HowMany(api, CallsFor(t)) /\ y = HowMany(pending, WaitsFor(t))
                          /\ z = Len(answers[t]) /\ u = HowMany(pending', WaitsFor(t))
    OBVIOUS
  <2>4. Given(t) = x + y + z /\ Given(t)' = x + u + z
    BY <2>2 DEF Given
  <2> QED BY <1>1, <1>2, <2>1, <2>2, <2>4
<1> QED BY <1>1, <1>2, <1>3 DEF HandlerDoes, HandlerTypes, NoDistance, OwesOne

LEMMA SavesAndErases ==
  ASSUME TrTyped, NEW s
  PROVE  /\ \A opt \in Option : Save(s, opt) =>
              /\ timeBased' \in [Session -> TimeOption \cup {None}]
              /\ distanceBased' \in [Session -> DistanceOption \cup {None}]
              /\ ~opt.distance => distanceBased' = distanceBased
         /\ Erase(s) =>
              /\ timeBased' \in [Session -> TimeOption \cup {None}]
              /\ distanceBased' \in [Session -> DistanceOption \cup {None}]
              /\ \A t \in Session : distanceBased[t] = None => distanceBased'[t] = None
  BY TrTypesParts DEF Save, Erase, Without, TimeOption, DistanceOption

LEMMA StartDoes ==
  ASSUME TrTyped, NEW s \in Session, NEW opt \in Option, StartTracking(s, opt)
  PROVE  HandlerDoes(s)
<1>1. /\ timeBased \in [Session -> TimeOption \cup {None}]
      /\ distanceBased \in [Session -> DistanceOption \cup {None}]
      /\ pending \in Seq(Message) /\ api \in Seq(ProperCall) /\ answers \in [Session -> Seq(Answered)]
  BY TrTypesParts
<1>2. CASE /\ ~known /\ opt.distance
           /\ pending' = Append(pending,
                [kind |-> "message", request |-> "start", s |-> s, opt |-> opt])
           /\ UNCHANGED <<maps, api, answers>>
  <2>1. PICK m : m = [kind |-> "message", request |-> "start", s |-> s, opt |-> opt]
    OBVIOUS
  <2>2. m \in Message /\ m.s = s /\ pending' = Append(pending, m)
    BY <1>2, <2>1 DEF Message
  <2>3. UNCHANGED <<timeBased, distanceBased, api, answers>>
    BY <1>2 DEF maps
  <2> QED BY <2>2, <2>3, WaitingDoes
<1>3. CASE /\ UNCHANGED pending /\ Owner[s] \notin clients /\ UNCHANGED <<maps, api, answers>>
  <2>1. UNCHANGED <<timeBased, distanceBased, api, answers, pending>>
    BY <1>3 DEF maps
  <2>2. ASSUME NEW t \in Session, Owner[t] \in clients PROVE Given(t)' = Given(t) + 0 /\ t # s
    <3>1. HowMany(api, CallsFor(t)) \in Nat /\ HowMany(pending, WaitsFor(t)) \in Nat
      BY <1>1, CountBoth
    <3>2. Len(answers[t]) \in Nat
      BY <1>1
    <3>3. Given(t) \in Nat
      BY <3>1, <3>2 DEF Given
    <3>4. Given(t)' = Given(t)
      BY <2>1 DEF Given
    <3> QED BY <1>3, <2>2, <3>3, <3>4
  <2>3. OwesOne(s)
    BY <2>1, <2>2 DEF OwesOne
  <2> QED BY <1>1, <2>1, <2>3 DEF HandlerDoes, HandlerTypes, NoDistance
<1>4. CASE /\ known \/ ~opt.distance
           /\ UNCHANGED pending /\ opt.distance /\ Save(s, opt)
           /\ api' = Append(api, DistanceCall("start", s, opt, "start"))
           /\ UNCHANGED answers
  <2>1. api' \in Seq(ProperCall) /\ CallsOwe(s)
    BY <1>4, DistanceDoes
  <2>2. OwesOne(s)
    BY <1>1, <1>4, <2>1, OwesFromCalls
  <2>3. HandlerTypes
    BY <1>1, <1>4, <2>1, SavesAndErases DEF HandlerTypes
  <2> QED BY <1>4, <2>2, <2>3 DEF HandlerDoes
<1>5. CASE /\ UNCHANGED pending /\ ~opt.distance /\ Save(s, opt)
           /\ LET todo == StartMultiplex(s, opt, "start")
              IN api' = api \o todo.calls /\ Tell(s, "start", todo.status)
  <2>1. PICK todo : todo = StartMultiplex(s, opt, "start")
    OBVIOUS
  <2>2. /\ "start" \in Owing /\ "start" \in Request
        /\ api' = api \o todo.calls /\ Tell(s, "start", todo.status)
    BY <1>5, <2>1 DEF Owing, Request
  <2>3. Answering(todo, s, "start")
    BY <2>1, <2>2, TodosAnswer
  <2>4. /\ CallsOwe(s) /\ api' \in Seq(ProperCall) /\ answers' \in [Session -> Seq(Answered)]
        /\ \A c \in ToSet(api') : c \in ToSet(api) \/ c.by = "time"
    BY <2>2, <2>3, TodoDoes
  <2>5. OwesOne(s)
    BY <1>5, <2>4, OwesFromCalls
  <2>6. HandlerTypes /\ distanceBased' = distanceBased
    BY <1>1, <1>5, <2>4, SavesAndErases DEF HandlerTypes
  <2>7. NoDistance => NoDistance'
    BY <2>4, <2>6 DEF NoDistance
  <2> QED BY <2>5, <2>6, <2>7 DEF HandlerDoes
<1> QED BY <1>2, <1>3, <1>4, <1>5 DEF StartTracking

(* An answer at once *)
LEMMA AtOnceOwes ==
  ASSUME TrTyped, NEW s \in Session, NEW request \in Request, NEW status \in {"success", "failure"},
         Tell(s, request, status), UNCHANGED <<api, pending>>
  PROVE  OwesOne(s) /\ answers' \in [Session -> Seq(Answered)]
<1>1. pending \in Seq(Message) /\ api \in Seq(ProperCall)
  BY TrTypesParts
<1>2. /\ answers' \in [Session -> Seq(Answered)]
      /\ \A t \in Session : Owner[t] \notin clients => answers'[t] = answers[t]
      /\ \A t \in Session : Owner[t] \in clients =>
              /\ Len(answers[t]) \in Nat
              /\ Len(answers'[t]) = Len(answers[t]) + (IF t = s THEN 1 ELSE 0)
  BY TellsNow
<1>3. ASSUME NEW t \in Session, Owner[t] \in clients
      PROVE  Given(t)' = Given(t) + (IF t = s THEN 1 ELSE 0)
  <2>1. HowMany(api, CallsFor(t)) \in Nat /\ HowMany(pending, WaitsFor(t)) \in Nat
    BY <1>1, CountBoth
  <2>2. PICK x, y, z, w : /\ x = HowMany(api, CallsFor(t)) /\ y = HowMany(pending, WaitsFor(t))
                          /\ z = Len(answers[t]) /\ w = Len(answers'[t])
    OBVIOUS
  <2>3. x \in Nat /\ y \in Nat /\ z \in Nat /\ w = z + (IF t = s THEN 1 ELSE 0)
    BY <1>2, <1>3, <2>1, <2>2
  <2>4. Given(t) = x + y + z /\ Given(t)' = x + y + w
    BY <2>2 DEF Given
  <2> QED BY <2>3, <2>4
<1> QED BY <1>2, <1>3 DEF OwesOne

LEMMA AtOnceDoes ==
  ASSUME TrTyped, NEW s \in Session, NEW request \in Request, NEW status \in {"success", "failure"},
         Tell(s, request, status), UNCHANGED <<timeBased, distanceBased, api, pending>>
  PROVE  HandlerDoes(s)
  BY AtOnceOwes, TrTypesParts DEF HandlerDoes, HandlerTypes, NoDistance

(* A call for nobody changes no count *)
LEMMA CallForNobody ==
  ASSUME TrTyped, NEW s \in Session, NEW c \in ProperCall, c.s = s, c.request \notin Owing,
         NEW q \in Seq(ProperCall), CallsOweIn(q, s), api' = Append(q, c)
  PROVE  api' \in Seq(ProperCall) /\ CallsOwe(s)
  BY CallsCount DEF CallsOwe, CallsOweIn

LEMMA UpdateSessionDoes ==
  ASSUME TrTyped, NEW s \in Session, NEW opt \in Option, UpdateSession(s, opt),
         pending' = pending
  PROVE  /\ HandlerTypes /\ OwesOne(s)
         /\ ~opt.distance /\ NoDistance => NoDistance'
<1>1. /\ timeBased \in [Session -> TimeOption \cup {None}]
      /\ distanceBased \in [Session -> DistanceOption \cup {None}]
      /\ pending \in Seq(Message) /\ api \in Seq(ProperCall) /\ answers \in [Session -> Seq(Answered)]
  BY TrTypesParts
<1>2. "update" \in Owing /\ "update" \in Request
  BY DEF Owing, Request
<1>3. CASE /\ timeBased[s] # None /\ opt.distance
           /\ LET todo == StopMultiplex(timeBased, s, "update")
              IN /\ api' = api \o todo.calls \o <<DistanceCall("start", s, opt, "none")>>
                 /\ Tell(s, "update", todo.status)
           /\ timeBased' = Without(timeBased, s)
           /\ distanceBased' = [distanceBased EXCEPT ![s] = opt]
  <2>1. PICK todo : todo = StopMultiplex(timeBased, s, "update")
    OBVIOUS
  <2>2. PICK c : c = DistanceCall("start", s, opt, "none")
    OBVIOUS
  <2>3. PICK q : q = api \o todo.calls
    OBVIOUS
  <2>4. Answering(todo, s, "update")
    BY <1>2, <2>1, TodosAnswer, TrTypesParts
  <2>5. api' = q \o <<c>> /\ Tell(s, "update", todo.status)
    BY <1>3, <2>1, <2>2, <2>3
  <2>6. c \in ProperCall /\ c.s = s /\ c.request \notin Owing
    BY <2>2 DEF DistanceCall, ProperCall, Call, Owing
  <2>7. /\ q \in Seq(ProperCall) /\ answers' \in [Session -> Seq(Answered)] /\ CallsOweIn(q, s)
    BY <1>2, <2>3, <2>4, <2>5, TodoIn
  <2>9. api' \in Seq(ProperCall) /\ CallsOwe(s)
    BY <2>5, <2>6, <2>7, CallForNobody, AppendIsConcat
  <2> QED BY <1>1, <1>3, <2>7, <2>9, OwesFromCalls DEF HandlerTypes, Without, DistanceOption
<1>4. CASE /\ distanceBased[s] # None /\ ~opt.distance
           /\ Erase(s)
           /\ api' = Append(api, DistanceCall("stop", s, opt, "switch"))
           /\ UNCHANGED answers
  BY <1>1, <1>4, DistanceDoes, OwesFromCalls, SavesAndErases DEF HandlerTypes, NoDistance
<1>5. CASE /\ ~opt.distance
           /\ LET todo == UpdateMultiplex(s, opt)
              IN api' = api \o todo.calls /\ Tell(s, "update", todo.status)
           /\ Save(s, opt)
  <2>1. PICK todo : todo = UpdateMultiplex(s, opt)
    OBVIOUS
  <2>4. /\ CallsOwe(s) /\ api' \in Seq(ProperCall) /\ answers' \in [Session -> Seq(Answered)]
        /\ \A c \in ToSet(api') : c \in ToSet(api) \/ c.by = "time"
    BY <1>2, <1>5, <2>1, TodoDoes, TodosAnswer
  <2> QED BY <1>1, <1>5, <2>4, SavesAndErases, OwesFromCalls DEF NoDistance, HandlerTypes
<1>6. CASE /\ opt.distance
           /\ api' = Append(api, DistanceCall("stop", s, opt, "update"))
           /\ UNCHANGED <<maps, answers>>
  BY <1>1, <1>6, DistanceDoes, OwesFromCalls DEF HandlerTypes, maps
<1> QED BY <1>3, <1>4, <1>5, <1>6 DEF UpdateSession

LEMMA UpdateDoes ==
  ASSUME TrTyped, NEW s \in Session, NEW opt \in Option, UpdateTracking(s, opt)
  PROVE  HandlerDoes(s)
<1>1. CASE /\ pending' = Append(pending,
                [kind |-> "message", request |-> "update", s |-> s, opt |-> opt])
           /\ UNCHANGED <<maps, api, answers>>
  <2>1. PICK m : m = [kind |-> "message", request |-> "update", s |-> s, opt |-> opt]
    OBVIOUS
  <2> QED BY <1>1, <2>1, WaitingDoes DEF Message, maps
<1>2. CASE (known \/ ~opt.distance) /\ UNCHANGED pending /\ UpdateSession(s, opt)
  BY <1>2, UpdateSessionDoes DEF HandlerDoes
<1>3. CASE UNCHANGED pending /\ Tell(s, "update", "failure") /\ UNCHANGED <<maps, api>>
  BY <1>3, AtOnceDoes DEF maps, Request
<1> QED BY <1>1, <1>2, <1>3 DEF UpdateTracking

LEMMA StopDoes ==
  ASSUME TrTyped, NEW s \in Session, StopTracking(s), pending' = pending
  PROVE  HandlerDoes(s)
<1>1. /\ timeBased \in [Session -> TimeOption \cup {None}]
      /\ distanceBased \in [Session -> DistanceOption \cup {None}]
      /\ pending \in Seq(Message) /\ api \in Seq(ProperCall) /\ answers \in [Session -> Seq(Answered)]
  BY TrTypesParts
<1>2. "stop" \in Owing /\ "stop" \in Request
  BY DEF Owing, Request
<1>3. CASE /\ LET todo == StopMultiplex(timeBased, s, "stop")
              IN api' = api \o todo.calls /\ Tell(s, "stop", todo.status)
           /\ Erase(s)
  <2>1. PICK todo : todo = StopMultiplex(timeBased, s, "stop")
    OBVIOUS
  <2>4. /\ CallsOwe(s) /\ api' \in Seq(ProperCall) /\ answers' \in [Session -> Seq(Answered)]
        /\ \A c \in ToSet(api') : c \in ToSet(api) \/ c.by = "time"
    BY <1>2, <1>3, <2>1, TodoDoes, TodosAnswer, TrTypesParts
  <2> QED BY <1>1, <1>3, <2>4, SavesAndErases, OwesFromCalls DEF HandlerDoes, NoDistance,
    HandlerTypes
<1>4. CASE /\ distanceBased[s] # None
           /\ api' = Append(api, DistanceCall("stop", s, None, "stop"))
           /\ UNCHANGED <<maps, answers>>
  BY <1>1, <1>4, DistanceDoes, OwesFromCalls DEF HandlerTypes, maps, HandlerDoes, NoDistance
<1>5. CASE Tell(s, "stop", "failure") /\ UNCHANGED <<maps, api>>
  BY <1>2, <1>5, AtOnceDoes DEF maps
<1> QED BY <1>3, <1>4, <1>5 DEF StopTracking

-----------------------------------------------------------------------------
(* Tracking: the answers that are due.  A request is owed one until it is  *)
(* given, or until the modem refuses to stop a session for its update.     *)

NothingFailed == events["restart"] = 0 /\ events["refusal"] = 0

DueOK ==
  /\ \A s \in Session : Owner[s] \in clients =>
       /\ Due(s) <= Len(asked[s])
       /\ NothingFailed => Due(s) = Len(asked[s])
  /\ \A s \in Session : Len(answers[s]) <= Len(asked[s])

ByTime(m) == m \in ProperReply /\ m.call.by = "time"
EarlyOK ==
  ~up /\ events["restart"] = 0 =>
    ~known /\ NoDistance /\ \A m \in ToSet(inbox) : ByTime(m)

Refuses(m) == m \in ProperReply /\ m.call.by = "distance" /\ m.call.cmd = "stop" /\ ~m.ok
StopsOK == NothingFailed => \A m \in ToSet(inbox) : ~Refuses(m)

RqInv == TrTyped /\ DueOK /\ EarlyOK /\ StopsOK

(* What is due of s does not grow, but with what is asked; and if nothing  *)
(* fails it stays                                                          *)
DueStep(s) ==
  /\ Due(s)' + Len(asked[s]) <= Due(s) + Len(asked'[s])
  /\ NothingFailed' => Due(s)' + Len(asked[s]) = Due(s) + Len(asked'[s])

DueTyped ==
  \A s \in Session :
    /\ HowMany(api, CallsFor(s)) \in Nat /\ HowMany(pending, WaitsFor(s)) \in Nat
    /\ HowMany(inbox, RepliesFor(s) \cup WaitsFor(s)) \in Nat
    /\ Len(answers[s]) \in Nat /\ Len(asked[s]) \in Nat
    /\ Given(s) \in Nat /\ Due(s) \in Nat /\ Len(answers[s]) <= Due(s)

LEMMA DueTypes == TrTyped => DueTyped
<1> SUFFICES ASSUME TrTyped, NEW s \in Session
             PROVE  /\ HowMany(api, CallsFor(s)) \in Nat /\ HowMany(pending, WaitsFor(s)) \in Nat
                    /\ HowMany(inbox, RepliesFor(s) \cup WaitsFor(s)) \in Nat
                    /\ Len(answers[s]) \in Nat /\ Len(asked[s]) \in Nat
                    /\ Given(s) \in Nat /\ Due(s) \in Nat /\ Len(answers[s]) <= Due(s)
  BY DEF DueTyped
<1>1. /\ HowMany(api, CallsFor(s)) \in Nat /\ HowMany(pending, WaitsFor(s)) \in Nat
      /\ HowMany(inbox, RepliesFor(s) \cup WaitsFor(s)) \in Nat
  BY TrTypesParts, CountBoth
<1>2. Len(answers[s]) \in Nat /\ Len(asked[s]) \in Nat
  BY TrTypesParts
<1> QED BY <1>1, <1>2 DEF Given, Due

LEMMA DueStays ==
  ASSUME TrTyped, TrTyped', DueOK, clients' \subseteq clients,
         NothingFailed' => NothingFailed,
         \A t \in Session : Owner[t] \in clients' => DueStep(t),
         \A t \in Session : Owner[t] \notin clients' =>
           answers'[t] = answers[t] /\ asked'[t] = asked[t]
  PROVE  DueOK'
<1>1. ASSUME NEW s \in Session, Owner[s] \in clients'
      PROVE  /\ Due(s)' <= Len(asked'[s])
             /\ NothingFailed' => Due(s)' = Len(asked'[s])
             /\ Len(answers'[s]) <= Len(asked'[s])
  <2>1. PICK d, e, a, b, n : /\ d = Due(s) /\ e = Due(s)' /\ a = Len(asked[s])
                             /\ b = Len(asked'[s]) /\ n = Len(answers'[s])
    OBVIOUS
  <2>2. d \in Nat /\ a \in Nat
    BY <2>1, DueTypes DEF DueTyped
  <2>3. e \in Nat /\ b \in Nat /\ n \in Nat /\ n <= e
    <3>1. TrTyped' => DueTyped'
      BY DueTypes, PTL
    <3> QED BY <2>1, <3>1 DEF DueTyped
  <2>4. d <= a /\ (NothingFailed => d = a)
    BY <1>1, <2>1 DEF DueOK
  <2>5. e + a <= d + b /\ (NothingFailed' => e + a = d + b)
    BY <1>1, <2>1 DEF DueStep
  <2>6. e <= b /\ n <= b
    BY <2>2, <2>3, <2>4, <2>5
  <2>7. ASSUME NothingFailed' PROVE e = b
    BY <2>2, <2>3, <2>4, <2>5, <2>7
  <2> QED BY <2>1, <2>6, <2>7
<1>2. ASSUME NEW s \in Session, Owner[s] \notin clients' PROVE Len(answers'[s]) <= Len(asked'[s])
  BY <1>2 DEF DueOK
<1> QED BY <1>1, <1>2 DEF DueOK

(* Calls at the end that no answer of s will come of *)
LEMMA CallsAdded ==
  ASSUME NEW q \in Seq(ProperCall), NEW more \in Seq(ProperCall), NEW s \in Session,
         \A c \in ToSet(more) : c \notin CallsFor(s)
  PROVE  /\ HowMany(q \o more, CallsFor(s)) = HowMany(q, CallsFor(s))
  BY SilentElements, CountZero, CountBoth

(* A step that adds no more than calls for nobody, or events *)
LEMMA NothingAsked ==
  ASSUME TrTyped, NEW s \in Session,
         UNCHANGED <<pending, answers, asked>>,
         HowMany(api', CallsFor(s)) = HowMany(api, CallsFor(s)),
         HowMany(inbox', RepliesFor(s) \cup WaitsFor(s))
           = HowMany(inbox, RepliesFor(s) \cup WaitsFor(s))
  PROVE  DueStep(s)
  BY DueTypes DEF Due, Given, DueTyped, DueStep

LEMMA EventTypes ==
  ASSUME TrTyped, NEW kind \in EventKind, Count(kind)
  PROVE  /\ events' \in [EventKind -> Nat]
         /\ events'["restart"] = 0 => events["restart"] = 0 /\ kind # "restart"
         /\ events'["refusal"] = 0 => events["refusal"] = 0 /\ kind # "refusal"
  BY DEF TrTyped, Count, EventKind

LEMMA AskDoes ==
  ASSUME RqInv, NEW s \in Session, NEW request \in Request, Ask(s, request), HandlerDoes(s)
  PROVE  RqInv'
<1>1. /\ asked' = [asked EXCEPT ![s] = Append(@, request)]
      /\ UNCHANGED <<power, known, clients, inbox, up, locked, engineTime, engineDistance,
                     failed, events>>
  BY DEF Ask, modem
<1>2. /\ asked' \in [Session -> Seq(Request)]
      /\ \A t \in Session : /\ Len(asked[t]) \in Nat
                            /\ Len(asked'[t]) = Len(asked[t]) + (IF t = s THEN 1 ELSE 0)
                            /\ t # s => asked'[t] = asked[t]
  <2>1. asked \in [Session -> Seq(Request)]
    BY TrTypesParts DEF RqInv
  <2> QED BY <1>1, <2>1
<1>3. TrTyped'
  BY <1>1, <1>2 DEF RqInv, TrTyped, HandlerDoes, HandlerTypes
<1>4. ASSUME NEW t \in Session, Owner[t] \in clients' PROVE DueStep(t)
  <2>1. PICK g, h, i, a, b : /\ g = Given(t) /\ h = Given(t)' /\ a = Len(asked[t])
                             /\ i = HowMany(inbox, RepliesFor(t) \cup WaitsFor(t))
                             /\ b = Len(asked'[t])
    OBVIOUS
  <2>2. g \in Nat /\ i \in Nat /\ a \in Nat
    BY <2>1, DueTypes DEF RqInv, DueTyped
  <2>3. h = g + (IF t = s THEN 1 ELSE 0) /\ b = a + (IF t = s THEN 1 ELSE 0)
    BY <1>1, <1>2, <1>4, <2>1 DEF HandlerDoes, OwesOne
  <2>5. (h + i) + a = (g + i) + b /\ (h + i) + a <= (g + i) + b
    BY <2>2, <2>3
  <2> QED BY <1>1, <2>1, <2>5 DEF DueStep, Due
<1>6. DueOK'
  BY <1>1, <1>2, <1>3, <1>4, DueStays DEF RqInv, NothingFailed, HandlerDoes, OwesOne, Ask
<1> QED BY <1>1, <1>3, <1>6 DEF RqInv, EarlyOK, HandlerDoes, StopsOK, NothingFailed

LEMMA CommandsDo ==
  ASSUME RqInv,
         \/ \E s \in Session, opt \in Option : StartTrackingCommand(s, opt)
         \/ \E s \in Session, opt \in Option : UpdateTrackingCommand(s, opt)
         \/ \E s \in Session : StopTrackingCommand(s)
  PROVE  RqInv'
<1>1. TrTyped /\ {"start", "update", "stop"} \subseteq Request
  BY DEF RqInv, Request
<1>2. CASE \E s \in Session, opt \in Option : StartTrackingCommand(s, opt)
  BY <1>1, <1>2, StartDoes, AskDoes DEF StartTrackingCommand
<1>3. CASE \E s \in Session, opt \in Option : UpdateTrackingCommand(s, opt)
  BY <1>1, <1>3, UpdateDoes, AskDoes DEF UpdateTrackingCommand
<1>4. CASE \E s \in Session : StopTrackingCommand(s)
  BY <1>1, <1>4, StopDoes, AskDoes DEF StopTrackingCommand
<1> QED BY <1>2, <1>3, <1>4

(* Calls for nobody *)
ForNobody(q) ==
  /\ q \in Seq(ProperCall)
  /\ \A c \in ToSet(q) : c.request \notin Owing

LEMMA JoinedForNobody ==
  ASSUME NEW a, NEW b, ForNobody(a), ForNobody(b)
  PROVE  ForNobody(a \o b)
  BY ElementsOfBoth, ConcatProperties DEF ForNobody

LEMMA OneForNobody ==
  ASSUME NEW c \in ProperCall, c.request \notin Owing
  PROVE  ForNobody(<<c>>) /\ ForNobody(<<>>)
  BY ElementsOfOne DEF ToSet, ForNobody

LEMMA NoCallForNobody ==
  ForNobody(<<>>) /\ ToSet(<<>>) = {}
  BY DEF ForNobody, ToSet

LEMMA SessionsInOrder ==
  ASSUME NEW T, T \subseteq Session, NEW order \in SetToSeqs(T)
  PROVE  order \in Seq(T)
  BY SessionAssumption, FS_Subset, FS_CardinalityType DEF SetToSeqs

LEMMA RestartsForNobody ==
  ASSUME TrTyped, NEW order \in MapOrders
  PROVE  /\ ForNobody(RestartCalls(order))
         /\ (\A s \in Session : distanceBased[s] = None) =>
              \A c \in ToSet(RestartCalls(order)) : c.by = "time"
<1>2. order \in Seq(SessionsOf(distanceBased))
  BY SessionsInOrder DEF MapOrders, SessionsOf
<1> DEFINE t == IF SessionsOf(timeBased) = {} THEN <<>>
                ELSE <<TimeCall("start", None, Wanted(timeBased), "none", None)>>
           d == [i \in DOMAIN order |->
                   DistanceCall("start", order[i], distanceBased[order[i]], "none")]
<1>3. ForNobody(t) /\ \A c \in ToSet(t) : c.by = "time"
  <2>1. PICK c : c = TimeCall("start", None, Wanted(timeBased), "none", None)
    OBVIOUS
  <2>3. c \in ProperCall /\ c.request \notin Owing /\ c.by = "time"
    BY <2>1, TrTypesParts, WantedTypes DEF TimeCall, ProperCall, Call, Owing
  <2>4. ForNobody(<<c>>) /\ ForNobody(<<>>) /\ ToSet(<<c>>) = {c} /\ ToSet(<<>>) = {}
    BY <2>3, OneForNobody DEF ToSet
  <2>5. t = <<>> \/ t = <<c>>
    BY <2>1
  <2> HIDE DEF t
  <2> QED BY <2>3, <2>4, <2>5
<1>4. ASSUME NEW i \in DOMAIN order
      PROVE  /\ d[i] \in ProperCall /\ d[i].request \notin Owing
             /\ distanceBased[order[i]] # None /\ order[i] \in Session
  <2>2. /\ order[i] \in Session /\ distanceBased[order[i]] \in Option
        /\ distanceBased[order[i]] # None
    BY <1>2, TrTypesParts DEF SessionsOf, DistanceOption
  <2>3. d[i] = DistanceCall("start", order[i], distanceBased[order[i]], "none")
    OBVIOUS
  <2> HIDE DEF d
  <2> QED BY <2>2, <2>3 DEF DistanceCall, ProperCall, Call, Owing
<1>5. DOMAIN order = 1..Len(order) /\ Len(order) \in Nat
  BY <1>2
<1>6. d \in Seq(ProperCall) /\ DOMAIN d = DOMAIN order
  <2>1. d \in [1..Len(order) -> ProperCall]
    BY <1>4, <1>5
  <2> HIDE DEF d
  <2> QED BY <1>5, <2>1
<1>7. \A c \in ToSet(d) : \E i \in DOMAIN order : c = d[i]
  <2> HIDE DEF d
  <2> QED BY <1>6 DEF ToSet
<1> HIDE DEF d, t
<1>8. ForNobody(d)
  BY <1>4, <1>6, <1>7 DEF ForNobody
<1>12. ToSet(t \o d) = ToSet(t) \cup ToSet(d)
  BY <1>3, <1>8, ElementsOfBoth DEF ForNobody
<1> QED BY <1>3, <1>4, <1>7, <1>8, <1>12, JoinedForNobody DEF t, d, RestartCalls

LEMMA PowerForNobody ==
  ASSUME TrTyped, NEW order \in MapOrders, NEW p
  PROVE  /\ ForNobody(PowerCalls(p, order))
         /\ (\A s \in Session : distanceBased[s] = None) =>
              \A c \in ToSet(PowerCalls(p, order)) : c.by = "time"
<1>1. ForNobody(SuspendCalls) /\ \A c \in ToSet(SuspendCalls) : c.by = "time"
  <2>1. PICK c : c = TimeCall("stop", None, None, "none", None)
    OBVIOUS
  <2>2. c \in ProperCall /\ c.request \notin Owing /\ c.by = "time"
    BY <2>1 DEF TimeCall, ProperCall, Call, Owing
  <2> QED BY <2>1, <2>2, OneForNobody DEF SuspendCalls, ToSet
<1> QED BY <1>1, NoCallForNobody, RestartsForNobody DEF PowerCalls

(* What is called for nobody is not owed *)
LEMMA NobodyIsOwed ==
  ASSUME TrTyped, NEW q, ForNobody(q), api' = api \o q
  PROVE  /\ api' \in Seq(ProperCall) /\ ToSet(api') = ToSet(api) \cup ToSet(q)
         /\ \A s \in Session : HowMany(api', CallsFor(s)) = HowMany(api, CallsFor(s))
<1>1. api \in Seq(ProperCall) /\ q \in Seq(ProperCall)
  BY TrTypesParts DEF ForNobody
<1> QED BY <1>1, ElementsOfBoth, ConcatProperties, CallsAdded DEF ForNobody, CallsFor

(* A step in which nothing is asked and nobody told *)
LEMMA NobodyTold ==
  ASSUME RqInv, TrTyped', UNCHANGED <<pending, answers, asked, clients>>,
         NothingFailed' => NothingFailed,
         \A s \in Session :
           /\ HowMany(api', CallsFor(s)) = HowMany(api, CallsFor(s))
           /\ HowMany(inbox', RepliesFor(s) \cup WaitsFor(s))
                = HowMany(inbox, RepliesFor(s) \cup WaitsFor(s))
  PROVE  DueOK'
  BY NothingAsked, DueStays DEF RqInv

LEMMA PowerDoes ==
  ASSUME RqInv, NEW p \in {"suspended", "awake"}, UpdateSystemPowerState(p)
  PROVE  RqInv'
<1>1. TrTyped
  BY DEF RqInv
<1>2. PICK order \in MapOrders : api' = api \o PowerCalls(p, order)
  BY DEF UpdateSystemPowerState
<1>3. /\ Count("power") /\ power' = p
      /\ UNCHANGED <<timeBased, distanceBased, known, pending, clients, inbox, up, engineTime,
                     engineDistance, locked, asked, answers, failed>>
  BY DEF UpdateSystemPowerState, maps, modem
<1>4. /\ events' \in [EventKind -> Nat]
      /\ events'["restart"] = 0 => events["restart"] = 0
      /\ events'["refusal"] = 0 => events["refusal"] = 0
  BY <1>1, <1>3, EventTypes DEF EventKind
<1>5. /\ api' \in Seq(ProperCall)
      /\ ToSet(api') = ToSet(api) \cup ToSet(PowerCalls(p, order))
      /\ \A s \in Session : HowMany(api', CallsFor(s)) = HowMany(api, CallsFor(s))
  BY <1>1, <1>2, PowerForNobody, NobodyIsOwed
<1>10. EarlyOK'
  BY <1>1, <1>3, <1>4, <1>5, PowerForNobody DEF RqInv, EarlyOK, NoDistance
<1> QED BY <1>1, <1>3, <1>4, <1>5, <1>10, NobodyTold DEF RqInv, StopsOK, NothingFailed, TrTyped

(* What the modem says puts an event at the end of the queue, and nothing  *)
(* is due for it                                                           *)
LEMMA EventCounts ==
  ASSUME TrTyped, NEW e \in Event, inbox' = Append(inbox, e)
  PROVE  /\ inbox' \in Seq(Inboxes) /\ ToSet(inbox') = ToSet(inbox) \cup {e}
         /\ ~Refuses(e)
         /\ \A s \in Session : HowMany(inbox', RepliesFor(s) \cup WaitsFor(s))
                                 = HowMany(inbox, RepliesFor(s) \cup WaitsFor(s))
<1>1. inbox \in Seq(Inboxes) /\ e \in Inboxes
  BY TrTypesParts DEF Inboxes
<1>2. e.kind \in {"up", "lock"}
  BY DEF Event
<1>3. e \notin ProperReply
  BY <1>2 DEF ProperReply, Reply
<1>5. ASSUME NEW s \in Session
      PROVE  HowMany(inbox', RepliesFor(s) \cup WaitsFor(s))
                = HowMany(inbox, RepliesFor(s) \cup WaitsFor(s))
  <2>1. PICK B : B = RepliesFor(s) \cup WaitsFor(s)
    OBVIOUS
  <2> QED BY <1>1, <1>2, <1>3, <2>1, CountAppend DEF RepliesFor, WaitsFor, Message
<1> QED BY <1>1, <1>3, <1>5, ElementsWith DEF Refuses

LEMMA LockDoes ==
  ASSUME RqInv, NEW lock \in BOOLEAN, EngineLock(lock)
  PROVE  RqInv'
<1>1. TrTyped
  BY DEF RqInv
<1>2. PICK e : e = [kind |-> "lock", locked |-> lock]
  OBVIOUS
<1>3. /\ e \in Event /\ inbox' = Append(inbox, e) /\ up /\ Count("lock") /\ locked' = lock
      /\ engineTime' = IF lock THEN None ELSE engineTime
      /\ engineDistance' = IF lock THEN {} ELSE engineDistance
      /\ UNCHANGED <<timeBased, distanceBased, power, known, pending, clients, api, up, asked,
                     answers, failed>>
  BY <1>2 DEF EngineLock, Event, maps
<1>5. /\ events' \in [EventKind -> Nat]
      /\ events'["restart"] = 0 => events["restart"] = 0
      /\ events'["refusal"] = 0 => events["refusal"] = 0
  BY <1>1, <1>3, EventTypes DEF EventKind
<1>9. EarlyOK'
  BY <1>3 DEF EarlyOK
<1> QED BY <1>1, <1>3, <1>5, <1>9, NobodyTold, EventCounts DEF RqInv, StopsOK, Refuses,
  NothingFailed, TrTyped

LEMMA DownDoes ==
  ASSUME RqInv, ModemDown
  PROVE  RqInv'
<1>1. TrTyped
  BY DEF RqInv
<1>2. /\ Count("restart") /\ up' = FALSE /\ engineTime' = None /\ engineDistance' = {}
      /\ UNCHANGED <<timeBased, distanceBased, power, known, pending, clients, api, inbox, locked,
                     asked, answers, failed>>
  BY DEF ModemDown, maps, queues
<1>3. /\ events' \in [EventKind -> Nat] /\ events'["restart"] # 0
  BY <1>1, <1>2, EventTypes DEF EventKind
<1> QED BY <1>1, <1>2, <1>3, NobodyTold DEF RqInv, EarlyOK, StopsOK, NothingFailed, TrTyped

LEMMA UpDoes ==
  ASSUME RqInv, ModemUp
  PROVE  RqInv'
<1>1. TrTyped
  BY DEF RqInv
<1>2. PICK e : e = [kind |-> "up"]
  OBVIOUS
<1>3. /\ e \in Event /\ inbox' = Append(inbox, e) /\ up' = TRUE /\ locked' \in {locked, FALSE}
      /\ UNCHANGED <<timeBased, distanceBased, power, known, pending, clients, api, engineTime,
                     engineDistance, asked, answers, failed, events>>
  BY <1>2 DEF ModemUp, Event, maps
<1>4. /\ inbox' \in Seq(Inboxes) /\ ToSet(inbox') = ToSet(inbox) \cup {e} /\ ~Refuses(e)
      /\ \A s \in Session : HowMany(inbox', RepliesFor(s) \cup WaitsFor(s))
                              = HowMany(inbox, RepliesFor(s) \cup WaitsFor(s))
  BY <1>1, <1>3, EventCounts
<1>5. TrTyped'
  BY <1>1, <1>3, <1>4 DEF TrTyped
<1> QED BY <1>3, <1>4, <1>5, NobodyTold DEF RqInv, StopsOK, Refuses, NothingFailed, EarlyOK

(* A call is answered, or is for nobody *)
LEMMA AnswerDoes ==
  ASSUME TrTyped, NEW ok \in BOOLEAN, Answer(ok), api # <<>>, pending' = pending,
         answers' = answers, asked' = asked
  PROVE  /\ api' \in Seq(ProperCall) /\ inbox' \in Seq(Inboxes)
         /\ Head(api) \in ToSet(api) /\ Head(api) \in ProperCall
         /\ \A c \in ToSet(api') : c \in ToSet(api)
         /\ \A m \in ToSet(inbox') :
              \/ m \in ToSet(inbox)
              \/ m \in ProperReply /\ m.call = Head(api) /\ m.ok = ok
         /\ \A s \in Session : DueStep(s)
<1>1. api \in Seq(ProperCall) /\ inbox \in Seq(Inboxes)
  BY TrTypesParts
<1>2. PICK c : c = Head(api)
  OBVIOUS
<1>3. /\ c \in ProperCall /\ c \in ToSet(api) /\ Tail(api) \in Seq(ProperCall)
      /\ ToSet(api) = {c} \cup ToSet(Tail(api))
  BY <1>1, <1>2, HeadAndTail
<1>4. /\ api' = Tail(api)
      /\ inbox' = IF c.request = "none" THEN inbox
                  ELSE Append(inbox, [kind |-> "reply", call |-> c, ok |-> ok])
  BY <1>2 DEF Answer
<1>5. \A s \in Session :
        /\ HowMany(api, CallsFor(s)) \in Nat /\ HowMany(api', CallsFor(s)) \in Nat
        /\ HowMany(api, CallsFor(s)) = (IF c \in CallsFor(s) THEN 1 ELSE 0)
                                       + HowMany(api', CallsFor(s))
  BY <1>1, <1>2, <1>4, CountTail
<1>6. PICK m : m = [kind |-> "reply", call |-> c, ok |-> ok]
  OBVIOUS
<1>7. CASE c.request = "none"
  <2>1. inbox' = inbox
    BY <1>4, <1>7
  <2>2. \A s \in Session : c \notin CallsFor(s)
    BY <1>7 DEF CallsFor, Owing
  <2>4. \A s \in Session : DueStep(s)
    BY <1>5, <2>1, <2>2, NothingAsked
  <2> QED BY <1>1, <1>2, <1>3, <1>4, <2>1, <2>4
<1>8. CASE c.request # "none"
  <2>1. inbox' = Append(inbox, m)
    BY <1>4, <1>6, <1>8
  <2>2. m \in ProperReply /\ m.call = c /\ m.ok = ok
    BY <1>3, <1>6, <1>8 DEF ProperCall, Reply, ProperReply
  <2>3. inbox' \in Seq(Inboxes) /\ ToSet(inbox') = ToSet(inbox) \cup {m}
    BY <1>1, <2>1, <2>2, ElementsWith DEF Inboxes
  <2>6. ASSUME NEW s \in Session
        PROVE  HowMany(inbox', RepliesFor(s) \cup WaitsFor(s))
                 = HowMany(inbox, RepliesFor(s) \cup WaitsFor(s))
                   + (IF m \in RepliesFor(s) \cup WaitsFor(s) THEN 1 ELSE 0)
    BY <1>1, <2>1, <2>2, CountAppend DEF Inboxes
  <2>7. ASSUME NEW s \in Session PROVE DueStep(s)
    <3>1. PICK x, y, i, j, p, a, b :
            /\ x = HowMany(api, CallsFor(s)) /\ y = HowMany(api', CallsFor(s))
            /\ i = HowMany(inbox, RepliesFor(s) \cup WaitsFor(s))
            /\ j = HowMany(inbox', RepliesFor(s) \cup WaitsFor(s))
            /\ p = HowMany(pending, WaitsFor(s)) /\ a = Len(answers[s]) /\ b = Len(asked[s])
      OBVIOUS
    <3>2. /\ x \in Nat /\ y \in Nat /\ i \in Nat /\ p \in Nat /\ a \in Nat /\ b \in Nat
          /\ x = (IF c \in CallsFor(s) THEN 1 ELSE 0) + y
          /\ j = i + (IF c \in CallsFor(s) THEN 1 ELSE 0)
      BY <1>5, <1>6, <2>2, <2>6, <3>1, DueTypes DEF DueTyped, RepliesFor, WaitsFor, Message
    <3>3. (y + p + a + j) = (x + p + a + i) /\ x + p + a + i + b \in Nat
      BY <3>2
    <3> QED BY <3>1, <3>3, DueTypes DEF DueStep, Due, Given, DueTyped
  <2> QED BY <1>2, <1>3, <1>4, <2>2, <2>3, <2>7
<1> QED BY <1>7, <1>8

LEMMA ApiDoes ==
  ASSUME RqInv, ApiNext
  PROVE  RqInv'
<1>1. TrTyped
  BY DEF RqInv
<1>2. PICK c : c = Head(api)
  OBVIOUS
<1>3. /\ api # <<>>
      /\ \/ Answer(TRUE) /\ up
         \/ Answer(FALSE) /\ (~up \/ (locked /\ c.cmd = "start"))
         \/ Answer(FALSE) /\ Count("refusal") /\ up
      /\ events' = events \/ (Count("refusal") /\ up)
      /\ UNCHANGED <<timeBased, distanceBased, power, known, pending, clients, up, locked, asked,
                     answers>>
  BY <1>2 DEF ApiNext, ApiCall, ApiFail, ApiRefuse, maps, modem
<1>4. PICK ok \in BOOLEAN : Answer(ok) /\ (~ok => \/ ~up
                                                  \/ c.cmd = "start"
                                                  \/ Count("refusal"))
  BY <1>3
<1>5. /\ api' \in Seq(ProperCall) /\ inbox' \in Seq(Inboxes)
      /\ c \in ToSet(api) /\ c \in ProperCall
      /\ \A b \in ToSet(api') : b \in ToSet(api)
      /\ \A m \in ToSet(inbox') :
           m \in ToSet(inbox) \/ (m \in ProperReply /\ m.call = c /\ m.ok = ok)
      /\ \A s \in Session : DueStep(s)
  BY <1>1, <1>2, <1>3, <1>4, AnswerDoes
<1>6. /\ events' \in [EventKind -> Nat]
      /\ events'["restart"] = 0 => events["restart"] = 0
      /\ events'["refusal"] = 0 => events["refusal"] = 0 /\ ~Count("refusal")
      /\ events'["restart"] = events["restart"] \/ up
  <2>1. CASE Count("refusal")
    BY <1>1, <1>3, <2>1, EventTypes DEF EventKind, Count, TrTyped
  <2>2. CASE ~Count("refusal")
    BY <1>1, <1>3, <2>2 DEF TrTyped
  <2> QED BY <2>1, <2>2
<1>7. /\ failed' \in BOOLEAN /\ engineTime' \in Nat \cup {None}
      /\ engineDistance' \in SUBSET Session
  <2>1. /\ failed \in BOOLEAN /\ engineTime \in Nat \cup {None}
        /\ engineDistance \in SUBSET Session
    BY <1>1 DEF TrTyped
  <2>3. CASE ApiCall
    BY <1>2, <1>5, <2>1, <2>3 DEF ApiCall, ProperCall, Call
  <2>4. CASE ApiFail
    BY <2>1, <2>4 DEF ApiFail, modem
  <2>5. CASE ApiRefuse
    BY <2>1, <2>5 DEF ApiRefuse, modem
  <2> QED BY <2>3, <2>4, <2>5 DEF ApiNext
<1>8. TrTyped'
  BY <1>1, <1>3, <1>5, <1>6, <1>7 DEF TrTyped
<1>9. NothingFailed' => NothingFailed
  BY <1>6 DEF NothingFailed
<1>10. DueOK'
  BY <1>3, <1>5, <1>8, <1>9, DueStays DEF RqInv
<1>11. EarlyOK'
  <2>1. ASSUME ~up, events'["restart"] = 0
        PROVE  ~known /\ NoDistance' /\ \A m \in ToSet(inbox') : ByTime(m)
    BY <1>3, <1>5, <1>6, <2>1 DEF RqInv, EarlyOK, NoDistance, ByTime
  <2> QED BY <1>3, <2>1 DEF EarlyOK
<1>12. StopsOK'
  <2>1. ASSUME NothingFailed', NEW m \in ToSet(inbox'), Refuses(m) PROVE FALSE
    <3>1. CASE m \in ToSet(inbox)
      BY <1>9, <2>1, <3>1 DEF RqInv, StopsOK
    <3>2. CASE m \in ProperReply /\ m.call = c /\ m.ok = ok
      BY <1>4, <1>5, <1>6, <2>1, <3>2 DEF Refuses, NothingFailed, RqInv, EarlyOK, NoDistance
    <3> QED BY <1>5, <2>1, <3>1, <3>2
  <2> QED BY <2>1 DEF StopsOK
<1> QED BY <1>8, <1>10, <1>11, <1>12 DEF RqInv

(* Of a message that is handled one answer was due *)
LEMMA HandledDoes ==
  ASSUME RqInv, inbox # <<>>, NEW m, m = Head(inbox), inbox' = Tail(inbox),
         NEW s \in Session, m \in RepliesFor(s) \cup WaitsFor(s),
         HandlerTypes, OwesOne(s), ByTime(m) /\ NoDistance => NoDistance',
         UNCHANGED <<power, known, clients, up, engineTime, engineDistance, locked, asked, failed,
                     events>>
  PROVE  RqInv'
<1>1. TrTyped /\ DueOK /\ inbox \in Seq(Inboxes)
  BY TrTypesParts DEF RqInv
<1>2. /\ m \in ToSet(inbox) /\ inbox' \in Seq(Inboxes)
      /\ ToSet(inbox) = {m} \cup ToSet(inbox')
  BY <1>1, HeadAndTail
<1>4. \A t \in Session : m \in RepliesFor(t) \cup WaitsFor(t) <=> t = s
  BY DEF RepliesFor, WaitsFor, CallsFor, ProperReply, Reply, Message
<1>5. TrTyped'
  BY <1>1, <1>2 DEF TrTyped, HandlerTypes
<1>6. ASSUME NEW t \in Session, Owner[t] \in clients' PROVE DueStep(t)
  <2>1. PICK g, h, i, j, a : /\ g = Given(t) /\ h = Given(t)' /\ a = Len(asked[t])
                             /\ i = HowMany(inbox, RepliesFor(t) \cup WaitsFor(t))
                             /\ j = HowMany(inbox', RepliesFor(t) \cup WaitsFor(t))
    OBVIOUS
  <2>2. g \in Nat /\ a \in Nat
    BY <1>1, <2>1, DueTypes DEF DueTyped
  <2>4. i \in Nat /\ j \in Nat /\ i = (IF t = s THEN 1 ELSE 0) + j
    BY <1>1, <1>4, <2>1, CountTail
  <2>5. h + j = g + i
    BY <1>6, <2>1, <2>2, <2>4 DEF OwesOne
  <2> QED BY <1>1, <2>1, <2>5, DueTypes DEF DueStep, Due, DueTyped
<1> QED BY <1>1, <1>2, <1>5, <1>6, DueStays DEF RqInv, StopsOK, EarlyOK, OwesOne, NothingFailed

(* Of one that is only dropped none was due, or one that is refused *)
LEMMA DroppedDoes ==
  ASSUME RqInv, inbox # <<>>, NEW m, m = Head(inbox), inbox' = Tail(inbox),
         \/ \A s \in Session : m \notin RepliesFor(s) \cup WaitsFor(s)
         \/ Refuses(m),
         pending' = pending, answers' = answers, api' = api, TrTyped',
         ByTime(m) => FALSE,
         UNCHANGED <<known, clients, up, asked, events>>
  PROVE  RqInv'
<1>1. TrTyped /\ DueOK /\ inbox \in Seq(Inboxes)
  BY TrTypesParts DEF RqInv
<1>2. m \in ToSet(inbox) /\ ToSet(inbox) = {m} \cup ToSet(inbox')
  BY <1>1, HeadAndTail
<1>4. NothingFailed' => NothingFailed
  BY DEF NothingFailed
<1>6. ASSUME NEW t \in Session PROVE DueStep(t)
  <2>1. PICK g, i, j, a : /\ g = Given(t) /\ a = Len(asked[t])
                          /\ i = HowMany(inbox, RepliesFor(t) \cup WaitsFor(t))
                          /\ j = HowMany(inbox', RepliesFor(t) \cup WaitsFor(t))
    OBVIOUS
  <2>3. i \in Nat /\ j \in Nat /\ j <= i /\ (NothingFailed => j = i)
    BY <1>1, <1>2, <2>1, CountTail DEF RqInv, StopsOK
  <2> QED BY <1>1, <1>4, <2>1, <2>3, DueTypes DEF DueStep, Due, Given, DueTyped
<1> QED BY <1>1, <1>2, <1>4, <1>6, DueStays DEF RqInv, EarlyOK, StopsOK

LEMMA ReplyParts ==
  ASSUME RqInv, NEW requests, ReceiveReply(requests), NEW m, m = Head(inbox)
  PROVE  /\ inbox # <<>> /\ inbox' = Tail(inbox) /\ m \in ProperReply /\ m.ok \in BOOLEAN
         /\ m.call \in ProperCall /\ m.call.request \in requests /\ m.call.request # "none"
         /\ m.call.s \in Session
         /\ m.call.request \in Owing => m \in RepliesFor(m.call.s)
         /\ m.call.request \notin Owing =>
              \A s \in Session : m \notin RepliesFor(s) \cup WaitsFor(s)
         /\ m.call.cmd \in {"start", "stop"} /\ m.call.by \in {"time", "distance"}
         /\ m.call.by = "time" => m.call.request \in Request /\ m.call.old \in TimeOption \cup {None}
         /\ m.call.by = "distance" /\ m.call.request \in {"update", "switch"} =>
              m.call.opt \in Option
<1>2. inbox # <<>> /\ m.kind = "reply" /\ m.call.request \in requests /\ inbox' = Tail(inbox)
  BY DEF ReceiveReply, Receive
<1>4. m \notin Message /\ m \notin Event
  BY <1>2 DEF Message, Event
<1>5. m \in ProperReply
  BY <1>2, <1>4, TrTypesParts DEF Inboxes, RqInv
<1>6. m.call \in ProperCall /\ m.call.request # "none" /\ m.ok \in BOOLEAN
  BY <1>5 DEF ProperReply, Reply
<1> QED BY <1>2, <1>4, <1>5, <1>6 DEF ProperCall, Call, RepliesFor, CallsFor, WaitsFor

LEMMA TimeRepliesDo ==
  ASSUME RqInv, HandleTimeReply \/ HandleUpdateReply
  PROVE  RqInv'
<1>1. PICK m : m = Head(inbox)
  OBVIOUS
<1>2. PICK c, s, ok : c = m.call /\ s = c.s /\ ok = m.ok
  OBVIOUS
<1>3. TrTyped
  BY DEF RqInv
<1>4. PICK requests : /\ ReceiveReply(requests) /\ c.by = "time"
                      /\ \/ /\ Erase(s) \/ UNCHANGED maps
                         \/ c.old # None /\ Save(s, c.old)
                      /\ Tell(s, c.request, Status(ok))
                      /\ UNCHANGED <<power, known, pending, clients, api, up, engineTime,
                                     engineDistance, locked, asked, failed, events>>
  BY <1>1, <1>2 DEF HandleTimeReply, HandleUpdateReply, modem
<1>5. /\ inbox # <<>> /\ inbox' = Tail(inbox) /\ c \in ProperCall /\ s \in Session
      /\ c.request \in Request /\ c.old \in TimeOption \cup {None}
      /\ c.request \in Owing => m \in RepliesFor(s)
  BY <1>1, <1>2, <1>4, ReplyParts
<1>7. OwesOne(s) /\ answers' \in [Session -> Seq(Answered)]
  BY <1>3, <1>4, <1>5, AtOnceOwes DEF Status
<1>8. /\ timeBased' \in [Session -> TimeOption \cup {None}]
      /\ distanceBased' \in [Session -> DistanceOption \cup {None}]
      /\ \A t \in Session : distanceBased[t] = None => distanceBased'[t] = None
  <2>1. CASE Erase(s)
    BY <1>3, <2>1, SavesAndErases
  <2>2. CASE UNCHANGED maps
    BY <1>3, <2>2, TrTypesParts DEF maps
  <2>3. CASE c.old # None /\ Save(s, c.old)
    BY <1>3, <1>5, <2>3, SavesAndErases DEF TimeOption
  <2> QED BY <1>4, <2>1, <2>2, <2>3
<1>9. HandlerTypes /\ (NoDistance => NoDistance')
  BY <1>3, <1>4, <1>7, <1>8, TrTypesParts DEF HandlerTypes, NoDistance
<1> QED BY <1>1, <1>4, <1>5, <1>7, <1>9, HandledDoes DEF Request, Owing

LEMMA DistanceRepliesDo ==
  ASSUME RqInv, HandleDistanceReply
  PROVE  RqInv'
<1>1. PICK m : m = Head(inbox)
  OBVIOUS
<1>2. PICK c, s, ok : c = m.call /\ s = c.s /\ ok = m.ok
  OBVIOUS
<1>3. TrTyped
  BY DEF RqInv
<1>4. /\ ReceiveReply({"start", "stop", "gone"}) /\ c.by = "distance"
      /\ Erase(s) \/ UNCHANGED maps
      /\ Tell(s, c.request, IF c.request = "gone" THEN "later" ELSE Status(ok))
      /\ UNCHANGED <<power, known, pending, clients, api, up, engineTime, engineDistance, locked,
                     asked, failed, events>>
  BY <1>1, <1>2 DEF HandleDistanceReply, modem
<1>5. /\ inbox # <<>> /\ inbox' = Tail(inbox) /\ s \in Session
      /\ c.request \in {"start", "stop", "gone"}
      /\ c.request \in Owing => m \in RepliesFor(s)
      /\ c.request \notin Owing => \A t \in Session : m \notin RepliesFor(t) \cup WaitsFor(t)
  BY <1>1, <1>2, <1>4, ReplyParts
<1>6. ~ByTime(m)
  BY <1>2, <1>4 DEF ByTime
<1>7. /\ timeBased' \in [Session -> TimeOption \cup {None}]
      /\ distanceBased' \in [Session -> DistanceOption \cup {None}]
  <2>1. CASE Erase(s)
    BY <1>3, <2>1, SavesAndErases
  <2>2. CASE UNCHANGED maps
    BY <1>3, <2>2, TrTypesParts DEF maps
  <2> QED BY <1>4, <2>1, <2>2
<1>8. CASE c.request # "gone"
  <2>1. c.request \in Owing /\ c.request \in Request /\ Tell(s, c.request, Status(ok))
    BY <1>4, <1>5, <1>8 DEF Owing, Request
  <2>2. OwesOne(s) /\ answers' \in [Session -> Seq(Answered)]
    BY <1>3, <1>4, <1>5, <2>1, AtOnceOwes DEF Status
  <2>3. HandlerTypes
    BY <1>3, <1>4, <1>7, <2>2, TrTypesParts DEF HandlerTypes
  <2>4. UNCHANGED <<power, known, clients, up, engineTime, engineDistance, locked, asked, failed,
                    events>>
    BY <1>4
  <2> QED BY <1>1, <1>5, <1>6, <2>1, <2>2, <2>3, <2>4, HandledDoes
<1>9. CASE c.request = "gone"
  <2>1. answers' = answers
    BY <1>4, <1>9 DEF Tell
  <2>2. \A t \in Session : m \notin RepliesFor(t) \cup WaitsFor(t)
    BY <1>5, <1>9 DEF Owing
  <2>3. inbox' \in Seq(Inboxes)
    BY <1>3, <1>5, TrTypesParts, HeadAndTail
  <2>4. TrTyped'
    BY <1>3, <1>4, <1>7, <2>1, <2>3 DEF TrTyped
  <2>5. UNCHANGED <<known, clients, up, asked, events>> /\ pending' = pending /\ api' = api
    BY <1>4
  <2> QED BY <1>1, <1>5, <1>6, <2>1, <2>2, <2>4, <2>5, DroppedDoes
<1> QED BY <1>8, <1>9

LEMMA DistanceUpdatesDo ==
  ASSUME RqInv, HandleDistanceUpdateReply
  PROVE  RqInv'
<1>1. PICK m : m = Head(inbox)
  OBVIOUS
<1>2. PICK c, s, ok : c = m.call /\ s = c.s /\ ok = m.ok
  OBVIOUS
<1>3. TrTyped
  BY DEF RqInv
<1>4. /\ ReceiveReply({"update"}) /\ c.by = "distance"
      /\ \/ /\ c.cmd = "stop"
            /\ api' = IF ok THEN Append(api, DistanceCall("start", s, c.opt, "update")) ELSE api
            /\ UNCHANGED <<maps, answers>>
         \/ /\ Save(s, c.opt) \/ UNCHANGED maps
            /\ Tell(s, c.request, Status(ok)) /\ UNCHANGED api
      /\ UNCHANGED <<power, known, pending, clients, up, engineTime, engineDistance, locked,
                     asked, failed, events>>
  BY <1>1, <1>2 DEF HandleDistanceUpdateReply, modem
<1>5. /\ inbox # <<>> /\ inbox' = Tail(inbox) /\ s \in Session /\ m \in ProperReply
      /\ c.request = "update" /\ c.opt \in Option /\ ok \in BOOLEAN
      /\ c.request \in Owing => m \in RepliesFor(s)
  BY <1>1, <1>2, <1>4, ReplyParts
<1>6. ~ByTime(m) /\ m \in RepliesFor(s) /\ c.request \in Request
  BY <1>2, <1>4, <1>5 DEF ByTime, Owing, Request
<1>7. UNCHANGED <<power, known, clients, up, engineTime, engineDistance, locked, asked, failed,
                  events>> /\ pending' = pending
  BY <1>4
<1>8. CASE /\ c.cmd = "stop" /\ ok
           /\ api' = Append(api, DistanceCall("start", s, c.opt, "update"))
           /\ UNCHANGED <<maps, answers>>
  <2>1. api' \in Seq(ProperCall) /\ CallsOwe(s)
    BY <1>3, <1>5, <1>8, DistanceDoes
  <2>2. answers' \in [Session -> Seq(Answered)]
    BY <1>3, <1>8, TrTypesParts
  <2>3. OwesOne(s)
    BY <1>3, <1>5, <1>7, <2>1, <2>2, OwesFromCalls
  <2>4. HandlerTypes
    BY <1>3, <1>7, <1>8, <2>1, <2>2, TrTypesParts DEF HandlerTypes, maps
  <2> QED BY <1>1, <1>5, <1>6, <1>7, <2>3, <2>4, HandledDoes
<1>9. CASE /\ c.cmd = "stop" /\ ~ok /\ api' = api /\ UNCHANGED <<maps, answers>>
  <2>1. Refuses(m)
    BY <1>2, <1>4, <1>5, <1>9 DEF Refuses
  <2>3. TrTyped'
    BY <1>3, <1>5, <1>7, <1>9, TrTypesParts, HeadAndTail DEF TrTyped, maps
  <2>4. answers' = answers
    BY <1>9
  <2> QED BY <1>1, <1>5, <1>6, <1>7, <1>9, <2>1, <2>3, <2>4, DroppedDoes
<1>10. CASE /\ Save(s, c.opt) \/ UNCHANGED maps
            /\ Tell(s, c.request, Status(ok)) /\ UNCHANGED api
  <2>1. OwesOne(s) /\ answers' \in [Session -> Seq(Answered)]
    BY <1>3, <1>5, <1>6, <1>7, <1>10, AtOnceOwes DEF Status
  <2>2. /\ timeBased' \in [Session -> TimeOption \cup {None}]
        /\ distanceBased' \in [Session -> DistanceOption \cup {None}]
    BY <1>3, <1>5, <1>10, SavesAndErases, TrTypesParts DEF maps
  <2>3. HandlerTypes
    BY <1>3, <1>7, <1>10, <2>1, <2>2, TrTypesParts DEF HandlerTypes
  <2> QED BY <1>1, <1>5, <1>6, <1>7, <2>1, <2>3, HandledDoes
<1> QED BY <1>4, <1>5, <1>8, <1>9, <1>10

LEMMA SwitchesDo ==
  ASSUME RqInv, HandleSwitchReply
  PROVE  RqInv'
<1>1. PICK m : m = Head(inbox)
  OBVIOUS
<1>2. PICK c, s : c = m.call /\ s = c.s
  OBVIOUS
<1>3. PICK todo : todo = StartMultiplex(s, c.opt, "update")
  OBVIOUS
<1>4. TrTyped
  BY DEF RqInv
<1>5. /\ ReceiveReply({"switch"})
      /\ api' = api \o todo.calls /\ Tell(s, "update", todo.status) /\ Save(s, c.opt)
      /\ UNCHANGED <<power, known, pending, clients, up, engineTime, engineDistance, locked,
                     asked, failed, events>>
  BY <1>1, <1>2, <1>3 DEF HandleSwitchReply, modem
<1>6. /\ inbox # <<>> /\ inbox' = Tail(inbox) /\ s \in Session /\ m \in ProperReply
      /\ c.request = "switch"
      /\ c.by \in {"time", "distance"} /\ (c.by = "time" => c.request \in Request)
      /\ c.by = "distance" => c.opt \in Option
      /\ c.request \in Owing => m \in RepliesFor(s)
  BY <1>1, <1>2, <1>5, ReplyParts
<1>7. m \in RepliesFor(s) /\ c.opt \in Option /\ ~ByTime(m)
  BY <1>2, <1>6 DEF Owing, Request, ByTime
<1>8. "update" \in Request /\ "update" \in Owing
  BY DEF Request, Owing
<1>9. Answering(todo, s, "update")
  BY <1>3, <1>4, <1>6, <1>7, <1>8, TodosAnswer
<1>10. /\ CallsOwe(s) /\ api' \in Seq(ProperCall) /\ answers' \in [Session -> Seq(Answered)]
  BY <1>4, <1>5, <1>6, <1>8, <1>9, TodoDoes
<1>11. OwesOne(s)
  BY <1>4, <1>5, <1>6, <1>10, OwesFromCalls
<1>12. HandlerTypes
  BY <1>4, <1>5, <1>7, <1>10, SavesAndErases, TrTypesParts DEF HandlerTypes
<1>13. UNCHANGED <<power, known, clients, up, engineTime, engineDistance, locked, asked, failed,
                   events>>
  BY <1>5
<1> QED BY <1>1, <1>6, <1>7, <1>11, <1>12, <1>13, HandledDoes

LEMMA PendingDo ==
  ASSUME RqInv, HandlePending
  PROVE  RqInv'
<1>1. PICK m : m = Head(inbox)
  OBVIOUS
<1>2. TrTyped /\ inbox \in Seq(Inboxes)
  BY TrTypesParts DEF RqInv
<1>3. /\ inbox # <<>> /\ m.kind = "message" /\ inbox' = Tail(inbox)
      /\ \/ m.request = "start" /\ StartTracking(m.s, m.opt)
         \/ m.request = "update" /\ UpdateTracking(m.s, m.opt)
      /\ UNCHANGED <<power, known, clients, up, engineTime, engineDistance, locked, asked, failed,
                     events>>
  BY <1>1 DEF HandlePending, Receive, modem
<1>4. m \in Message
  BY <1>1, <1>2, <1>3 DEF Inboxes, ProperReply, Reply, Event
<1>5. m.s \in Session /\ m.opt \in Option /\ m \in WaitsFor(m.s) /\ ~ByTime(m)
  BY <1>3, <1>4 DEF Message, WaitsFor, ByTime, ProperReply, Reply
<1>6. HandlerDoes(m.s)
  BY <1>2, <1>3, <1>5, StartDoes, UpdateDoes
<1>7. PICK s : s = m.s
  OBVIOUS
<1> QED BY <1>1, <1>3, <1>5, <1>6, <1>7, HandledDoes DEF HandlerDoes

(* The pending messages, or none of them, are put behind those that wait   *)
LEMMA PendingMoved ==
  ASSUME TrTyped, inbox # <<>>, Head(inbox) \notin ProperReply \cup Message,
         \/ inbox' = Tail(inbox) /\ pending' = pending
         \/ inbox' = Tail(inbox) \o pending /\ pending' = <<>>
  PROVE  /\ inbox' \in Seq(Inboxes) /\ pending' \in Seq(Message)
         /\ \A m \in ToSet(inbox') : m \in ToSet(inbox) \/ m \notin ProperReply
         /\ \A s \in Session :
              HowMany(inbox', RepliesFor(s) \cup WaitsFor(s)) + HowMany(pending', WaitsFor(s))
                = HowMany(inbox, RepliesFor(s) \cup WaitsFor(s)) + HowMany(pending, WaitsFor(s))
<1>1. /\ inbox \in Seq(Inboxes) /\ pending \in Seq(Message) /\ pending \in Seq(Inboxes)
      /\ <<>> \in Seq(Message)
  BY TrTypesParts DEF Inboxes
<1>2. PICK q : q = Tail(inbox)
  OBVIOUS
<1>3. q \in Seq(Inboxes) /\ ToSet(inbox) = {Head(inbox)} \cup ToSet(q)
  BY <1>1, <1>2, HeadAndTail
<1>5. \A s \in Session :
        /\ HowMany(q, RepliesFor(s) \cup WaitsFor(s)) \in Nat
        /\ HowMany(q, RepliesFor(s) \cup WaitsFor(s))
             = HowMany(inbox, RepliesFor(s) \cup WaitsFor(s))
  <2> TAKE s \in Session
  <2>1. PICK B : B = RepliesFor(s) \cup WaitsFor(s)
    OBVIOUS
  <2>2. /\ HowMany(q, B) \in Nat
        /\ HowMany(inbox, B) = (IF Head(inbox) \in B THEN 1 ELSE 0) + HowMany(q, B)
    BY <1>1, <1>2, CountTail
  <2> QED BY <2>1, <2>2 DEF RepliesFor, WaitsFor
<1>6. CASE inbox' = q /\ pending' = pending
  BY <1>1, <1>3, <1>5, <1>6
<1>7. CASE inbox' = q \o pending /\ pending' = <<>>
  <2>1. /\ q \o pending \in Seq(Inboxes)
        /\ ToSet(q \o pending) = ToSet(q) \cup ToSet(pending)
    BY <1>1, <1>3, ElementsOfBoth, ConcatProperties
  <2>2. ToSet(pending) \subseteq Message
    BY <1>1, ElementsOf
  <2>3. \A m \in Message : m \notin ProperReply
    BY DEF Message, ProperReply, Reply
  <2>4. ASSUME NEW s \in Session
        PROVE  HowMany(inbox', RepliesFor(s) \cup WaitsFor(s)) + HowMany(pending', WaitsFor(s))
                 = HowMany(inbox, RepliesFor(s) \cup WaitsFor(s)) + HowMany(pending, WaitsFor(s))
    <3>1. PICK B : B = RepliesFor(s) \cup WaitsFor(s)
      OBVIOUS
    <3>2. /\ HowMany(q \o pending, B) = HowMany(q, B) + HowMany(pending, B)
          /\ HowMany(pending, B) \in Nat /\ HowMany(q, B) \in Nat
      BY <1>1, <1>3, CountBoth
    <3>3. HowMany(pending, B) = HowMany(pending, WaitsFor(s))
      <4>1. \A i \in DOMAIN pending : pending[i] \in B <=> pending[i] \in WaitsFor(s)
        BY <1>1, <2>3, <3>1 DEF RepliesFor
      <4> QED BY <4>1, Zenon DEF HowMany
    <3>4. HowMany(<<>>, WaitsFor(s)) = 0
      BY CountOne
    <3>5. HowMany(q, B) = HowMany(inbox, B)
      BY <1>5, <3>1
    <3> QED BY <1>7, <3>1, <3>2, <3>3, <3>4, <3>5
  <2> QED BY <1>1, <1>3, <1>7, <2>1, <2>2, <2>3, <2>4
<1> QED BY <1>2, <1>6, <1>7

(* What an engine that is up, or its lock, calls is for nobody *)
LEMMA EventsCall ==
  ASSUME RqInv, HandleEngineUp \/ HandleEngineLockStatus
  PROVE  /\ \E p : ForNobody(p) /\ api' = api \o p
         /\ inbox # <<>> /\ Head(inbox) \notin ProperReply \cup Message
         /\ Head(inbox) \in ToSet(inbox)
         /\ \/ inbox' = Tail(inbox) /\ pending' = pending
            \/ inbox' = Tail(inbox) \o pending /\ pending' = <<>>
         /\ known' \in BOOLEAN
         /\ UNCHANGED <<timeBased, distanceBased, power, clients, up, engineTime, engineDistance,
                        locked, asked, answers, failed, events>>
<1>1. PICK m : m = Head(inbox)
  OBVIOUS
<1>2. TrTyped /\ DueOK /\ inbox \in Seq(Inboxes)
  BY TrTypesParts DEF RqInv
<1>3. PICK order \in MapOrders :
        \E p : api' = api \o p /\ \/ p = PowerCalls(power, order) \o <<>>
                                  \/ p = PowerCalls(power, order) \o RestartCalls(order)
                                  \/ p = <<>>
                                  \/ p = RestartCalls(order)
  <2>1. api \in Seq(ProperCall)
    BY <1>2, TrTypesParts
  <2>2. CASE HandleEngineUp
    <3>1. PICK order \in MapOrders :
            api' = api \o PowerCalls(power, order)
                     \o (IF locked \/ Suspended THEN <<>> ELSE RestartCalls(order))
      BY <2>2 DEF HandleEngineUp
    <3>2. PICK a, b : /\ a = PowerCalls(power, order)
                      /\ b = IF locked \/ Suspended THEN <<>> ELSE RestartCalls(order)
      OBVIOUS
    <3>3. a \in Seq(ProperCall) /\ b \in Seq(ProperCall)
      BY <1>2, <3>2, PowerForNobody, RestartsForNobody DEF ForNobody
    <3>4. (api \o a) \o b = api \o (a \o b)
      BY <2>1, <3>3, ConcatAssociative
    <3> QED BY <3>1, <3>2, <3>4
  <2>3. CASE HandleEngineLockStatus
    BY <2>3 DEF HandleEngineLockStatus
  <2> QED BY <2>2, <2>3
<1>4. PICK p : /\ api' = api \o p
               /\ \/ p = PowerCalls(power, order) \o <<>>
                  \/ p = PowerCalls(power, order) \o RestartCalls(order)
                  \/ p = <<>>
                  \/ p = RestartCalls(order)
  BY <1>3
<1>5. ForNobody(p)
  BY <1>2, <1>4, PowerForNobody, RestartsForNobody, NoCallForNobody, JoinedForNobody
<1>6. /\ inbox # <<>> /\ m.kind \in {"up", "lock"}
      /\ \/ inbox' = Tail(inbox) /\ pending' = pending
         \/ inbox' = Tail(inbox) \o pending /\ pending' = <<>>
      /\ known' \in BOOLEAN
      /\ UNCHANGED <<timeBased, distanceBased, power, clients, up, engineTime, engineDistance,
                     locked, asked, answers, failed, events>>
  BY <1>1, <1>2 DEF HandleEngineUp, HandleEngineLockStatus, Receive, maps, modem, TrTyped
<1> QED BY <1>1, <1>2, <1>4, <1>5, <1>6, HeadAndTail DEF ProperReply, Reply, Message

LEMMA EventsDo ==
  ASSUME RqInv, HandleEngineUp \/ HandleEngineLockStatus
  PROVE  RqInv'
<1>1. PICK m : m = Head(inbox)
  OBVIOUS
<1>2. TrTyped /\ DueOK /\ inbox \in Seq(Inboxes)
  BY TrTypesParts DEF RqInv
<1>3. PICK p : ForNobody(p) /\ api' = api \o p
  BY EventsCall
<1>4. /\ inbox # <<>>
      /\ \/ inbox' = Tail(inbox) /\ pending' = pending
         \/ inbox' = Tail(inbox) \o pending /\ pending' = <<>>
      /\ known' \in BOOLEAN
      /\ UNCHANGED <<timeBased, distanceBased, power, clients, up, engineTime, engineDistance,
                     locked, asked, answers, failed, events>>
  BY EventsCall
<1>5. m \notin ProperReply \cup Message /\ m \in ToSet(inbox)
  BY <1>1, EventsCall
<1>6. /\ inbox' \in Seq(Inboxes) /\ pending' \in Seq(Message)
      /\ \A b \in ToSet(inbox') : b \in ToSet(inbox) \/ b \notin ProperReply
      /\ \A s \in Session :
           HowMany(inbox', RepliesFor(s) \cup WaitsFor(s)) + HowMany(pending', WaitsFor(s))
             = HowMany(inbox, RepliesFor(s) \cup WaitsFor(s)) + HowMany(pending, WaitsFor(s))
  BY <1>1, <1>2, <1>4, <1>5, PendingMoved
<1>7. /\ api' \in Seq(ProperCall)
      /\ \A s \in Session : HowMany(api', CallsFor(s)) = HowMany(api, CallsFor(s))
  BY <1>2, <1>3, NobodyIsOwed
<1>8. TrTyped'
  BY <1>2, <1>4, <1>6, <1>7 DEF TrTyped
<1>9. ASSUME NEW t \in Session PROVE DueStep(t)
  <2>1. PICK x, i, j, u, v, a, b :
          /\ x = HowMany(api, CallsFor(t)) /\ u = HowMany(pending, WaitsFor(t))
          /\ v = HowMany(pending', WaitsFor(t)) /\ a = Len(answers[t]) /\ b = Len(asked[t])
          /\ i = HowMany(inbox, RepliesFor(t) \cup WaitsFor(t))
          /\ j = HowMany(inbox', RepliesFor(t) \cup WaitsFor(t))
    OBVIOUS
  <2>2. x \in Nat /\ i \in Nat /\ u \in Nat /\ a \in Nat /\ b \in Nat
    BY <1>2, <2>1, DueTypes DEF DueTyped
  <2>3. j \in Nat /\ v \in Nat
    <3>1. TrTyped' => DueTyped'
      BY DueTypes, PTL
    <3> QED BY <1>8, <2>1, <3>1 DEF DueTyped
  <2>4. j + v = i + u
    BY <1>6, <2>1
  <2>5. x + v + a + j = x + u + a + i
    BY <2>2, <2>3, <2>4
  <2>7. Due(t)' = Due(t) /\ Due(t) \in Nat /\ Len(asked[t]) \in Nat
    BY <1>2, <1>4, <1>7, <2>1, <2>5, DueTypes DEF DueTyped, Due, Given
  <2> QED BY <1>4, <2>7 DEF DueStep
<1>10. NothingFailed' => NothingFailed
  BY <1>4 DEF NothingFailed
<1>11. DueOK'
  BY <1>2, <1>4, <1>8, <1>9, <1>10, DueStays
<1> QED BY <1>4, <1>5, <1>6, <1>8, <1>10, <1>11 DEF RqInv, EarlyOK, ByTime, StopsOK, Refuses

(* The calls that stop the sessions of a client that is gone *)
StopsOf(who) ==
  {c \in ProperCall : /\ c.s \in Session /\ Owner[c.s] = who /\ timeBased[c.s] # None
                      /\ c.by = "time" /\ c.request = "stop"}
EndsOf(who) ==
  {c \in ProperCall : /\ c.s \in Session /\ Owner[c.s] = who /\ distanceBased[c.s] # None
                      /\ c.by = "distance" /\ c.request = "gone" /\ c.cmd = "stop"}

LEMMA GoneCalls ==
  ASSUME TrTyped, NEW who \in Client, RemoveClient(who)
  PROVE  /\ timeBased' = [t \in Session |-> IF Owner[t] = who THEN None ELSE timeBased[t]]
         /\ \E f \in Seq(StopsOf(who)), e \in Seq(EndsOf(who)) :
              /\ api' = (api \o f) \o e
              /\ \A t \in Session : Owner[t] = who /\ distanceBased[t] # None =>
                   \E c \in ToSet(e) : c.s = t
<1> DEFINE mine == {s \in Session : Owner[s] = who}
           time == SetToSeq(mine \cap SessionsOf(timeBased))
           distance == SetToSeq(mine \cap SessionsOf(distanceBased))
           left(i) == [s \in Session |->
                         IF \E j \in 1..(i - 1) : time[j] = s THEN None ELSE timeBased[s]]
           stops == [i \in DOMAIN time |-> StopMultiplex(left(i), time[i], "stop").calls]
           ends == [i \in DOMAIN distance |-> DistanceCall("stop", distance[i], None, "gone")]
<1>1. /\ timeBased' = left(Len(time) + 1)
      /\ api' = api \o FlattenSeq(stops) \o ends
  BY DEF RemoveClient
<1>2. /\ time \in Seq(mine \cap SessionsOf(timeBased))
      /\ ToSet(time) = mine \cap SessionsOf(timeBased)
      /\ distance \in Seq(mine \cap SessionsOf(distanceBased))
      /\ ToSet(distance) = mine \cap SessionsOf(distanceBased)
  <2>1. \A T \in SUBSET Session : IsFiniteSet(T)
    BY SessionAssumption, FS_Subset
  <2>2. /\ IsFiniteSet(mine \cap SessionsOf(timeBased))
        /\ IsFiniteSet(mine \cap SessionsOf(distanceBased))
    BY <2>1
  <2>3. /\ time \in Seq(mine \cap SessionsOf(timeBased))
        /\ ToSet(time) = mine \cap SessionsOf(timeBased)
    BY <2>2, SequenceOfSet
  <2>4. /\ distance \in Seq(mine \cap SessionsOf(distanceBased))
        /\ ToSet(distance) = mine \cap SessionsOf(distanceBased)
    BY <2>2, SequenceOfSet
  <2> QED BY <2>3, <2>4
<1>3. \A i : left(i) \in [Session -> Option \cup {None}]
  <2>1. timeBased \in [Session -> Option \cup {None}]
    BY TrTypesParts
  <2> QED BY <2>1
<1> HIDE DEF time, distance
<1>4. /\ DOMAIN time = 1..Len(time) /\ Len(time) \in Nat
      /\ DOMAIN distance = 1..Len(distance) /\ Len(distance) \in Nat
  BY <1>2
<1>5. timeBased' = [t \in Session |-> IF Owner[t] = who THEN None ELSE timeBased[t]]
  <2>1. (Len(time) + 1) - 1 = Len(time)
    BY <1>4
  <2>2. timeBased' = [s \in Session |->
                        IF \E j \in 1..Len(time) : time[j] = s THEN None ELSE timeBased[s]]
    BY <1>1, <2>1
  <2>3. ASSUME NEW t \in Session
        PROVE  /\ Owner[t] = who /\ timeBased[t] # None => \E j \in 1..Len(time) : time[j] = t
               /\ (\E j \in 1..Len(time) : time[j] = t) => Owner[t] = who
    BY <1>2, <1>4 DEF ToSet, SessionsOf
  <2>4. ASSUME NEW t \in Session
        PROVE  (IF \E j \in 1..Len(time) : time[j] = t THEN None ELSE timeBased[t])
                 = IF Owner[t] = who THEN None ELSE timeBased[t]
    BY <2>3
  <2> QED BY <2>2, <2>4
<1>6. ASSUME NEW i \in DOMAIN time PROVE stops[i] \in Seq(StopsOf(who))
  <2>1. PICK t, map, todo : /\ t = time[i] /\ map = left(i)
                            /\ todo = StopMultiplex(left(i), time[i], "stop")
    OBVIOUS
  <2>2. t \in Session /\ Owner[t] = who /\ timeBased[t] # None
    BY <1>2, <2>1 DEF SessionsOf
  <2>3. map \in [Session -> Option \cup {None}]
    BY <1>3, <2>1
  <2>4. todo = StopMultiplex(map, t, "stop") /\ "stop" \in Request
    BY <2>1 DEF Request
  <2>5. Answering(todo, t, "stop")
    <3> HIDE DEF left, mine
    <3> QED BY <2>2, <2>3, <2>4, TodosAnswer
  <2>6. stops[i] = todo.calls
    BY <2>1
  <2> HIDE DEF stops, left
  <2>7. CASE todo.calls = <<>>
    BY <2>6, <2>7
  <2>8. CASE \E c \in ProperCall : /\ todo.calls = <<c>> /\ c.s = t /\ c.request = "stop"
                                    /\ c.by = "time"
    <3>1. PICK c \in ProperCall : /\ todo.calls = <<c>> /\ c.s = t /\ c.request = "stop"
                                  /\ c.by = "time"
      BY <2>8
    <3>2. c \in StopsOf(who)
      BY <2>2, <3>1 DEF StopsOf
    <3> QED BY <2>6, <3>1, <3>2
  <2> QED BY <2>5, <2>7, <2>8 DEF Answering
<1>7. stops \in Seq(Seq(StopsOf(who)))
  <2>1. stops \in [1..Len(time) -> Seq(StopsOf(who))]
    BY <1>4, <1>6
  <2> HIDE DEF stops
  <2> QED BY <1>4, <2>1
<1>8. ASSUME NEW i \in DOMAIN distance
      PROVE  ends[i] \in EndsOf(who) /\ ends[i].s = distance[i]
  <2>1. /\ distance[i] \in Session /\ Owner[distance[i]] = who
        /\ distanceBased[distance[i]] # None
    BY <1>2 DEF SessionsOf
  <2>2. PICK c : c = DistanceCall("stop", distance[i], None, "gone")
    OBVIOUS
  <2>3. c \in ProperCall /\ c.s = distance[i] /\ c.request = "gone" /\ c.by = "distance"
        /\ c.cmd = "stop"
    BY <2>1, <2>2 DEF DistanceCall, ProperCall, Call
  <2> QED BY <2>1, <2>2, <2>3 DEF EndsOf
<1>9. ends \in [1..Len(distance) -> EndsOf(who)]
  BY <1>4, <1>8
<1>10. FlattenSeq(stops) \in Seq(StopsOf(who))
  <2> HIDE DEF stops
  <2> QED BY <1>7, FlattenTypes
<1>11. PICK f, e : f = FlattenSeq(stops) /\ e = ends
  OBVIOUS
<1>12. f \in Seq(StopsOf(who)) /\ e \in Seq(EndsOf(who)) /\ api' = (api \o f) \o e
  <2>1. api' = (api \o f) \o e
    <3> HIDE DEF stops, ends
    <3> QED BY <1>1, <1>11
  <2>2. f \in Seq(StopsOf(who))
    BY <1>10, <1>11
  <2>3. e \in Seq(EndsOf(who))
    <3> HIDE DEF stops, ends
    <3> QED BY <1>4, <1>9, <1>11
  <2> QED BY <2>1, <2>2, <2>3
<1>13. ASSUME NEW t \in Session, Owner[t] = who, distanceBased[t] # None
       PROVE  \E c \in ToSet(e) : c.s = t
  <2>1. PICK i \in DOMAIN distance : distance[i] = t
    BY <1>2, <1>13 DEF ToSet, SessionsOf
  <2>2. e[i] \in ToSet(e) /\ e[i].s = t
    BY <1>8, <1>11, <2>1 DEF ToSet
  <2> QED BY <2>2
<1> QED BY <1>5, <1>12, <1>13

(* The sessions of a client that is gone are stopped for nobody *)
LEMMA GoneDoes ==
  ASSUME RqInv, NEW who \in Client, RemoveClient(who)
  PROVE  RqInv'
<1>1. TrTyped /\ DueOK /\ api \in Seq(ProperCall)
  BY TrTypesParts DEF RqInv
<1>2. /\ clients' = clients \ {who}
      /\ UNCHANGED <<distanceBased, power, known, pending, inbox, up, engineTime, engineDistance,
                     locked, asked, answers, failed, events>>
  BY DEF RemoveClient, modem
<1>4. PICK f \in Seq(StopsOf(who)), e \in Seq(EndsOf(who)) : api' = (api \o f) \o e
  BY <1>1, GoneCalls
<1>5. /\ f \in Seq(ProperCall) /\ e \in Seq(ProperCall)
      /\ ToSet(f) \subseteq StopsOf(who) /\ ToSet(e) \subseteq EndsOf(who)
  BY ElementsOf DEF StopsOf, EndsOf
<1>6. PICK q : q = api \o f
  OBVIOUS
<1>7. q \in Seq(ProperCall) /\ ToSet(q) = ToSet(api) \cup ToSet(f)
  BY <1>1, <1>5, <1>6, ElementsOfBoth
<1>8. api' \in Seq(ProperCall) /\ ToSet(api') = ToSet(q) \cup ToSet(e)
  <2>1. q \o e \in Seq(ProperCall) /\ ToSet(q \o e) = ToSet(q) \cup ToSet(e)
    BY <1>5, <1>7, ElementsOfBoth
  <2> QED BY <1>4, <1>6, <2>1
<1>9. ASSUME NEW t \in Session, Owner[t] \in clients' PROVE DueStep(t)
  <2>1. /\ \A c \in ToSet(f) : c \notin CallsFor(t)
        /\ \A c \in ToSet(e) : c \notin CallsFor(t)
    BY <1>2, <1>5, <1>9 DEF CallsFor, StopsOf, EndsOf
  <2>2. HowMany(q, CallsFor(t)) = HowMany(api, CallsFor(t))
    BY <1>1, <1>5, <1>6, <2>1, CallsAdded
  <2>3. HowMany(q \o e, CallsFor(t)) = HowMany(q, CallsFor(t))
    BY <1>5, <1>7, <2>1, CallsAdded
  <2>4. HowMany(api', CallsFor(t)) = HowMany(api, CallsFor(t))
    BY <1>4, <1>6, <2>2, <2>3
  <2> QED BY <1>1, <1>2, <2>4, NothingAsked
<1>10. TrTyped'
  BY <1>1, <1>2, <1>8, TrTypesParts, GoneCalls DEF TrTyped
<1>11. (NothingFailed' => NothingFailed) /\ clients' \subseteq clients
  BY <1>2 DEF NothingFailed
<1>13. DueOK'
  BY <1>1, <1>2, <1>9, <1>10, <1>11, DueStays
<1>15. EarlyOK'
  BY <1>2, <1>5, <1>7, <1>8 DEF RqInv, EarlyOK, NoDistance, StopsOf, EndsOf
<1> QED BY <1>2, <1>10, <1>11, <1>13, <1>15 DEF RqInv, StopsOK

LEMMA RequestsBegin == Init => RqInv
<1> SUFFICES ASSUME Init PROVE RqInv
  OBVIOUS
<1>1. TrTyped
  <2>1. \A A : <<>> \in Seq(A)
    OBVIOUS
  <2>4. events \in [EventKind -> Nat]
    BY DEF Init
  <2> QED BY <2>1, <2>4 DEF TrTyped, Init
<1>2. ToSet(<<>>) = {}
  BY DEF ToSet
<1>4. ASSUME NEW s \in Session
      PROVE  Due(s) = 0 /\ Len(asked[s]) = 0 /\ Len(answers[s]) = 0
  <2>1. \A B : HowMany(<<>>, B) = 0
    BY CountOne
  <2> QED BY <2>1 DEF Due, Given, Init
<1>5. DueOK
  BY <1>4 DEF DueOK
<1> QED BY <1>1, <1>2, <1>5 DEF RqInv, Init, EarlyOK, StopsOK, NoDistance

LEMMA RequestsStay ==
  ASSUME RqInv, [Next]_vars
  PROVE  RqInv'
<1>1. CASE ClientNext
  BY <1>1, CommandsDo, GoneDoes DEF ClientNext
<1>2. CASE EnvironmentNext
  BY <1>2, PowerDoes, LockDoes, DownDoes, UpDoes DEF EnvironmentNext
<1>3. CASE ApiNext
  BY <1>3, ApiDoes
<1>4. CASE MsgTaskNext
  BY <1>4, TimeRepliesDo, DistanceRepliesDo, DistanceUpdatesDo, SwitchesDo, PendingDo, EventsDo
     DEF MsgTaskNext
<1>5. CASE UNCHANGED vars
  <2>1. UNCHANGED <<timeBased, distanceBased, power, known, pending, clients, api, inbox, up,
                    engineTime, engineDistance, locked, asked, answers, failed, events>>
    BY <1>5 DEF vars, maps, queues, modem
  <2>2. TrTyped'
    BY <2>1 DEF RqInv, TrTyped
  <2>3. DueOK'
    BY <2>1 DEF RqInv, DueOK, Due, Given, NothingFailed
  <2> QED BY <2>1, <2>2, <2>3 DEF RqInv, EarlyOK, StopsOK, NoDistance, NothingFailed
<1> QED BY <1>1, <1>2, <1>3, <1>4, <1>5 DEF Next

LEMMA RequestsSettle == RqInv => TypeOK /\ RequestsAreAnswered
<1> SUFFICES ASSUME RqInv PROVE TypeOK /\ RequestsAreAnswered
  OBVIOUS
<1>1. TypeOK
  <2>1. ProperCall \subseteq Call /\ Inboxes \subseteq Reply \cup Message \cup Event
    BY DEF ProperCall, Inboxes, ProperReply
  <2> QED BY <2>1 DEF RqInv, TrTyped, TypeOK, TimeOption, DistanceOption
<1>3. ASSUME Quiet, ~Refused, events["restart"] = 0, NEW s \in Session, Owner[s] \in clients
      PROVE  Len(answers[s]) = Len(asked[s])
  <2>1. NothingFailed
    BY <1>3 DEF RqInv, TrTyped, EventKind, NothingFailed, Refused
  <2>2. Due(s) = Len(asked[s])
    BY <1>3, <2>1 DEF RqInv, DueOK
  <2>3. \A B : HowMany(<<>>, B) = 0
    BY CountOne
  <2> QED BY <1>3, <2>2, <2>3, DueTypes DEF Due, Given, Quiet, RqInv, DueTyped
<1> QED BY <1>1, <1>3 DEF RequestsAreAnswered, EveryRequestAnswered, RqInv, DueOK, AnsweredOnce

-----------------------------------------------------------------------------
(* A configuring command is in one place until it is told                  *)

EcOwes(id) ==
  {m \in EcMessage \cup EcApiMessage :
     m.do \in {"config", "svs", "answer", "configure", "blacklist"} /\ m.id = id}
EcOwed(id) ==
  HowMany(ecQueue, EcOwes(id)) + HowMany(ecPending, EcOwes(id)) + HowMany(ecApi, EcOwes(id))
    + ecTold[id]
EcOnceOK ==
  /\ ecAsked \subseteq 1..ecEvents
  /\ \A id \in EcId : EcOwed(id) = IF id \in ecAsked THEN 1 ELSE 0

LEMMA EcOwesWhich ==
  ASSUME NEW id
  PROVE  /\ \A m \in EcMessage : m \in EcOwes(id) <=> m.do \in {"config", "svs", "answer"} /\ m.id = id
         /\ \A m \in EcApiMessage : m \in EcOwes(id) <=> m.do \in {"configure", "blacklist"} /\ m.id = id
<1>1. ASSUME NEW m \in EcMessage
      PROVE  m \in EcOwes(id) <=> m.do \in {"config", "svs", "answer"} /\ m.id = id
  BY EcMessageKinds DEF EcOwes
<1>2. ASSUME NEW m \in EcApiMessage
      PROVE  m \in EcOwes(id) <=> m.do \in {"configure", "blacklist"} /\ m.id = id
  BY EcApiMessageKinds DEF EcOwes
<1> QED BY <1>1, <1>2

(* The counts of a state, and those of the next one where nothing moved *)
LEMMA EcCounts ==
  ASSUME EcTypeOK, NEW id \in EcId
  PROVE  /\ HowMany(ecQueue, EcOwes(id)) \in Nat /\ HowMany(ecPending, EcOwes(id)) \in Nat
         /\ HowMany(ecApi, EcOwes(id)) \in Nat /\ ecTold[id] \in Nat
  BY EcTypesParts, CountBoth

LEMMA EcCarriedIs ==
  ASSUME NEW S \in {EcMessage, EcApiMessage}, NEW q \in Seq(S), NEW id
  PROVE  EcCarried(q, id) = HowMany(q, EcOwes(id))
  BY DEF EcOwes, EcCarried, HowMany

(* An action that hands over what it takes, for each command *)
EcHandsOver(id) == EcOwed(id)' = EcOwed(id)

LEMMA EcOnceKept ==
  ASSUME EcOnceOK, UNCHANGED <<ecAsked>>, ecEvents' = ecEvents \/ ecEvents' = ecEvents + 1,
         EcTypeOK, \A id \in EcId : EcHandsOver(id)
  PROVE  EcOnceOK'
  BY EcTypesParts DEF EcOnceOK, EcHandsOver

(* A command is new *)
LEMMA EcAsksOnce ==
  ASSUME EcTypeOK, EcOnceOK, EcCommands
  PROVE  EcOnceOK'
<1>1. PICK m \in EcMessage : EcAsks(m)
  BY EcCommandIs
<1>2. EcNextId \in EcId
  BY EcCommandIs
<1>3. /\ ecQueue' = Append(ecQueue, m) /\ ecEvents' = ecEvents + 1
      /\ ecAsked' = (IF m.do \in {"config", "svs"} THEN ecAsked \cup {m.id} ELSE ecAsked)
      /\ UNCHANGED <<ecPending, ecApi, ecTold>>
      /\ m.do # "answer" /\ (m.do \in {"config", "svs"} => m.id = EcNextId)
  BY <1>1 DEF EcAsks, EcCall
<1>4. ecEvents \in Nat /\ ecAsked \subseteq 1..ecEvents /\ EcNextId = ecEvents + 1
  BY EcTypesParts DEF EcOnceOK, EcNextId
<1>5. ecAsked' \subseteq 1..ecEvents' /\ EcNextId \notin ecAsked
  <2>2. 1..ecEvents \cup {EcNextId} \subseteq 1..ecEvents' /\ EcNextId \notin 1..ecEvents
    BY <1>3, <1>4
  <2> QED BY <1>3, <1>4, <2>2
<1>6. ASSUME NEW id \in EcId
      PROVE  EcOwed(id)' = IF id \in ecAsked' THEN 1 ELSE 0
  <2>3. m \in EcOwes(id) <=> m.do \in {"config", "svs"} /\ m.id = id
    BY <1>3, EcOwesWhich
  <2>4. PICK a, b, c, d : /\ a = HowMany(ecQueue, EcOwes(id)) /\ b = HowMany(ecPending, EcOwes(id))
                          /\ c = HowMany(ecApi, EcOwes(id)) /\ d = ecTold[id]
    OBVIOUS
  <2>5. a \in Nat /\ b \in Nat /\ c \in Nat /\ d \in Nat
    BY <2>4, EcCounts
  <2>6. ((a + b) + c) + d = IF id \in ecAsked THEN 1 ELSE 0
    BY <2>4 DEF EcOnceOK, EcOwed
  <2>7. EcOwed(id)' = ((a + (IF m \in EcOwes(id) THEN 1 ELSE 0)) + b + c) + d
    BY <1>3, <2>4, CountAppend, EcTypesParts DEF EcOwed
  <2>8. CASE m \in EcOwes(id)
    <3>1. id \notin ecAsked /\ id \in ecAsked'
      BY <1>3, <1>5, <2>3, <2>8
    <3> QED BY <2>5, <2>6, <2>7, <2>8, <3>1
  <2>9. CASE m \notin EcOwes(id)
    BY <1>3, <2>3, <2>5, <2>6, <2>7, <2>9
  <2> QED BY <2>8, <2>9
<1> QED BY <1>5, <1>6 DEF EcOnceOK

(* What a handler sends for the command that it takes *)
EcCarriesOn(ms) ==
  \A id \in EcId : HowMany(ms, EcOwes(id)) = IF Head(ecQueue) \in EcOwes(id) THEN 1 ELSE 0
EcNeedsItems(q) == \A m \in ToSet(q) : m.do = "configure" => m.need \subseteq m.items
EcPasses(ms) ==
  ms \in Seq(EcApiMessage) /\ ecApi' = ecApi \o ms /\ EcCarriesOn(ms) /\ EcNeedsItems(ms)

LEMMA EcSilentList ==
  ASSUME NEW S, NEW ms \in Seq(S), NEW id, \A y \in ToSet(ms) : y \notin EcOwes(id)
  PROVE  HowMany(ms, EcOwes(id)) = 0
  BY CountZero, SilentElements

LEMMA EcNothingPasses ==
  ASSUME EcTypeOK, ecApi' = ecApi, \A id \in EcId : Head(ecQueue) \notin EcOwes(id)
  PROVE  \E ms : EcPasses(ms)
<1>1. PICK ms : ms = <<>>
  OBVIOUS
<1>2. ms \in Seq(EcApiMessage) /\ ToSet(ms) = {}
  BY <1>1 DEF ToSet
<1> QED BY <1>1, <1>2, EcSilentList, EcTypesParts, ConcatEmptySeq DEF EcPasses, EcNeedsItems,
  EcCarriesOn

LEMMA EcConfigPasses ==
  ASSUME EcTypeOK, EcHandleConfig
  PROVE  \E ms : EcPasses(ms)
<1>1. PICK m : m = Head(ecQueue)
  OBVIOUS
<1>3. m \in EcMessage /\ m.do = "config"
  BY <1>1, EcReceives DEF EcHandleConfig
<1>4. /\ m.id \in EcId \cup {0} /\ m.items \in SUBSET EcItem /\ m.lock \in SUBSET EcLock
      /\ m.svs \in SUBSET EcSv
  BY <1>3, EcMessageKinds, EcInputAssumption
<1>5. PICK kept, invalid, need, l, x, ms :
        /\ kept = (IF "lock" \in m.items /\ ecAfw # 0 /\ ~ecNfw THEN {"lock"} ELSE {})
        /\ invalid = (IF m.supl THEN {} ELSE {"server"})
        /\ need = m.items \ (kept \cup invalid)
        /\ l = (IF "lock" \notin m.items \/ (ecAfw # 0 /\ ecNfw) THEN {} ELSE m.lock \cup {"MO"})
        /\ x = [do |-> "configure", id |-> m.id, items |-> m.items, need |-> need,
                invalid |-> invalid, lock |-> l, svs |-> m.svs]
        /\ ms = <<x>>
  OBVIOUS
<1>6. ecApi' = ecApi \o ms
  BY <1>1, <1>5 DEF EcHandleConfig, EcSend
<1>7. /\ l \in SUBSET EcLock /\ need \in SUBSET EcItem /\ need \subseteq m.items
      /\ invalid \in SUBSET EcItem
  BY <1>4, <1>5 DEF EcLock, EcItem
<1>8. /\ x \in EcApiMessage /\ x.do = "configure" /\ x.id = m.id /\ x.items = m.items
      /\ x.need = need
  <2>1. /\ x = [do |-> "configure", id |-> m.id, items |-> m.items, need |-> need,
                invalid |-> invalid, lock |-> l, svs |-> m.svs]
        /\ m.id \in EcId \cup {0} /\ m.items \in SUBSET EcItem /\ need \in SUBSET EcItem
        /\ invalid \in SUBSET EcItem /\ l \in SUBSET EcLock /\ m.svs \in SUBSET EcSv
    BY <1>4, <1>5, <1>7, Zenon
  <2>2. PICK id, items, svs : id = m.id /\ items = m.items /\ svs = m.svs
    OBVIOUS
  <2> QED BY <2>1, <2>2, EcConfigureMessage
<1>9. ms \in Seq(EcApiMessage) /\ ToSet(ms) = {x}
  BY <1>5, <1>8, ElementsOfOne
<1>10. EcCarriesOn(ms)
  <2> SUFFICES ASSUME NEW id \in EcId
               PROVE  HowMany(ms, EcOwes(id)) = IF m \in EcOwes(id) THEN 1 ELSE 0
    BY <1>1 DEF EcCarriesOn
  <2>1. x \in EcOwes(id) <=> m \in EcOwes(id)
    <3>1. x \in EcOwes(id) <=> x.do \in {"configure", "blacklist"} /\ x.id = id
      BY <1>8, EcOwesWhich
    <3>2. m \in EcOwes(id) <=> m.do \in {"config", "svs", "answer"} /\ m.id = id
      BY <1>3, EcOwesWhich
    <3> QED BY <1>3, <1>8, <3>1, <3>2
  <2>2. ms = <<x>>
    BY <1>5
  <2> QED BY <2>1, <2>2, CountOne
<1> QED BY <1>6, <1>7, <1>8, <1>9, <1>10 DEF EcPasses, EcNeedsItems

LEMMA EcTypesPasses ==
  ASSUME EcTypeOK, EcHandleTypes
  PROVE  \E ms : EcPasses(ms)
<1>1. PICK m : m = Head(ecQueue)
  OBVIOUS
<1>3. m \in EcMessage /\ m.do = "types" /\ m.from \in EcSource /\ m.config \in EcTypeConfig
  BY <1>1, EcReceives, EcMessageKinds DEF EcHandleTypes
<1>4. PICK types, cur, new, ms, r, c :
        /\ types = [ecTypes EXCEPT ![m.from] = m.config]
        /\ cur = EcCombined(ecTypes) /\ new = EcCombined(types) /\ ms = EcTypesUpdate(cur, new)
        /\ r = [do |-> "reset", enabled |-> FALSE]
        /\ c = [do |-> "constellation", enabled |-> TRUE]
  OBVIOUS
<1>5. ecApi' = ecApi \o ms
  BY <1>1, <1>4 DEF EcHandleTypes, EcSend
<1>6. \A id \in EcId : m \notin EcOwes(id)
  BY <1>3, EcOwesWhich
<1>7. CASE cur = new
  <2>2. ecApi' = ecApi
    BY <1>4, <1>5, <1>7, EcTypesParts, ConcatEmptySeq DEF EcTypesUpdate
  <2> QED BY <1>1, <1>6, <2>2, EcNothingPasses
<1>8. CASE cur # new
  <2>2. EcUpdates(cur, new, r, c)
    BY <1>3, <1>4, <1>8, EcTypesUpdateIs, EcTypesParts, EcCombinedType
  <2>3. PICK a, s, b, d :
          /\ a = <<>> \/ a = <<r>>
          /\ a = <<r>> <=> new.size = 0 \/ (EcEnables(cur) /\ ~EcEnables(new))
          /\ s = IF new.size # 0 /\ "disabled" \in cur.types /\ EcEnables(new) THEN {}
                 ELSE EcCombineBlacklist(ecSvs, new)
          /\ b = [do |-> "blacklist", id |-> 0, svs |-> s]
          /\ d = <<>> \/ d = <<c>>
          /\ d = <<c>> <=> EcEnables(new) /\ ~EcEnables(cur)
          /\ EcTypesUpdate(cur, new) = (a \o <<b>>) \o d
    BY <2>2, Zenon DEF EcUpdates
  <2>4. s \in SUBSET EcSv
    BY <2>3, EcTypesParts DEF EcCombineBlacklist
  <2>5. b \in EcApiMessage /\ b.do = "blacklist" /\ b.id = 0
    BY <2>3, <2>4, EcBlacklistMessage
  <2>6. r \in EcApiMessage /\ r.do = "reset" /\ c \in EcApiMessage /\ c.do = "constellation"
    BY <1>4, EcSwitchMessage
  <2>7. PICK be : be = <<b>>
    OBVIOUS
  <2>8. a \in Seq(EcApiMessage) /\ be \in Seq(EcApiMessage) /\ d \in Seq(EcApiMessage)
        /\ ToSet(a) \subseteq {r} /\ ToSet(be) = {b} /\ ToSet(d) \subseteq {c}
    <3>1. <<>> \in Seq(EcApiMessage) /\ ToSet(<<>>) = {}
      BY DEF ToSet
    <3> QED BY <2>3, <2>5, <2>6, <2>7, <3>1, ElementsOfOne, Zenon
  <2>9. ms \in Seq(EcApiMessage) /\ ToSet(ms) = ToSet(a) \cup ToSet(be) \cup ToSet(d)
    <3>1. a \in Seq(EcApiMessage) /\ be \in Seq(EcApiMessage) /\ d \in Seq(EcApiMessage)
      BY <2>8
    <3>2. ms = (a \o be) \o d
      BY <1>4, <2>3, <2>7
    <3> QED BY <3>1, <3>2, EndsThree
  <2>10. \A y \in ToSet(ms) : y \in EcApiMessage /\ y.do # "configure" /\ (y.do = "blacklist" => y.id = 0)
    BY <2>5, <2>6, <2>8, <2>9
  <2>11. EcCarriesOn(ms)
    <3> SUFFICES ASSUME NEW id \in EcId PROVE HowMany(ms, EcOwes(id)) = 0
      BY <1>1, <1>6 DEF EcCarriesOn
    <3> QED BY <2>9, <2>10, EcSilentList, EcOwesWhich DEF EcId
  <2> QED BY <1>5, <2>9, <2>10, <2>11 DEF EcPasses, EcNeedsItems
<1> QED BY <1>7, <1>8

LEMMA EcSvsPasses ==
  ASSUME EcTypeOK, EcHandleSvs
  PROVE  \E ms : EcPasses(ms)
<1>1. PICK m : m = Head(ecQueue)
  OBVIOUS
<1>3. m \in EcMessage /\ m.do = "svs"
  BY <1>1, EcReceives DEF EcHandleSvs
<1>4. m.id \in EcId \cup {0} /\ m.config \in EcTypeConfig /\ m.svs \in SUBSET EcSv
  BY <1>3, EcMessageKinds, EcInputAssumption
<1>5. PICK cur, r, c, b, be :
        /\ cur = EcCombined(ecTypes)
        /\ r = [do |-> "reset", enabled |-> FALSE]
        /\ c = [do |-> "constellation", enabled |-> EcEnables(cur)]
        /\ b = [do |-> "blacklist", id |-> m.id, svs |-> m.svs]
        /\ be = <<b>>
  OBVIOUS
<1>6. PICK ms : ms = (IF m.config.size = 0 THEN <<r>>
                      ELSE (IF EcEnables(cur) /\ ~EcEnables(m.config) THEN <<r>> ELSE <<>>)
                             \o <<c>>)
                       \o <<b>>
  OBVIOUS
<1>8. r \in EcApiMessage /\ r.do = "reset" /\ c \in EcApiMessage /\ c.do = "constellation"
  <2>1. EcEnables(cur) \in BOOLEAN
    BY DEF EcEnables
  <2> QED BY <1>5, <2>1, EcSwitchMessage
<1>9. b \in EcApiMessage /\ b.do = "blacklist" /\ b.id = m.id
  BY <1>4, <1>5, EcBlacklistMessage
<1>10. PICK a, d : (a = <<>> \/ a = <<r>>) /\ (d = <<>> \/ d = <<c>>) /\ ms = (a \o d) \o be
  <2>1. EcSends(cur, m.config, r, c, b, ms)
    BY <1>4, <1>6, EcSvsSends
  <2> QED BY <1>4, <1>5, <2>1, EcTypeConfigKinds DEF EcSends
<1>11. /\ a \in Seq(EcApiMessage) /\ ToSet(a) \subseteq {r} /\ be \in Seq(EcApiMessage)
       /\ ToSet(be) = {b} /\ d \in Seq(EcApiMessage) /\ ToSet(d) \subseteq {c}
  <2>1. <<>> \in Seq(EcApiMessage) /\ ToSet(<<>>) = {}
    BY DEF ToSet
  <2> QED BY <1>5, <1>8, <1>9, <1>10, <2>1, ElementsOfOne, Zenon
<1>12. PICK ad : ad = a \o d
  OBVIOUS
<1>13. ad \in Seq(EcApiMessage) /\ ToSet(ad) \subseteq {r, c}
  <2>2. a \o d \in Seq(EcApiMessage) /\ ToSet(a \o d) = ToSet(a) \cup ToSet(d)
    BY <1>11, ElementsOfBoth, ConcatProperties
  <2> QED BY <1>11, <1>12, <2>2
<1>14. ms = ad \o be /\ ms \in Seq(EcApiMessage) /\ ToSet(ms) = ToSet(ad) \cup ToSet(be)
  <2>2. ad \o be \in Seq(EcApiMessage) /\ ToSet(ad \o be) = ToSet(ad) \cup ToSet(be)
    BY <1>11, <1>13, ElementsOfBoth, ConcatProperties
  <2> QED BY <1>10, <1>12, <2>2
<1>15. EcCarriesOn(ms)
  <2> SUFFICES ASSUME NEW id \in EcId
               PROVE  HowMany(ms, EcOwes(id)) = IF m \in EcOwes(id) THEN 1 ELSE 0
    BY <1>1 DEF EcCarriesOn
  <2>2. HowMany(ad, EcOwes(id)) = 0
    BY <1>8, <1>13, EcSilentList, EcOwesWhich
  <2>3. b \in EcOwes(id) <=> m \in EcOwes(id)
    BY <1>3, <1>9, EcOwesWhich
  <2>5. HowMany(ms, EcOwes(id)) = HowMany(ad, EcOwes(id)) + HowMany(be, EcOwes(id))
    BY <1>11, <1>13, <1>14, CountBoth
  <2> QED BY <1>5, <2>2, <2>3, <2>5, CountOne
<1>16. EcNeedsItems(ms)
  BY <1>8, <1>9, <1>11, <1>13, <1>14 DEF EcNeedsItems
<1> QED BY <1>1, <1>5, <1>6, <1>14, <1>15, <1>16 DEF EcPasses, EcHandleSvs, EcSend

LEMMA EcControlPasses ==
  ASSUME EcTypeOK, EcHandleEnable \/ EcHandleDisable \/ EcHandleNfwControl
  PROVE  \E ms : EcPasses(ms)
<1>1. PICK m : m = Head(ecQueue)
  OBVIOUS
<1>2. PICK do \in {"enable", "disable", "nfw"} : EcReceive(do)
  BY DEF EcHandleEnable, EcHandleDisable, EcHandleNfwControl
<1>4. \A id \in EcId : m \notin EcOwes(id)
  BY <1>1, <1>2, EcOwesWhich, EcReceives
<1>5. ecConf \in SUBSET EcLock
  BY EcTypesParts
<1>6. ecApi' = ecApi \/ \E lock \in SUBSET EcLock : EcSetLock(lock)
  <2>1. CASE EcHandleEnable
    BY <1>5, <2>1 DEF EcHandleEnable
  <2>2. CASE EcHandleDisable
    BY <1>5, <2>2 DEF EcHandleDisable, EcLock
  <2>3. CASE EcHandleNfwControl
    BY <1>1, <1>5, <2>3, EcReceives, EcMessageKinds DEF EcHandleNfwControl
  <2> QED BY <2>1, <2>2, <2>3
<1>7. CASE ecApi' = ecApi
  BY <1>1, <1>4, <1>7, EcNothingPasses
<1>8. CASE \E lock \in SUBSET EcLock : EcSetLock(lock)
  <2>1. PICK lock \in SUBSET EcLock : EcSetLock(lock)
    BY <1>8
  <2>2. PICK x, ms : x = [do |-> "lock", lock |-> lock] /\ ms = <<x>>
    OBVIOUS
  <2>3. x \in EcApiMessage /\ x.do = "lock"
    BY <2>2, EcLockMessage
  <2>6. EcCarriesOn(ms)
    <3> SUFFICES ASSUME NEW id \in EcId PROVE HowMany(ms, EcOwes(id)) = 0
      BY <1>1, <1>4 DEF EcCarriesOn
    <3> QED BY <2>2, <2>3, CountOne, EcOwesWhich
  <2> QED BY <2>1, <2>2, <2>3, <2>6, ElementsOfOne DEF EcPasses, EcNeedsItems, EcSetLock, EcSend
<1> QED BY <1>6, <1>7, <1>8

(* What is taken from the queue is sent on *)
LEMMA EcSentOver ==
  ASSUME EcTypeOK, ecQueue # <<>>, ecQueue' = Tail(ecQueue), \E ms : EcPasses(ms),
         UNCHANGED <<ecPending, ecTold>>, NEW id \in EcId
  PROVE  EcHandsOver(id)
<1>1. PICK ms : EcPasses(ms)
  OBVIOUS
<1>3. ecQueue \in Seq(EcMessage) /\ ecApi \in Seq(EcApiMessage)
  BY EcTypesParts
<1>4. PICK u : u = IF Head(ecQueue) \in EcOwes(id) THEN 1 ELSE 0
  OBVIOUS
<1>6. HowMany(ecQueue, EcOwes(id)) = u + HowMany(ecQueue', EcOwes(id))
      /\ HowMany(ecQueue', EcOwes(id)) \in Nat
  BY <1>3, <1>4, CountTail
<1>7. HowMany(ecApi', EcOwes(id)) = HowMany(ecApi, EcOwes(id)) + u
  BY <1>1, <1>3, <1>4, CountBoth DEF EcPasses, EcCarriesOn
<1>8. PICK a, b, c, d : /\ a = HowMany(ecQueue', EcOwes(id)) /\ b = HowMany(ecPending, EcOwes(id))
                        /\ c = HowMany(ecApi, EcOwes(id)) /\ d = ecTold[id]
  OBVIOUS
<1> QED BY <1>4, <1>6, <1>7, <1>8, EcCounts DEF EcHandsOver, EcOwed

(* The answer that comes for what the modem did *)
LEMMA EcRepliesCount ==
  ASSUME EcTypeOK, NEW x, x.id \in EcId \cup {0},
         NEW items \in SUBSET EcItem, NEW refused \in SUBSET EcItem,
         NEW invalid \in SUBSET EcItem, NEW id \in EcId
  PROVE  HowMany(EcReply(x, items, refused, invalid), EcOwes(id)) = IF x.id = id THEN 1 ELSE 0
<1>1. PICK r : /\ EcReply(x, items, refused, invalid) = IF x.id = 0 THEN <<>> ELSE <<r>>
               /\ r = [do |-> "answer", id |-> x.id,
                       answer |-> [items |-> items, refused |-> refused,
                                   invalid |-> invalid, errors |-> EcErrors(items, refused)]]
               /\ x.id # 0 => r \in EcMessage
  BY EcReplyIs
<1>2. CASE x.id = 0
  <2>1. x.id # id
    BY <1>2 DEF EcId
  <2> QED BY <1>1, <1>2, <2>1, CountOne
<1>3. CASE x.id # 0
  BY <1>1, <1>3, EcOwesWhich, CountOne
<1> QED BY <1>2, <1>3

LEMMA EcRepliedOver ==
  ASSUME EcTypeOK, ecApi # <<>>, ecApi' = Tail(ecApi), UNCHANGED <<ecPending, ecTold>>,
         NEW id \in EcId, NEW r \in Seq(EcMessage), ecQueue' = ecQueue \o r,
         HowMany(r, EcOwes(id)) = IF Head(ecApi) \in EcOwes(id) THEN 1 ELSE 0
  PROVE  EcHandsOver(id)
<1>1. ecQueue \in Seq(EcMessage) /\ ecApi \in Seq(EcApiMessage)
  BY EcTypesParts
<1>2. PICK u : u = IF Head(ecApi) \in EcOwes(id) THEN 1 ELSE 0
  OBVIOUS
<1>3. HowMany(ecApi, EcOwes(id)) = u + HowMany(ecApi', EcOwes(id))
      /\ HowMany(ecApi', EcOwes(id)) \in Nat
  BY <1>1, <1>2, CountTail
<1>4. HowMany(ecQueue', EcOwes(id)) = HowMany(ecQueue, EcOwes(id)) + u
  BY <1>1, <1>2, CountBoth
<1>5. PICK a, b, c, d : /\ a = HowMany(ecQueue, EcOwes(id)) /\ b = HowMany(ecPending, EcOwes(id))
                        /\ c = HowMany(ecApi', EcOwes(id)) /\ d = ecTold[id]
  OBVIOUS
<1> QED BY <1>2, <1>3, <1>4, <1>5, EcCounts DEF EcHandsOver, EcOwed

LEMMA EcConfiguresOver ==
  ASSUME EcTypeOK, EcApiConfigure \/ EcApiCall, NEW id \in EcId
  PROVE  EcHandsOver(id)
<1>1. PICK x : x = Head(ecApi)
  OBVIOUS
<1>2. ecApi # <<>> /\ ecApi' = Tail(ecApi) /\ UNCHANGED <<ecPending, ecTold>>
  BY DEF EcApiConfigure, EcApiCall, ecAnswers
<1>3. x \in EcApiMessage
  BY <1>1, <1>2, EcTakes
<1>4. x \in EcOwes(id) <=> x.do \in {"configure", "blacklist"} /\ x.id = id
  BY <1>3, EcOwesWhich
<1>5. ASSUME NEW items \in SUBSET EcItem, NEW refused \in SUBSET EcItem,
             NEW invalid \in SUBSET EcItem, x.do \in {"configure", "blacklist"},
             ecQueue' = ecQueue \o EcReply(x, items, refused, invalid)
      PROVE  EcHandsOver(id)
  <2>1. x.id \in EcId \cup {0}
    BY <1>3, <1>5, EcApiMessageKinds
  <2>2. PICK r : r = EcReply(x, items, refused, invalid)
    OBVIOUS
  <2>3. r \in Seq(EcMessage)
    BY <2>1, <2>2, EcReplyIs
  <2>4. HowMany(r, EcOwes(id)) = IF x.id = id THEN 1 ELSE 0
    BY <2>1, <2>2, EcRepliesCount
  <2> QED BY <1>1, <1>2, <1>4, <1>5, <2>2, <2>3, <2>4, EcRepliedOver
<1>6. CASE EcApiConfigure
  <2>1. PICK refused :
          /\ refused \in (IF ecModem.up
                          THEN SUBSET (x.need \cap EcPlaced(x.items) \cap EcRefusable)
                          ELSE {(x.need \cap EcPlaced(x.items)) \ {"mode"}})
          /\ ecQueue' = ecQueue \o EcReply(x, x.items, refused, x.invalid)
          /\ x.do = "configure"
    BY <1>1, <1>6 DEF EcApiConfigure
  <2> QED BY <1>3, <1>5, <2>1, EcApiMessageKinds
<1>7. CASE EcApiCall
  <2>1. CASE x.do = "blacklist"
    BY <1>1, <1>5, <1>7, <2>1 DEF EcItem, EcApiCall
  <2>2. CASE x.do # "blacklist"
    <3>1. ecQueue' = ecQueue /\ x.do # "configure"
      BY <1>1, <1>7, <2>2 DEF EcApiCall
    <3>2. PICK r : r = <<>>
      OBVIOUS
    <3>3. r \in Seq(EcMessage) /\ HowMany(r, EcOwes(id)) = 0
      <4>1. r \in Seq(EcMessage) /\ ToSet(r) = {}
        BY <3>2 DEF ToSet
      <4> QED BY <4>1, EcSilentList
    <3>4. ecQueue' = ecQueue \o r
      BY <3>1, <3>2, EcTypesParts, ConcatEmptySeq
    <3>5. x \notin EcOwes(id)
      BY <1>4, <2>2, <3>1
    <3> QED BY <1>1, <1>2, <3>3, <3>4, <3>5, EcRepliedOver
  <2> QED BY <2>1, <2>2
<1> QED BY <1>6, <1>7

(* What the engine needs waits, and is sent again, and an answer is told *)
LEMMA EcWaitsOver ==
  ASSUME EcTypeOK, ecQueue # <<>>, ecQueue' = Tail(ecQueue),
         ecPending' = Append(ecPending, Head(ecQueue)), UNCHANGED <<ecApi, ecTold>>,
         NEW id \in EcId
  PROVE  EcHandsOver(id)
<1>1. ecQueue \in Seq(EcMessage) /\ ecPending \in Seq(EcMessage)
  BY EcTypesParts
<1>2. PICK u, m : m = Head(ecQueue) /\ u = IF m \in EcOwes(id) THEN 1 ELSE 0
  OBVIOUS
<1>5. HowMany(ecPending', EcOwes(id)) = HowMany(ecPending, EcOwes(id)) + u
  BY <1>1, <1>2, CountAppend, HeadAndTail
<1>6. PICK a, b, c, d : /\ a = HowMany(ecQueue', EcOwes(id)) /\ b = HowMany(ecPending, EcOwes(id))
                        /\ c = HowMany(ecApi, EcOwes(id)) /\ d = ecTold[id]
  OBVIOUS
<1> QED BY <1>1, <1>2, <1>5, <1>6, EcCounts, CountTail DEF EcHandsOver, EcOwed

LEMMA EcFlushCounts ==
  ASSUME EcTypeOK, ecQueue # <<>>, NEW id \in EcId, Head(ecQueue) \notin EcOwes(id),
         EcFlush \/ (ecQueue' = Tail(ecQueue) /\ ecPending' = ecPending)
  PROVE  /\ HowMany(ecQueue', EcOwes(id)) \in Nat /\ HowMany(ecPending', EcOwes(id)) \in Nat
         /\ HowMany(ecQueue', EcOwes(id)) + HowMany(ecPending', EcOwes(id))
              = HowMany(ecQueue, EcOwes(id)) + HowMany(ecPending, EcOwes(id))
<1>1. ecQueue \in Seq(EcMessage) /\ ecPending \in Seq(EcMessage)
  BY EcTypesParts
<1>2. PICK t : t = Tail(ecQueue)
  OBVIOUS
<1>3. t \in Seq(EcMessage)
  BY <1>1, <1>2, HeadAndTail
<1>4. HowMany(ecQueue, EcOwes(id)) = HowMany(t, EcOwes(id)) /\ HowMany(t, EcOwes(id)) \in Nat
  BY <1>1, <1>2, CountTail
<1>5. HowMany(ecPending, EcOwes(id)) \in Nat
  BY EcCounts
<1>6. CASE EcFlush
  <2>1. ecQueue' = t \o ecPending /\ ecPending' = <<>>
    BY <1>2, <1>6 DEF EcFlush
  <2>2. HowMany(ecQueue', EcOwes(id)) = HowMany(t, EcOwes(id)) + HowMany(ecPending, EcOwes(id))
    BY <1>1, <1>3, <2>1, CountBoth
  <2>3. HowMany(ecPending', EcOwes(id)) = 0
    <3>1. PICK N : N = ecPending'
      OBVIOUS
    <3>2. N \in Seq(EcMessage) /\ ToSet(N) = {}
      BY <2>1, <3>1 DEF ToSet
    <3> QED BY <3>1, <3>2, EcSilentList
  <2> QED BY <1>4, <1>5, <2>2, <2>3
<1>7. CASE ecQueue' = Tail(ecQueue) /\ ecPending' = ecPending
  BY <1>2, <1>4, <1>5, <1>7
<1> QED BY <1>6, <1>7

LEMMA EcUnlocksOver ==
  ASSUME EcTypeOK, EcHandleUnlock, NEW id \in EcId
  PROVE  EcHandsOver(id)
  BY EcTypesParts, HeadAndTail, EcOwesWhich, EcFlushCounts DEF EcHandleUnlock, ecAnswers,
    EcHandsOver, EcOwed

LEMMA EcUpPasses ==
  ASSUME EcTypeOK, EcHandleEngineUp
  PROVE  /\ \E ms : EcPasses(ms)
         /\ \A id \in EcId : Head(ecQueue) \notin EcOwes(id)
<1>1. PICK combined, need, none, c, x, b :
        /\ combined = EcCombined(ecTypes)
        /\ need = {"lock", "version", "server", "blacklist"} /\ none = {}
        /\ c = [do |-> "constellation", enabled |-> EcEnables(combined)]
        /\ x = [do |-> "configure", id |-> 0, items |-> need, need |-> need,
                invalid |-> none, lock |-> EcLockToSet, svs |-> ecList]
        /\ b = [do |-> "blacklist", id |-> 0, svs |-> EcCombineBlacklist(ecSvs, combined)]
  OBVIOUS
<1>2. PICK d, xb : d = (IF combined.size = 0 THEN <<>> ELSE <<c>>) /\ xb = <<x, b>>
  OBVIOUS
<1>3. PICK ms : ms = xb \o d
  OBVIOUS
<1>4. ecApi' = ecApi \o ms /\ ecQueue # <<>> /\ Head(ecQueue).do = "up"
  BY <1>1, <1>2, <1>3 DEF EcHandleEngineUp, EcSend
<1>5. x \in EcApiMessage /\ x.do = "configure" /\ x.id = 0 /\ x.items = need /\ x.need = need
  <2>1. need \in SUBSET EcItem /\ 0 \in EcId \cup {0}
    BY <1>1 DEF EcItem
  <2>2. PICK lock, svs : lock = EcLockToSet /\ svs = ecList
    OBVIOUS
  <2>3. lock \in SUBSET EcLock /\ svs \in SUBSET EcSv
    BY <2>2, EcTypesParts DEF EcLockToSet
  <2> QED BY <1>1, <2>1, <2>2, <2>3, EcConfigureMessage
<1>6. b \in EcApiMessage /\ b.do = "blacklist" /\ b.id = 0
  <2>1. EcCombineBlacklist(ecSvs, combined) \in SUBSET EcSv /\ 0 \in EcId \cup {0}
    BY EcTypesParts DEF EcCombineBlacklist
  <2> QED BY <1>1, <2>1, EcBlacklistMessage
<1>7. c \in EcApiMessage /\ c.do = "constellation"
  <2>1. EcEnables(combined) \in BOOLEAN
    BY DEF EcEnables
  <2> QED BY <1>1, <2>1, EcSwitchMessage
<1>8. xb \in Seq(EcApiMessage) /\ ToSet(xb) = {x, b}
  BY <1>2, <1>5, <1>6 DEF ToSet
<1>9. d \in Seq(EcApiMessage) /\ ToSet(d) \subseteq {c}
  <2>1. <<>> \in Seq(EcApiMessage) /\ ToSet(<<>>) = {}
    BY DEF ToSet
  <2> QED BY <1>2, <1>7, <2>1, ElementsOfOne, Zenon
<1>10. ms \in Seq(EcApiMessage) /\ ToSet(ms) = ToSet(xb) \cup ToSet(d)
  BY <1>3, <1>8, <1>9, ElementsOfBoth, ConcatProperties
<1>11. \A id \in EcId : Head(ecQueue) \notin EcOwes(id)
  BY <1>4, EcTypesParts, HeadAndTail, EcOwesWhich
<1>12. EcCarriesOn(ms)
  <2> SUFFICES ASSUME NEW id \in EcId PROVE HowMany(ms, EcOwes(id)) = 0
    BY <1>11 DEF EcCarriesOn
  <2>2. x \notin EcOwes(id) /\ b \notin EcOwes(id) /\ c \notin EcOwes(id)
    BY <1>5, <1>6, <1>7, EcOwesWhich DEF EcId
  <2> QED BY <1>8, <1>9, <1>10, <2>2, EcSilentList
<1>13. EcNeedsItems(ms)
  BY <1>5, <1>6, <1>7, <1>8, <1>9, <1>10 DEF EcNeedsItems
<1> QED BY <1>4, <1>10, <1>11, <1>12, <1>13 DEF EcPasses

LEMMA EcUpOver ==
  ASSUME EcTypeOK, EcHandleEngineUp, NEW id \in EcId
  PROVE  EcHandsOver(id)
<1>2. PICK ms : EcPasses(ms)
  BY EcUpPasses
<1>3. Head(ecQueue) \notin EcOwes(id)
  BY EcUpPasses
<1>4. PICK a, b, a1, b1 :
        /\ a = HowMany(ecQueue, EcOwes(id)) /\ b = HowMany(ecPending, EcOwes(id))
        /\ a1 = HowMany(ecQueue', EcOwes(id)) /\ b1 = HowMany(ecPending', EcOwes(id))
  OBVIOUS
<1>6. HowMany(ecApi', EcOwes(id)) = HowMany(ecApi, EcOwes(id))
  BY <1>2, <1>3, EcTypesParts, CountBoth DEF EcPasses, EcCarriesOn
<1> QED BY <1>3, <1>4, <1>6, EcFlushCounts DEF EcHandsOver, EcOwed, EcHandleEngineUp, ecAnswers

LEMMA EcTellsOver ==
  ASSUME EcTypeOK, EcHandleAnswer, NEW id \in EcId
  PROVE  EcHandsOver(id)
<1>1. PICK m : m = Head(ecQueue)
  OBVIOUS
<1>2. /\ ecQueue # <<>> /\ m.do = "answer" /\ ecQueue' = Tail(ecQueue)
      /\ ecTold' = [ecTold EXCEPT ![m.id] = @ + 1] /\ UNCHANGED <<ecPending, ecApi>>
  BY <1>1 DEF EcHandleAnswer
<1>3. ecQueue \in Seq(EcMessage) /\ ecTold \in [EcId -> Nat]
  BY EcTypesParts
<1>6. PICK u : u = IF m \in EcOwes(id) THEN 1 ELSE 0
  OBVIOUS
<1>7. HowMany(ecQueue, EcOwes(id)) = u + HowMany(ecQueue', EcOwes(id))
      /\ HowMany(ecQueue', EcOwes(id)) \in Nat
  BY <1>1, <1>2, <1>3, <1>6, CountTail
<1>8. ecTold'[id] = ecTold[id] + u
  BY <1>1, <1>2, <1>3, <1>6, EcOwesWhich, HeadAndTail
<1>9. PICK a, b, c, d : /\ a = HowMany(ecQueue', EcOwes(id)) /\ b = HowMany(ecPending, EcOwes(id))
                        /\ c = HowMany(ecApi, EcOwes(id)) /\ d = ecTold[id]
  OBVIOUS
<1>11. EcOwed(id) = ((u + a) + b + c) + d /\ EcOwed(id)' = (a + b + c) + (d + u)
  BY <1>2, <1>7, <1>8, <1>9 DEF EcOwed
<1> QED BY <1>6, <1>7, <1>9, <1>11, EcCounts DEF EcHandsOver

(* Of what comes and goes besides nothing is owed *)
LEMMA EcEventsOver ==
  ASSUME EcTypeOK, EcApiOpen \/ EcModemDown \/ EcLockStatus, NEW id \in EcId
  PROVE  EcHandsOver(id)
<1>1. ecQueue \in Seq(EcMessage) /\ ecApi \in Seq(EcApiMessage)
  BY EcTypesParts
<1>2. PICK x, y, z :
        y = [do |-> "up"] /\ z = [do |-> "unlock"] /\ x = [do |-> "open"]
  OBVIOUS
<1>3. y \in EcMessage /\ z \in EcMessage /\ x \in EcApiMessage
      /\ y.do = "up" /\ z.do = "unlock" /\ x.do = "open"
  BY <1>2 DEF EcMessage, EcApiMessage
<1>4. y \notin EcOwes(id) /\ z \notin EcOwes(id) /\ x \notin EcOwes(id)
  BY <1>3, EcOwesWhich
<1>5. UNCHANGED <<ecPending, ecTold>>
  BY DEF EcApiOpen, EcModemDown, EcLockStatus, EcEvent, ecAnswers
<1>6. HowMany(ecQueue, EcOwes(id)) \in Nat /\ HowMany(ecApi, EcOwes(id)) \in Nat
  BY EcCounts
<1>7. /\ ecQueue' = ecQueue \/ ecQueue' = Append(ecQueue, y) \/ ecQueue' = Append(ecQueue, z)
      /\ \/ ecApi' = ecApi \/ ecApi' = Append(ecApi, x)
         \/ ecApi # <<>> /\ Head(ecApi).do = "open" /\ ecApi' = Tail(ecApi)
  BY <1>2 DEF EcApiOpen, EcModemDown, EcLockStatus, EcEvent
<1>8. HowMany(ecQueue', EcOwes(id)) = HowMany(ecQueue, EcOwes(id))
  <2>1. /\ HowMany(Append(ecQueue, y), EcOwes(id)) = HowMany(ecQueue, EcOwes(id)) + 0
        /\ HowMany(Append(ecQueue, z), EcOwes(id)) = HowMany(ecQueue, EcOwes(id)) + 0
    BY <1>1, <1>3, <1>4, CountAppend
  <2>2. PICK n : n = HowMany(ecQueue, EcOwes(id))
    OBVIOUS
  <2>3. n + 0 = n
    BY <1>6, <2>2
  <2> QED BY <1>7, <2>1, <2>2, <2>3, Zenon
<1>9. HowMany(ecApi', EcOwes(id)) = HowMany(ecApi, EcOwes(id))
  <2>1. CASE ecApi' = Append(ecApi, x)
    BY <1>1, <1>3, <1>4, <1>6, <2>1, CountAppend
  <2>2. CASE ecApi # <<>> /\ Head(ecApi).do = "open" /\ ecApi' = Tail(ecApi)
    <3>2. Head(ecApi) \notin EcOwes(id)
      BY <1>1, <2>2, EcOwesWhich, HeadAndTail
    <3> QED BY <1>1, <2>2, <3>2, CountTail
  <2> QED BY <1>7, <2>1, <2>2
<1> QED BY <1>5, <1>8, <1>9 DEF EcHandsOver, EcOwed

LEMMA EcOnceStays ==
  ASSUME EcTypeOK, EcOnceOK, [EcNext]_ecVars
  PROVE  EcOnceOK'
<1>1. CASE EcCommands
  BY <1>1, EcAsksOnce
<1>2. ASSUME ~EcCommands
      PROVE  UNCHANGED ecAsked /\ (ecEvents' = ecEvents \/ ecEvents' = ecEvents + 1)
  BY <1>2 DEF EcNext, EcCommands, ecVars, EcHandlePending, EcHandleConfig, EcHandleTypes, EcHandleSvs,
     EcHandleEnable, EcHandleDisable, EcHandleNfwControl, EcHandleEngineUp, EcHandleUnlock,
     EcHandleAnswer, EcApiConfigure, EcApiCall, EcApiOpen, EcModemDown, EcLockStatus, EcEvent,
     EcReceive, ecAnswers
<1>3. ASSUME NEW id \in EcId, ~EcCommands
      PROVE  EcHandsOver(id)
  <2>1. CASE \E do : EcReceive(do) /\ \E ms : EcPasses(ms)
    BY <2>1, EcSentOver DEF EcReceive, ecAnswers
  <2>2. CASE EcHandlePending
    BY <2>2, EcWaitsOver DEF EcHandlePending, ecAnswers
  <2>3. CASE EcHandleConfig
    BY <2>1, <2>3, EcConfigPasses DEF EcHandleConfig
  <2>4. CASE EcHandleTypes
    BY <2>1, <2>4, EcTypesPasses DEF EcHandleTypes
  <2>5. CASE EcHandleSvs
    BY <2>1, <2>5, EcSvsPasses DEF EcHandleSvs
  <2>6. CASE EcHandleEnable \/ EcHandleDisable \/ EcHandleNfwControl
    BY <2>1, <2>6, EcControlPasses DEF EcHandleEnable, EcHandleDisable, EcHandleNfwControl
  <2>7. CASE EcHandleEngineUp
    BY <2>7, EcUpOver
  <2>8. CASE EcHandleUnlock
    BY <2>8, EcUnlocksOver
  <2>9. CASE EcHandleAnswer
    BY <2>9, EcTellsOver
  <2>10. CASE EcApiConfigure \/ EcApiCall
    BY <2>10, EcConfiguresOver
  <2>11. CASE EcApiOpen \/ EcModemDown \/ EcLockStatus
    BY <2>11, EcEventsOver
  <2>12. CASE UNCHANGED ecVars
    BY <2>12 DEF EcHandsOver, EcOwed, ecVars, ecAnswers
  <2> QED BY <1>3, <2>2, <2>3, <2>4, <2>5, <2>6, <2>7, <2>8, <2>9, <2>10, <2>11, <2>12
          DEF EcNext, EcCommands
<1> QED BY <1>1, <1>2, <1>3, EcOnceKept

LEMMA EcOnceBegins ==
  ASSUME EcInit
  PROVE  EcOnceOK
<1>1. EcTypeOK
  BY EcInits DEF EcInv
<1>2. ecAsked = {} /\ \A id \in EcId : ecTold[id] = 0
  BY DEF EcInit
<1>3. ASSUME NEW id \in EcId PROVE EcOwed(id) = 0
  <2>1. PICK x, N : x = [do |-> "open"] /\ N = <<>>
    OBVIOUS
  <2> QED BY <1>2, <2>1, CountOne, EcSilentList, EcOwesWhich, EcOpenMessage DEF EcOwed, EcInit,
    ToSet
<1> QED BY <1>2, <1>3 DEF EcOnceOK

LEMMA EcOnceTold ==
  ASSUME EcTypeOK, EcOnceOK
  PROVE  EachIsAnsweredOnce
<1>1. ecQueue \in Seq(EcMessage) /\ ecPending \in Seq(EcMessage) /\ ecApi \in Seq(EcApiMessage)
      /\ ecAsked \subseteq EcId
  BY EcTypesParts
<1>2. ASSUME NEW id \in ecAsked
      PROVE  /\ EcCarried(ecQueue, id) = HowMany(ecQueue, EcOwes(id))
             /\ EcCarried(ecPending, id) = HowMany(ecPending, EcOwes(id))
             /\ EcCarried(ecApi, id) = HowMany(ecApi, EcOwes(id))
  BY <1>1, EcCarriedIs
<1> QED BY <1>1, <1>2 DEF EachIsAnsweredOnce, EcOnceOK, EcOwed

-----------------------------------------------------------------------------
(* The errors of an answer.  The place of an item is how many of the items *)
(* come up to it in the order.                                             *)

EcUpTo(order, items, n) == Cardinality({i \in 1..n : order[i] \in items})
EcThere(items, item) == IF item \in items THEN 1 ELSE 0

LEMMA SameNumber ==
  ASSUME NEW S, NEW T, IsFiniteSet(S), NEW f \in [S -> T],
         \A x, y \in S : f[x] = f[y] => x = y, \A t \in T : \E x \in S : f[x] = t
  PROVE  IsFiniteSet(T) /\ Cardinality(T) = Cardinality(S)
  BY FS_Bijection DEF Bijection, Injection, Surjection, IsInjective, ExistsBijection

LEMMA EcUpToNext ==
  ASSUME NEW order, NEW items, NEW n \in Nat
  PROVE  /\ EcUpTo(order, items, n) \in Nat /\ EcUpTo(order, items, 0) = 0
         /\ EcUpTo(order, items, n + 1)
              = EcUpTo(order, items, n) + EcThere(items, order[n + 1])
<1> DEFINE K == {i \in 1..n : order[i] \in items}
           L == {i \in 1..(n + 1) : order[i] \in items}
<1>1. IsFiniteSet(K)
  <2>1. IsFiniteSet(1..n) /\ K \subseteq 1..n
    BY FS_Interval
  <2> QED BY <2>1, FS_Subset
<1>2. Cardinality(K) \in Nat
  BY <1>1, FS_CardinalityType
<1>4. Cardinality(L) = Cardinality(K) + EcThere(items, order[n + 1])
  <2>1. CASE order[n + 1] \in items
    <3>1. L = K \cup {n + 1} /\ n + 1 \notin K
      BY <2>1
    <3> HIDE DEF K, L
    <3> QED BY <1>1, <2>1, <3>1, FS_AddElement DEF EcThere
  <2>2. CASE order[n + 1] \notin items
    <3>1. L = K
      BY <2>2
    <3> HIDE DEF K, L
    <3> QED BY <1>2, <2>2, <3>1 DEF EcThere
  <2> QED BY <2>1, <2>2
<1> QED BY <1>2, <1>4, FS_EmptySet DEF EcUpTo

LEMMA EcPlaceIs ==
  ASSUME NEW order, NEW items, NEW n \in Nat, DOMAIN order = 1..n, NEW k \in 1..n,
         \A j \in 1..(k - 1) : order[j] # order[k]
  PROVE  EcPlace(order, items, order[k]) = EcUpTo(order, items, k)
<1>1. \A i \in 1..n : (\A j \in 1..(i - 1) : order[j] # order[k]) <=> i \in 1..k
  <2> TAKE i \in 1..n
  <2>1. CASE i \in 1..k
    BY <2>1
  <2>2. CASE i \notin 1..k
    BY <2>2
  <2> QED BY <2>1, <2>2
<1>2. 1..k \subseteq 1..n
  OBVIOUS
<1> QED BY <1>1, <1>2 DEF EcPlace, EcUpTo

(* The places, as sums of the items that are there *)
LEMMA EcFlagPlaces ==
  ASSUME NEW items, NEW l, NEW v, NEW s, NEW m, NEW b,
         l = EcThere(items, "lock"), v = EcThere(items, "version"), s = EcThere(items, "server"),
         m = EcThere(items, "mode"), b = EcThere(items, "blacklist")
  PROVE  /\ EcPlace(EcFlagOrder, items, "lock") = l
         /\ EcPlace(EcFlagOrder, items, "version") = l + v
         /\ EcPlace(EcFlagOrder, items, "server") = l + v + s
         /\ EcPlace(EcFlagOrder, items, "mode") = l + v + s + m
         /\ EcPlace(EcFlagOrder, items, "blacklist") = l + v + s + m + b
         /\ EcUpTo(EcFlagOrder, items, 5) = l + v + s + m + b
<1>1. PICK o : o = EcFlagOrder
  OBVIOUS
<1>2. /\ DOMAIN o = 1..5
      /\ o[1] = "lock" /\ o[2] = "version" /\ o[3] = "server" /\ o[4] = "mode" /\ o[5] = "blacklist"
  BY <1>1 DEF EcFlagOrder
<1>10. ASSUME NEW k \in 1..5 PROVE EcPlace(o, items, o[k]) = EcUpTo(o, items, k)
  <2>1. \A j \in 1..(k - 1) : o[j] # o[k]
    BY <1>2
  <2> QED BY <1>2, <2>1, EcPlaceIs
<1> QED BY <1>1, <1>2, <1>10, EcUpToNext DEF EcThere

LEMMA EcEnginePlaces ==
  ASSUME NEW items, NEW l, NEW v, NEW s, NEW b,
         l = EcThere(items, "lock"), v = EcThere(items, "version"), s = EcThere(items, "server"),
         b = EcThere(items, "blacklist")
  PROVE  /\ EcPlace(EcEngineOrder, items, "lock") = l
         /\ EcPlace(EcEngineOrder, items, "server") = l + s
         /\ EcPlace(EcEngineOrder, items, "version") = l + s + v
         /\ EcPlace(EcEngineOrder, items, "blacklist") = l + s + v + b
<1>1. PICK o : o = EcEngineOrder
  OBVIOUS
<1>2. /\ DOMAIN o = 1..4
      /\ o[1] = "lock" /\ o[2] = "server" /\ o[3] = "version" /\ o[4] = "blacklist"
  BY <1>1 DEF EcEngineOrder
<1>9. ASSUME NEW k \in 1..4 PROVE EcPlace(o, items, o[k]) = EcUpTo(o, items, k)
  <2>1. \A j \in 1..(k - 1) : o[j] # o[k]
    BY <1>2
  <2> QED BY <1>2, <2>1, EcPlaceIs
<1> QED BY <1>1, <1>2, <1>9, EcUpToNext DEF EcThere

LEMMA EcItemsCount ==
  ASSUME NEW items \in SUBSET EcItem
  PROVE  IsFiniteSet(items) /\ Cardinality(items) = EcUpTo(EcFlagOrder, items, 5)
<1>1. PICK o : o = EcFlagOrder
  OBVIOUS
<1>2. /\ DOMAIN o = 1..5
      /\ o[1] = "lock" /\ o[2] = "version" /\ o[3] = "server" /\ o[4] = "mode" /\ o[5] = "blacklist"
  BY <1>1 DEF EcFlagOrder
<1> DEFINE S == {i \in 1..5 : o[i] \in items}
           f == [i \in S |-> o[i]]
<1>3. IsFiniteSet(S)
  <2>1. PICK n \in Nat : n = 5
    OBVIOUS
  <2>2. IsFiniteSet(1..n)
    BY FS_Interval
  <2> QED BY <2>1, <2>2, FS_Subset
<1>4. f \in [S -> items]
  OBVIOUS
<1>6. \A t \in items : \E x \in S : f[x] = t
  <2> TAKE t \in items
  <2> QED BY <1>2 DEF EcItem
<1> HIDE DEF S, f
<1> QED BY <1>1, <1>2, <1>3, <1>4, <1>6, SameNumber DEF EcUpTo, S

(* What an answer says of the items, and of how many of them *)
EcRight(answer) ==
  /\ Cardinality({k \in DOMAIN answer.errors : answer.errors[k]}) = Cardinality(answer.refused)
  /\ ~({"version", "server"} \subseteq answer.items)
       /\ ~({"mode", "blacklist"} \subseteq answer.items)
       /\ EcPlaced(answer.items) = answer.items
     => \A item \in answer.items :
          answer.errors[EcPlace(EcFlagOrder, answer.items, item)] = (item \in answer.refused)

LEMMA EcErrorsTell ==
  ASSUME NEW items \in SUBSET EcItem, NEW refused \in SUBSET EcPlaced(items), "mode" \notin refused,
         NEW invalid, NEW w, w = [items |-> items, refused |-> refused, invalid |-> invalid,
                                  errors |-> EcErrors(items, refused)]
  PROVE  EcRight(w)
<1>1. PICK n, e : n = Cardinality(items) /\ e = EcErrors(items, refused)
  OBVIOUS
<1>2. PICK P, p : P = EcPlaced(items) /\ p = [item \in P |-> EcPlace(EcEngineOrder, P, item)]
  OBVIOUS
<1>3. e = [i \in 1..n |-> \E item \in refused : p[item] = i]
  BY <1>1, <1>2 DEF EcErrors
<1>4. PICK q : q = [item \in items |-> EcPlace(EcFlagOrder, items, item)]
  OBVIOUS
<1>5. PICK l, v, s, m, b, V, S :
        /\ l = EcThere(items, "lock") /\ V = EcThere(items, "version")
        /\ S = EcThere(items, "server") /\ m = EcThere(items, "mode")
        /\ b = EcThere(items, "blacklist")
        /\ v = EcThere(P, "version") /\ s = EcThere(P, "server")
  OBVIOUS
<1>6. /\ l \in {0, 1} /\ v \in {0, 1} /\ s \in {0, 1} /\ m \in {0, 1} /\ b \in {0, 1}
      /\ V \in {0, 1} /\ S \in {0, 1} /\ v <= V /\ s <= S
      /\ l = EcThere(P, "lock") /\ b = EcThere(P, "blacklist")
      /\ l = 1 <=> "lock" \in items
      /\ v = 1 <=> "version" \in P
      /\ s = 1 <=> "server" \in P
      /\ m = 1 <=> "mode" \in items
      /\ b = 1 <=> "blacklist" \in items
      /\ P \subseteq items /\ ("lock" \in items => "lock" \in P)
      /\ "blacklist" \in items => "blacklist" \in P
  BY <1>2, <1>5 DEF EcThere, EcPlaced
<1>7. n = l + V + S + m + b
  BY <1>1, <1>5, EcItemsCount, EcFlagPlaces
<1>8. /\ "lock" \in P => p["lock"] = l
      /\ "server" \in P => p["server"] = l + s
      /\ "version" \in P => p["version"] = l + s + v
      /\ "blacklist" \in P => p["blacklist"] = l + s + v + b
  BY <1>2, <1>5, <1>6, EcEnginePlaces
<1>9. /\ "lock" \in items => q["lock"] = l
      /\ "version" \in items => q["version"] = l + V
      /\ "server" \in items => q["server"] = l + V + S
      /\ "mode" \in items => q["mode"] = l + V + S + m
      /\ "blacklist" \in items => q["blacklist"] = l + V + S + m + b
  BY <1>4, <1>5, EcFlagPlaces
<1>10. \A x \in refused : x \in P /\ x \in items /\ x \in {"lock", "version", "server", "blacklist"}
  BY <1>2, <1>6 DEF EcItem
<1>13. Cardinality({k \in DOMAIN e : e[k]}) = Cardinality(refused)
  <2> DEFINE T == {k \in DOMAIN e : e[k]}
             f == [x \in refused |-> p[x]]
  <2>1. T = {k \in 1..n : \E item \in refused : p[item] = k}
    BY <1>3
  <2>2. f \in [refused -> T]
    <3> SUFFICES ASSUME NEW x \in refused PROVE p[x] \in 1..n
      BY <2>1
    <3>1. v \in 0..V /\ s \in 0..S /\ V \in {0, 1} /\ S \in {0, 1}
      BY <1>6
    <3>2. CASE x = "lock"
      BY <1>6, <1>7, <1>8, <1>10, <3>1, <3>2
    <3>3. CASE x = "server"
      BY <1>6, <1>7, <1>8, <1>10, <3>1, <3>3
    <3>4. CASE x = "version"
      BY <1>6, <1>7, <1>8, <1>10, <3>1, <3>4
    <3>5. CASE x = "blacklist"
      BY <1>6, <1>7, <1>8, <1>10, <3>1, <3>5
    <3> QED BY <1>10, <3>2, <3>3, <3>4, <3>5
  <2>3. \A t \in T : \E x \in refused : f[x] = t
    BY <2>1
  <2>4. \A x, y \in refused : f[x] = f[y] => x = y
    <3>1. \A x \in refused : p[x] = IF x = "lock" THEN 1 ELSE IF x = "server" THEN l + 1
                                   ELSE IF x = "version" THEN l + s + 1 ELSE l + s + v + 1
      BY <1>6, <1>8, <1>10
    <3>2. /\ "lock" \in refused => l = 1
          /\ "server" \in refused => s = 1
          /\ "version" \in refused => v = 1
      BY <1>6, <1>10
    <3>3. TAKE x, y \in refused
    <3>4. l \in {0, 1} /\ s \in {0, 1} /\ v \in {0, 1} /\ f[x] = p[x] /\ f[y] = p[y]
      BY <1>6
    <3>5. CASE x = "lock"
      BY <1>10, <3>1, <3>2, <3>4, <3>5
    <3>6. CASE x = "server"
      BY <1>10, <3>1, <3>2, <3>4, <3>6
    <3>7. CASE x = "version"
      BY <1>10, <3>1, <3>2, <3>4, <3>7
    <3>8. CASE x = "blacklist"
      BY <1>10, <3>1, <3>2, <3>4, <3>8
    <3> QED BY <1>10, <3>5, <3>6, <3>7, <3>8, Zenon
  <2>5. IsFiniteSet(refused)
    <3>1. refused \subseteq items
      BY <1>10
    <3> QED BY <3>1, EcItemsCount, FS_Subset
  <2> HIDE DEF T, f
  <2> QED BY <2>2, <2>3, <2>4, <2>5, SameNumber DEF T
<1>14. ASSUME ~({"version", "server"} \subseteq items), ~({"mode", "blacklist"} \subseteq items),
              P = items, NEW item \in items
       PROVE  e[q[item]] = (item \in refused)
  <2>1. (v = 0 \/ s = 0) /\ (m = 0 \/ b = 0) /\ v = V /\ s = S
    BY <1>5, <1>6, <1>14
  <2>2. item \in {"lock", "version", "server", "mode", "blacklist"}
    BY DEF EcItem
  <2>4. /\ l \in {0, 1} /\ v \in {0, 1} /\ s \in {0, 1} /\ m \in {0, 1} /\ b \in {0, 1}
        /\ n = l + v + s + m + b
    BY <1>6, <1>7, <2>1
  <2>5. q[item] \in 1..n /\ (item # "mode" => p[item] = q[item])
    <3>1. CASE item = "lock"
      <4>1. l = 1 /\ q[item] = l /\ p[item] = l
        BY <1>6, <1>8, <1>9, <1>14, <3>1
      <4> QED BY <2>4, <4>1
    <3>2. CASE item = "version"
      <4>1. v = 1 /\ q[item] = l + v /\ p[item] = l + s + v
        BY <1>6, <1>8, <1>9, <1>14, <2>1, <3>2
      <4> QED BY <2>1, <2>4, <4>1
    <3>3. CASE item = "server"
      <4>1. s = 1 /\ q[item] = l + v + s /\ p[item] = l + s
        BY <1>6, <1>8, <1>9, <1>14, <2>1, <3>3
      <4> QED BY <2>1, <2>4, <4>1
    <3>4. CASE item = "mode"
      <4>1. m = 1 /\ q[item] = l + v + s + m
        BY <1>6, <1>9, <1>14, <2>1, <3>4
      <4> QED BY <2>4, <3>4, <4>1
    <3>5. CASE item = "blacklist"
      <4>1. b = 1 /\ q[item] = l + v + s + m + b /\ p[item] = l + s + v + b
        BY <1>6, <1>8, <1>9, <1>14, <2>1, <3>5
      <4> QED BY <2>1, <2>4, <4>1
    <3> QED BY <2>2, <3>1, <3>2, <3>3, <3>4, <3>5
  <2>6. item = "mode" => \A x \in refused : p[x] # q[item]
    <3> SUFFICES ASSUME item = "mode", NEW x \in refused PROVE p[x] # q[item]
      OBVIOUS
    <3>1. m = 1 /\ b = 0 /\ q[item] = l + v + s + m /\ x # "blacklist"
      BY <1>6, <1>9, <1>10, <1>14, <2>1
    <3>2. p[x] = l \/ p[x] = l + s \/ p[x] = l + s + v
      BY <1>8, <1>10, <3>1
    <3> QED BY <2>4, <3>1, <3>2
  <2>7. ASSUME NEW x \in refused, p[x] = q[item], item # "mode"
        PROVE  x = item
    BY <1>6, <1>8, <1>10, <1>14, <2>2, <2>5, <2>7
  <2>8. (\E x \in refused : p[x] = q[item]) <=> item \in refused
    BY <2>5, <2>6, <2>7, Zenon
  <2>9. (\E x \in refused : p[x] = q[item]) = (item \in refused)
    <3>1. CASE item \in refused
      BY <2>8, <3>1
    <3>2. CASE item \notin refused
      <4>1. (item \in refused) = FALSE
        BY <3>2
      <4> QED BY <2>8, <3>2, <4>1
    <3> QED BY <3>1, <3>2
  <2> QED BY <1>3, <2>5, <2>9, Zenon
<1> QED BY <1>1, <1>2, <1>4, <1>13, <1>14 DEF EcRight

(* All answers are right *)
EcRightIn(q) == \A m \in ToSet(q) : m.do = "answer" => EcRight(m.answer)
EcAnswersOK ==
  /\ EcRightIn(ecQueue) /\ EcNeedsItems(ecApi)
  /\ \A m \in ToSet(ecPending) : m.do # "answer"

LEMMA EcRepliesTell ==
  ASSUME NEW x, NEW items \in SUBSET EcItem, NEW refused \in SUBSET EcPlaced(items),
         "mode" \notin refused, NEW invalid
  PROVE  EcRightIn(EcReply(x, items, refused, invalid))
<1>1. PICK w, r, N : /\ w = [items |-> items, refused |-> refused, invalid |-> invalid,
                            errors |-> EcErrors(items, refused)]
                     /\ r = [do |-> "answer", id |-> x.id, answer |-> w]
                     /\ N = <<>>
  OBVIOUS
<1> QED BY <1>1, EcErrorsTell DEF EcRightIn, EcReply, ToSet

LEMMA EcConfigureTells ==
  ASSUME EcTypeOK, EcAnswersOK, EcApiConfigure \/ EcApiCall
  PROVE  EcAnswersOK'
<1>1. PICK m : m = Head(ecApi)
  OBVIOUS
<1>2. ecApi # <<>> /\ ecApi' = Tail(ecApi) /\ UNCHANGED ecPending
  BY DEF EcApiConfigure, EcApiCall
<1>3. ecApi \in Seq(EcApiMessage) /\ ecQueue \in Seq(EcMessage)
  BY EcTypesParts
<1>4. m \in EcApiMessage /\ ToSet(ecApi) = {m} \cup ToSet(ecApi')
  BY <1>1, <1>2, <1>3, HeadAndTail
<1>6. \/ ecQueue' = ecQueue
      \/ \E items \in SUBSET EcItem, refused \in SUBSET EcItem, invalid \in SUBSET EcItem :
           /\ refused \subseteq EcPlaced(items) /\ "mode" \notin refused /\ m.id \in EcId \cup {0}
           /\ ecQueue' = ecQueue \o EcReply(m, items, refused, invalid)
  <2>1. CASE EcApiConfigure
    BY <1>1, <1>4, <2>1, EcApiMessageKinds DEF EcApiConfigure, EcAnswersOK, EcNeedsItems,
      EcRefusable
  <2>2. CASE EcApiCall /\ m.do = "blacklist"
    BY <1>1, <1>4, <2>2, EcApiMessageKinds DEF EcApiCall, EcItem, EcPlaced
  <2>3. CASE EcApiCall /\ m.do # "blacklist"
    BY <1>1, <2>3 DEF EcApiCall
  <2> QED BY <2>1, <2>2, <2>3
<1>7. EcRightIn(ecQueue')
  <2>1. CASE ecQueue' = ecQueue
    BY <2>1 DEF EcAnswersOK
  <2>2. CASE ecQueue' # ecQueue
    <3>1. PICK items \in SUBSET EcItem, refused \in SUBSET EcItem, invalid \in SUBSET EcItem :
            /\ refused \subseteq EcPlaced(items) /\ "mode" \notin refused /\ m.id \in EcId \cup {0}
            /\ ecQueue' = ecQueue \o EcReply(m, items, refused, invalid)
      BY <1>6, <2>2
    <3>2. PICK r : r = EcReply(m, items, refused, invalid)
      OBVIOUS
    <3>4. EcRightIn(r)
      BY <3>1, <3>2, EcRepliesTell
    <3> QED BY <1>3, <3>1, <3>2, <3>4, ElementsOfBoth, EcReplyIs DEF EcRightIn, EcAnswersOK
  <2> QED BY <2>1, <2>2
<1> QED BY <1>2, <1>4, <1>7 DEF EcAnswersOK, EcNeedsItems

LEMMA EcAnswersStay ==
  ASSUME EcTypeOK, EcAnswersOK, [EcNext]_ecVars
  PROVE  EcAnswersOK'
<1>1. ecApi \in Seq(EcApiMessage) /\ ecQueue \in Seq(EcMessage) /\ ecPending \in Seq(EcMessage)
  BY EcTypesParts
<1>2. ASSUME EcNeedsItems(ecApi'), UNCHANGED ecPending,
             ToSet(ecQueue') \subseteq ToSet(ecQueue)
               \cup {m \in EcMessage : m.do # "answer"}
      PROVE  EcAnswersOK'
  BY <1>2 DEF EcAnswersOK, EcRightIn
<1>3. ASSUME ecQueue # <<>>, ecQueue' = Tail(ecQueue) PROVE ToSet(ecQueue') \subseteq ToSet(ecQueue)
  BY <1>1, <1>3, HeadAndTail
<1>4. ASSUME NEW ms, EcPasses(ms) PROVE EcNeedsItems(ecApi')
  <2>1. ms \in Seq(EcApiMessage) /\ ecApi' = ecApi \o ms /\ EcNeedsItems(ms)
    BY <1>4 DEF EcPasses
  <2>2. ToSet(ecApi') = ToSet(ecApi) \cup ToSet(ms)
    BY <1>1, <2>1, ElementsOfBoth
  <2> QED BY <2>1, <2>2 DEF EcNeedsItems, EcAnswersOK
<1>5. ASSUME EcFlush, ecQueue # <<>>, EcNeedsItems(ecApi') PROVE EcAnswersOK'
  <2>1. PICK t : t = Tail(ecQueue)
    OBVIOUS
  <2>2. t \in Seq(EcMessage) /\ ToSet(t) \subseteq ToSet(ecQueue)
    BY <1>1, <1>5, <2>1, HeadAndTail
  <2>3. ecQueue' = t \o ecPending /\ ecPending' = <<>>
    BY <1>5, <2>1 DEF EcFlush
  <2>5. ToSet(ecPending') = {}
    BY <2>3 DEF ToSet
  <2> QED BY <1>1, <1>5, <2>2, <2>3, <2>5, ElementsOfBoth DEF EcAnswersOK, EcRightIn
<1>6. ASSUME EcCommands PROVE EcAnswersOK'
  <2>1. PICK m \in EcMessage : EcAsks(m)
    BY <1>6, EcCommandIs
  <2> QED BY <1>1, <1>2, <2>1, ElementsWith DEF EcAnswersOK, EcAsks, EcCall
<1>7. ASSUME NEW do, EcReceive(do), NEW ms, EcPasses(ms) PROVE EcAnswersOK'
  BY <1>2, <1>3, <1>4, <1>7 DEF EcReceive
<1>8. CASE EcHandlePending
  <2>1. PICK m : m = Head(ecQueue)
    OBVIOUS
  <2>2. ecQueue # <<>> /\ ecQueue' = Tail(ecQueue) /\ ecPending' = Append(ecPending, m)
        /\ m.do \in EcNeedsEngine /\ UNCHANGED ecApi
    BY <1>8, <2>1 DEF EcHandlePending
  <2>3. m \in EcMessage /\ ToSet(ecQueue') \subseteq ToSet(ecQueue)
    BY <1>1, <2>1, <2>2, HeadAndTail
  <2> QED BY <1>1, <2>2, <2>3, ElementsWith DEF EcAnswersOK, EcRightIn, EcNeedsEngine
<1>9. CASE EcHandleConfig
  BY <1>7, <1>9, EcConfigPasses DEF EcHandleConfig
<1>10. CASE EcHandleTypes
  BY <1>7, <1>10, EcTypesPasses DEF EcHandleTypes
<1>11. CASE EcHandleSvs
  BY <1>7, <1>11, EcSvsPasses DEF EcHandleSvs
<1>12. CASE EcHandleEnable \/ EcHandleDisable \/ EcHandleNfwControl
  BY <1>7, <1>12, EcControlPasses DEF EcHandleEnable, EcHandleDisable, EcHandleNfwControl
<1>13. CASE EcHandleEngineUp
  <2>1. PICK ms : EcPasses(ms)
    BY <1>13, EcUpPasses
  <2> QED BY <1>2, <1>3, <1>4, <1>5, <1>13, <2>1 DEF EcHandleEngineUp
<1>14. CASE EcHandleUnlock
  BY <1>5, <1>14 DEF EcHandleUnlock, EcAnswersOK
<1>15. CASE EcHandleAnswer
  BY <1>2, <1>3, <1>15 DEF EcHandleAnswer, EcAnswersOK
<1>16. CASE EcApiConfigure \/ EcApiCall
  BY <1>16, EcConfigureTells
<1>17. CASE EcApiOpen \/ EcModemDown \/ EcLockStatus
  <2>1. PICK x, y, z :
          y = [do |-> "up"] /\ z = [do |-> "unlock"] /\ x = [do |-> "open"]
    OBVIOUS
  <2>2. y \in EcMessage /\ z \in EcMessage /\ x \in EcApiMessage
        /\ y.do = "up" /\ z.do = "unlock" /\ x.do = "open"
    BY <2>1 DEF EcMessage, EcApiMessage
  <2>4. /\ ecQueue' = ecQueue \/ ecQueue' = Append(ecQueue, y) \/ ecQueue' = Append(ecQueue, z)
        /\ \/ ecApi' = ecApi
           \/ ecApi' = Append(ecApi, x)
           \/ ecApi # <<>> /\ ecApi' = Tail(ecApi)
    BY <1>17, <2>1 DEF EcApiOpen, EcModemDown, EcLockStatus, EcEvent
  <2>5. /\ ToSet(Append(ecQueue, y)) = ToSet(ecQueue) \cup {y}
        /\ ToSet(Append(ecQueue, z)) = ToSet(ecQueue) \cup {z}
        /\ ToSet(Append(ecApi, x)) = ToSet(ecApi) \cup {x}
    BY <1>1, <2>2, ElementsWith
  <2>7. EcNeedsItems(ecApi')
    BY <1>1, <2>2, <2>4, <2>5, HeadAndTail DEF EcNeedsItems, EcAnswersOK
  <2> QED BY <1>2, <1>17, <2>2, <2>4, <2>5, <2>7 DEF EcApiOpen, EcModemDown, EcLockStatus,
    EcEvent
<1>18. CASE UNCHANGED ecVars
  BY <1>18 DEF EcAnswersOK, ecVars
<1> QED BY <1>6, <1>8, <1>9, <1>10, <1>11, <1>12, <1>13, <1>14, <1>15, <1>16, <1>17, <1>18
        DEF EcNext, EcCommands

LEMMA EcAnswersBegin ==
  ASSUME EcInit
  PROVE  EcAnswersOK
<1>1. PICK x, N : x = [do |-> "open"] /\ N = <<>>
  OBVIOUS
<1> QED BY <1>1 DEF EcAnswersOK, EcRightIn, EcNeedsItems, ToSet, EcInit

LEMMA EcAnswersTold ==
  ASSUME EcTypeOK, EcAnswersOK
  PROVE  ErrorsNameTheirItem
<1>1. ecQueue \in Seq(EcMessage)
  BY EcTypesParts
<1>2. ASSUME NEW i \in DOMAIN ecQueue, ecQueue[i].do = "answer"
      PROVE  EcRight(ecQueue[i].answer)
  BY <1>2 DEF ToSet, EcAnswersOK, EcRightIn
<1> QED BY <1>2, Zenon DEF ErrorsNameTheirItem, EcRight

-----------------------------------------------------------------------------
(* A setting's command is in one place until it is told: on its way, or    *)
(* waited for by the timer, if no other pause has taken that               *)

EdOwes(id) ==
  {m \in EdMessage \cup EdApiMessage :
     m.do \in {"set", "keys", "pause", "engine", "answer", "key"} /\ m.id = id}
EdTimed(id) == (edRunning \/ edFired) /\ edTimerId = id
EdOwed(id) ==
  HowMany(edQueue, EdOwes(id)) + HowMany(edApi, EdOwes(id)) + (IF EdTimed(id) THEN 1 ELSE 0)
    + edTold[id]
EdOnceOK ==
  /\ edAsked \subseteq 1..edEvents
  /\ edRunning /\ edFired => edTimerId \in edLapped
  /\ \A id \in EdId \ edLapped : EdOwed(id) = IF id \in edAsked THEN 1 ELSE 0

LEMMA EdOwesWhich ==
  ASSUME NEW id \in EdId
  PROVE  /\ \A m \in EdMessage :
              m \in EdOwes(id) <=> m.do \notin {"up", "capabilities"} /\ m.id = id
         /\ \A m \in EdApiMessage : m \in EdOwes(id) <=> m.do \in {"set", "key"} /\ m.id = id
<1>1. ASSUME NEW m \in EdMessage
      PROVE  m \in EdOwes(id) <=> m.do \notin {"up", "capabilities"} /\ m.id = id
  BY EdMessageKinds DEF EdOwes
<1>2. ASSUME NEW m \in EdApiMessage
      PROVE  m \in EdOwes(id) <=> m.do \in {"set", "key"} /\ m.id = id
  BY EdApiMessageKinds DEF EdOwes
<1> QED BY <1>1, <1>2

LEMMA EdCounts ==
  ASSUME EdTypeOK, NEW id \in EdId
  PROVE  /\ HowMany(edQueue, EdOwes(id)) \in Nat /\ HowMany(edApi, EdOwes(id)) \in Nat
         /\ edTold[id] \in Nat
  BY EdTypesParts, CountBoth

(* What is handed over is still owed once *)
EdHandsOver(id) == EdOwed(id)' = EdOwed(id)

(* What an action does to the queue of the adapter, or of the LocApi *)
LEMMA EdTakesOne ==
  ASSUME EdTypeOK, edQueue # <<>>, edQueue' = Tail(edQueue), NEW id \in EdId,
         NEW m, m = Head(edQueue)
  PROVE  /\ HowMany(edQueue', EdOwes(id)) \in Nat
         /\ HowMany(edQueue, EdOwes(id))
              = (IF m.do \notin {"up", "capabilities"} /\ m.id = id THEN 1 ELSE 0)
                  + HowMany(edQueue', EdOwes(id))
<1>1. edQueue \in Seq(EdMessage)
  BY EdTypesParts
<1>4. PICK u : u = IF m \in EdOwes(id) THEN 1 ELSE 0
  OBVIOUS
<1>6. u = IF m.do \notin {"up", "capabilities"} /\ m.id = id THEN 1 ELSE 0
  BY <1>1, <1>4, EdOwesWhich, HeadAndTail, Zenon
<1> QED BY <1>1, <1>4, <1>6, CountTail

LEMMA EdApiTakesOne ==
  ASSUME EdTypeOK, edApi # <<>>, edApi' = Tail(edApi), NEW id \in EdId,
         NEW m, m = Head(edApi)
  PROVE  /\ HowMany(edApi', EdOwes(id)) \in Nat
         /\ HowMany(edApi, EdOwes(id))
              = (IF m.do \in {"set", "key"} /\ m.id = id THEN 1 ELSE 0)
                  + HowMany(edApi', EdOwes(id))
<1>1. edApi \in Seq(EdApiMessage)
  BY EdTypesParts
<1>4. PICK u : u = IF m \in EdOwes(id) THEN 1 ELSE 0
  OBVIOUS
<1>6. u = IF m.do \in {"set", "key"} /\ m.id = id THEN 1 ELSE 0
  BY <1>1, <1>4, EdOwesWhich, HeadAndTail, Zenon
<1> QED BY <1>1, <1>4, <1>6, CountTail

LEMMA EdPutsOne ==
  ASSUME EdTypeOK, NEW id \in EdId
  PROVE  /\ \A m \in EdMessage :
              HowMany(Append(edQueue, m), EdOwes(id)) = HowMany(edQueue, EdOwes(id))
                + (IF m.do \notin {"up", "capabilities"} /\ m.id = id THEN 1 ELSE 0)
         /\ \A m \in EdApiMessage :
              HowMany(Append(edApi, m), EdOwes(id)) = HowMany(edApi, EdOwes(id))
                + (IF m.do \in {"set", "key"} /\ m.id = id THEN 1 ELSE 0)
<1>1. edQueue \in Seq(EdMessage) /\ edApi \in Seq(EdApiMessage)
  BY EdTypesParts
<1>2. ASSUME NEW m \in EdMessage
      PROVE  HowMany(Append(edQueue, m), EdOwes(id)) = HowMany(edQueue, EdOwes(id))
               + (IF m.do \notin {"up", "capabilities"} /\ m.id = id THEN 1 ELSE 0)
  <2>2. PICK u : u = IF m \in EdOwes(id) THEN 1 ELSE 0
    OBVIOUS
  <2>4. u = IF m.do \notin {"up", "capabilities"} /\ m.id = id THEN 1 ELSE 0
    BY <2>2, EdOwesWhich, Zenon
  <2> QED BY <1>1, <2>2, <2>4, CountAppend
<1>3. ASSUME NEW m \in EdApiMessage
      PROVE  HowMany(Append(edApi, m), EdOwes(id)) = HowMany(edApi, EdOwes(id))
               + (IF m.do \in {"set", "key"} /\ m.id = id THEN 1 ELSE 0)
  <2>2. PICK u : u = IF m \in EdOwes(id) THEN 1 ELSE 0
    OBVIOUS
  <2>4. u = IF m.do \in {"set", "key"} /\ m.id = id THEN 1 ELSE 0
    BY <2>2, EdOwesWhich, Zenon
  <2> QED BY <1>1, <2>2, <2>4, CountAppend
<1> QED BY <1>2, <1>3

(* A command is new *)
LEMMA EdAsksOnce ==
  ASSUME EdTypeOK, EdOnceOK, EdCommands
  PROVE  EdOnceOK'
<1>1. PICK m \in EdMessage :
        /\ m.do \in {"set", "keys", "pause", "engine"} /\ m.id = EdNewId
        /\ EdCommand(m)
  BY EdCommandIs
<1>2. EdNewId \in EdId
  BY EdCommandIs
<1>3. /\ edQueue' = Append(edQueue, m) /\ edEvents' = edEvents + 1
      /\ edAsked' = edAsked \cup {EdNewId}
      /\ UNCHANGED <<edApi, edRunning, edFired, edTimerId, edLapped, edTold>>
  BY <1>1 DEF EdCommand, edTimer, edAnswers
<1>4. edEvents \in Nat /\ edAsked \subseteq 1..edEvents /\ EdNewId = edEvents + 1
  BY EdTypesParts DEF EdOnceOK, EdNewId
<1>5. edAsked' \subseteq 1..edEvents' /\ EdNewId \notin edAsked
  BY <1>3, <1>4
<1>6. ASSUME NEW id \in EdId \ edLapped
      PROVE  EdOwed(id)' = IF id \in edAsked' THEN 1 ELSE 0
  <2>2. PICK a, b, c, d : /\ a = HowMany(edQueue, EdOwes(id)) /\ b = HowMany(edApi, EdOwes(id))
                          /\ c = (IF EdTimed(id) THEN 1 ELSE 0) /\ d = edTold[id]
    OBVIOUS
  <2>3. a \in Nat /\ b \in Nat /\ c \in Nat /\ d \in Nat
    BY <2>2, EdCounts
  <2>4. ((a + b) + c) + d = IF id \in edAsked THEN 1 ELSE 0
    BY <2>2 DEF EdOnceOK, EdOwed
  <2>7. EdOwed(id)' = (((a + (IF EdNewId = id THEN 1 ELSE 0)) + b) + c) + d
    BY <1>1, <1>3, <2>2, EdPutsOne DEF EdOwed, EdTimed
  <2>8. CASE EdNewId = id
    BY <1>3, <1>5, <2>3, <2>4, <2>7, <2>8
  <2>9. CASE EdNewId # id
    BY <1>3, <2>3, <2>4, <2>7, <2>9
  <2> QED BY <2>8, <2>9
<1> QED BY <1>3, <1>5, <1>6 DEF EdOnceOK

LEMMA EdOnceKept ==
  ASSUME EdTypeOK, EdOnceOK, UNCHANGED edAsked, edEvents' = edEvents \/ edEvents' = edEvents + 1,
         edRunning' /\ edFired' => edTimerId' \in edLapped', edLapped \subseteq edLapped',
         \A id \in EdId \ edLapped' : EdHandsOver(id)
  PROVE  EdOnceOK'
  BY EdTypesParts DEF EdOnceOK, EdHandsOver

(* A handler that passes what it takes to the LocApi, or tells it *)
LEMMA EdPassesOver ==
  ASSUME EdTypeOK, EdHandleSet \/ EdHandleKeys \/ (EdHandleAnswer /\ Head(edQueue).left > 0),
         NEW id \in EdId
  PROVE  EdHandsOver(id)
<1>1. PICK m, y : /\ m = Head(edQueue)
                  /\ y = IF m.do = "set"
                         THEN [do |-> "set", id |-> m.id, setting |-> m.setting, value |-> m.id]
                         ELSE IF m.do = "keys"
                         THEN [do |-> "key", id |-> m.id, left |-> m.keys - 1]
                         ELSE [do |-> "key", id |-> m.id, left |-> m.left - 1]
  OBVIOUS
<1>2. /\ edQueue # <<>> /\ m.do \in {"set", "keys", "answer"} /\ edQueue' = Tail(edQueue)
      /\ m.do = "answer" => m.left > 0
      /\ edApi' = Append(edApi, y)
      /\ UNCHANGED <<edRunning, edFired, edTimerId, edTold>>
  BY <1>1 DEF EdHandleSet, EdHandleKeys, EdHandleAnswer, EdReceive, edTimer, edAnswers
<1>4. m \in EdMessage
  BY <1>1, <1>2, HeadAndTail, EdTypesParts
<1>5. y \in EdApiMessage /\ y.do \in {"set", "key"} /\ y.id = m.id
  <2>1. m.id \in EdId
    BY <1>2, <1>4, EdMessageKinds
  <2>2. CASE m.do = "set"
    BY <1>1, <1>4, <2>1, <2>2, EdMessageKinds, EdSetMade DEF EdValue
  <2>3. CASE m.do = "keys"
    <3>1. m.keys - 1 \in {0, 1}
      BY <1>4, <2>3, EdMessageKinds
    <3> QED BY <1>1, <2>1, <2>3, <3>1, EdMessageMade
  <2>4. CASE m.do = "answer"
    <3>1. m.left - 1 \in {0, 1}
      BY <1>2, <1>4, <2>4, EdMessageKinds
    <3> QED BY <1>1, <2>1, <2>4, <3>1, EdMessageMade
  <2> QED BY <1>2, <2>2, <2>3, <2>4
<1>6. PICK u : u = IF m.id = id THEN 1 ELSE 0
  OBVIOUS
<1>7. HowMany(edQueue, EdOwes(id)) = u + HowMany(edQueue', EdOwes(id))
      /\ HowMany(edQueue', EdOwes(id)) \in Nat
  BY <1>1, <1>2, <1>6, EdTakesOne
<1>8. HowMany(edApi', EdOwes(id)) = HowMany(edApi, EdOwes(id)) + u
  BY <1>2, <1>5, <1>6, EdPutsOne
<1>9. PICK a, b, c, d : /\ a = HowMany(edQueue', EdOwes(id)) /\ b = HowMany(edApi, EdOwes(id))
                        /\ c = (IF EdTimed(id) THEN 1 ELSE 0) /\ d = edTold[id]
  OBVIOUS
<1> QED BY <1>2, <1>6, <1>7, <1>8, <1>9, EdCounts DEF EdHandsOver, EdOwed, EdTimed

LEMMA EdTellsOver ==
  ASSUME EdTypeOK, EdHandleEngine \/ (EdHandleAnswer /\ ~(Head(edQueue).left > 0)),
         NEW id \in EdId
  PROVE  EdHandsOver(id)
<1>1. PICK m : m = Head(edQueue)
  OBVIOUS
<1>2. /\ edQueue # <<>> /\ m.do \in {"engine", "answer"} /\ edQueue' = Tail(edQueue)
      /\ edTold' = [edTold EXCEPT ![m.id] = @ + 1]
      /\ UNCHANGED <<edApi, edRunning, edFired, edTimerId>>
  BY <1>1 DEF EdHandleEngine, EdHandleAnswer, EdReceive, EdAnswer, edTimer
<1>4. PICK u : u = IF m.id = id THEN 1 ELSE 0
  OBVIOUS
<1>5. HowMany(edQueue, EdOwes(id)) = u + HowMany(edQueue', EdOwes(id))
      /\ HowMany(edQueue', EdOwes(id)) \in Nat
  BY <1>1, <1>2, <1>4, EdTakesOne
<1>6. PICK a, b, c, d : /\ a = HowMany(edQueue', EdOwes(id)) /\ b = HowMany(edApi, EdOwes(id))
                        /\ c = (IF EdTimed(id) THEN 1 ELSE 0) /\ d = edTold[id]
  OBVIOUS
<1>7. u \in Nat /\ a \in Nat /\ b \in Nat /\ c \in Nat /\ d \in Nat
  BY <1>4, <1>5, <1>6, EdCounts
<1>8. edTold'[id] = d + u
  BY <1>2, <1>4, <1>6, <1>7, EdTypesParts
<1>10. EdOwed(id) = (((u + a) + b) + c) + d /\ EdOwed(id)' = ((a + b) + c) + (d + u)
  BY <1>2, <1>5, <1>6, <1>8 DEF EdOwed, EdTimed
<1> QED BY <1>7, <1>10 DEF EdHandsOver

(* The timer takes a pause and tells it, unless another one comes between *)
LEMMA EdPausesOver ==
  ASSUME EdTypeOK, EdHandlePause, NEW id \in EdId \ edLapped'
  PROVE  EdHandsOver(id)
<1>1. PICK m : m = Head(edQueue)
  OBVIOUS
<1>2. /\ edQueue # <<>> /\ m.do = "pause" /\ edQueue' = Tail(edQueue)
      /\ edTimerId' = m.id /\ edRunning' = TRUE
      /\ edLapped' = (IF edRunning \/ edFired THEN edLapped \cup {edTimerId, m.id} ELSE edLapped)
      /\ UNCHANGED <<edApi, edTold>>
  BY <1>1, Zenon DEF EdHandlePause, EdReceive, EdStartTimer, edAnswers
<1>3. PICK u : u = IF m.id = id THEN 1 ELSE 0
  OBVIOUS
<1>4. HowMany(edQueue, EdOwes(id)) = u + HowMany(edQueue', EdOwes(id))
      /\ HowMany(edQueue', EdOwes(id)) \in Nat
  BY <1>1, <1>2, <1>3, EdTakesOne
<1>5. PICK a, b, d : /\ a = HowMany(edQueue', EdOwes(id)) /\ b = HowMany(edApi, EdOwes(id))
                     /\ d = edTold[id]
  OBVIOUS
<1> QED BY <1>2, <1>3, <1>4, <1>5, EdCounts DEF EdHandsOver, EdOwed, EdTimed

LEMMA EdFiresOver ==
  ASSUME EdTypeOK, EdTimerOK, EdOnceOK, EdTimeOutCallback, NEW id \in EdId \ edLapped'
  PROVE  EdHandsOver(id)
<1>1. /\ edFired /\ edFired' = FALSE /\ edTold' = [edTold EXCEPT ![edTimerId] = @ + 1]
      /\ UNCHANGED <<edQueue, edApi, edRunning, edTimerId, edLapped>>
  BY DEF EdTimeOutCallback, EdAnswer
<1>5. PICK u : u = IF EdTimed(id) THEN 1 ELSE 0
  OBVIOUS
<1>6. PICK a, b, d : /\ a = HowMany(edQueue, EdOwes(id)) /\ b = HowMany(edApi, EdOwes(id))
                     /\ d = edTold[id]
  OBVIOUS
<1>7. u \in Nat /\ a \in Nat /\ b \in Nat /\ d \in Nat
  BY <1>5, <1>6, EdCounts
<1>8. edTold'[id] = d + u
  BY <1>1, <1>5, <1>6, <1>7, EdTypesParts DEF EdTimed
<1> QED BY <1>1, <1>5, <1>6, <1>7, <1>8 DEF EdHandsOver, EdOwed, EdTimed, EdOnceOK

(* The modem answers *)
LEMMA EdAnsweredOver ==
  ASSUME EdTypeOK, NEW takes \in BOOLEAN, EdApiSet(takes) \/ EdApiKey(takes), NEW id \in EdId
  PROVE  EdHandsOver(id)
<1>1. PICK m, left : m = Head(edApi) /\ left = IF m.do = "set" THEN 0 ELSE m.left
  OBVIOUS
<1>2. /\ edApi # <<>> /\ m.do \in {"set", "key"} /\ edApi' = Tail(edApi)
      /\ EdReturn(m.id, left, takes)
      /\ UNCHANGED <<edRunning, edFired, edTimerId, edTold>>
  BY <1>1 DEF EdApiSet, EdApiKey, EdApiReceive, edTimer, edAnswers
<1>5. m.id \in EdId \cup {0} /\ left \in {0, 1}
  BY <1>1, <1>2, EdApiMessageKinds, HeadAndTail, EdTypesParts
<1>6. PICK u : u = IF m.id = id THEN 1 ELSE 0
  OBVIOUS
<1>7. HowMany(edApi, EdOwes(id)) = u + HowMany(edApi', EdOwes(id))
      /\ HowMany(edApi', EdOwes(id)) \in Nat
  BY <1>1, <1>2, <1>6, EdApiTakesOne
<1>8. PICK a, b, c, d : /\ a = HowMany(edQueue, EdOwes(id)) /\ b = HowMany(edApi', EdOwes(id))
                        /\ c = (IF EdTimed(id) THEN 1 ELSE 0) /\ d = edTold[id]
  OBVIOUS
<1>9. u \in Nat /\ a \in Nat /\ b \in Nat /\ c \in Nat /\ d \in Nat
  BY <1>6, <1>7, <1>8, EdCounts
<1>10. HowMany(edQueue', EdOwes(id)) = a + u
  <2>1. CASE m.id = 0
    BY <1>2, <1>6, <1>8, <1>9, <2>1 DEF EdReturn, EdId
  <2>2. CASE m.id # 0
    <3>1. PICK y : y = [do |-> "answer", id |-> m.id, left |-> left, took |-> takes]
      OBVIOUS
    <3>2. y \in EdMessage /\ y.do = "answer" /\ y.id = m.id
      BY <1>5, <2>2, <3>1, EdMessageMade
    <3>3. edQueue' = Append(edQueue, y)
      BY <1>2, <2>2, <3>1 DEF EdReturn
    <3> QED BY <1>6, <1>8, <3>2, <3>3, EdPutsOne
  <2> QED BY <2>1, <2>2
<1> QED BY <1>2, <1>7, <1>8, <1>9, <1>10 DEF EdHandsOver, EdOwed, EdTimed

(* What is sent again is owed to nobody *)
LEMMA EdResendOver ==
  ASSUME EdTypeOK, EdResend, NEW id \in EdId
  PROVE  HowMany(edApi', EdOwes(id)) = HowMany(edApi, EdOwes(id))
<1>1. PICK others, config, sets, again :
        /\ others = {s \in EdOther : edStored[s] # {}}
        /\ config = [do |-> "config", left |-> EdFromConf]
        /\ sets = {[do |-> "set", id |-> 0, setting |-> s,
                    value |-> CHOOSE v \in edStored[s] : TRUE] : s \in others}
        /\ again = SetToSeq(sets)
  OBVIOUS
<1>2. edApi' = Append(edApi, config) \o again
  BY <1>1 DEF EdResend
<1>3. edApi \in Seq(EdApiMessage) /\ edStored \in [EdSetting -> SUBSET EdValue]
  BY EdTypesParts
<1>5. \A x \in sets : x \in EdApiMessage /\ x.id = 0
  <2> TAKE x \in sets
  <2>1. PICK s \in others : x = [do |-> "set", id |-> 0, setting |-> s,
                                 value |-> CHOOSE v \in edStored[s] : TRUE]
    BY <1>1
  <2>2. PICK v : v = CHOOSE w \in edStored[s] : TRUE
    OBVIOUS
  <2> QED BY <1>1, <1>3, <2>1, <2>2, EdSetMade DEF EdSetting
<1>6. IsFiniteSet(sets)
  <2>2. PICK f : f = [s \in others |-> [do |-> "set", id |-> 0, setting |-> s,
                                       value |-> CHOOSE v \in edStored[s] : TRUE]]
    OBVIOUS
  <2>4. f \in Surjection(others, sets)
    BY <1>1, <2>2 DEF Surjection
  <2> QED BY <1>1, <2>4, FS_Surjection, EdAssumption, FS_Subset
<1>7. again \in Seq(sets) /\ ToSet(again) = sets
  BY <1>1, <1>6, SequenceOfSet
<1>8. again \in Seq(EdApiMessage)
  BY <1>5, <1>7
<1>10. HowMany(again, EdOwes(id)) = 0
  BY <1>5, <1>7, <1>8, CountZero, SilentElements, EdOwesWhich DEF EdId
<1>11. PICK a : a = Append(edApi, config)
  OBVIOUS
<1>12. a \in Seq(EdApiMessage) /\ HowMany(a, EdOwes(id)) = HowMany(edApi, EdOwes(id)) + 0
  BY <1>1, <1>3, <1>11, EdPutsOne, AppendProperties, EdConfigMade
<1>13. HowMany(edApi', EdOwes(id)) = HowMany(a, EdOwes(id)) + 0
  BY <1>2, <1>8, <1>10, <1>11, <1>12, CountBoth
<1> QED BY <1>12, <1>13, EdCounts

LEMMA EdConfiguredOver ==
  ASSUME EdTypeOK, edApi # <<>>, Head(edApi).do = "config", NEW s, EdConfigured(s),
         NEW id \in EdId
  PROVE  HowMany(edApi', EdOwes(id)) = HowMany(edApi, EdOwes(id))
<1>1. PICK x, h, t : /\ x = Head(edApi) /\ h = [do |-> "config", left |-> x.left \ {s}]
                     /\ t = Tail(edApi)
  OBVIOUS
<1>2. /\ x \in EdApiMessage /\ h \in EdApiMessage /\ h.do = "config" /\ x.do = "config"
      /\ edApi = <<x>> \o t /\ edApi' = <<h>> \o t
  BY <1>1, EdConfiguredIs
<1>5. t \in Seq(EdApiMessage)
  BY <1>1, HeadAndTail, EdTypesParts
<1>7. PICK a, b : a = <<x>> /\ b = <<h>>
  OBVIOUS
<1>8. a \in Seq(EdApiMessage) /\ b \in Seq(EdApiMessage)
      /\ HowMany(a, EdOwes(id)) = 0 /\ HowMany(b, EdOwes(id)) = 0
  BY <1>2, <1>7, CountOne, ElementsOfOne, EdOwesWhich
<1> QED BY <1>2, <1>5, <1>7, <1>8, CountBoth

(* What else there is moves nothing that is owed *)
EdSilent ==
  \/ EdHandleUp \/ EdHandleCapabilities \/ EdOpen \/ EdOpened \/ EdApiConfigured
  \/ EdApiOpen \/ EdModemDown
  \/ \E s \in EdFromConf, takes \in BOOLEAN : EdApiResend(s, takes)
  \/ \E s \in EdFromConf : EdApiFind(s)
  \/ \E takes \in BOOLEAN : EdApiLoad(takes)

LEMMA EdSilentTimer ==
  ASSUME EdSilent
  PROVE  UNCHANGED <<edRunning, edFired, edTimerId, edLapped, edTold, edAgreed, edDone, edAsked>>
BY DEF EdSilent, EdHandleUp, EdHandleCapabilities, EdOpen, EdOpened, EdApiConfigured, EdApiOpen,
  EdModemDown, EdApiResend, EdApiFind, EdApiLoad, edTimer, edAnswers, edEngine

LEMMA EdSilentQueue ==
  ASSUME EdTypeOK, EdSilent, NEW id \in EdId
  PROVE  HowMany(edQueue', EdOwes(id)) = HowMany(edQueue, EdOwes(id))
<1>2. PICK n : n = HowMany(edQueue, EdOwes(id))
  OBVIOUS
<1>3. PICK c, u : c = EdCapabilities /\ u = [do |-> "up"]
  OBVIOUS
<1>4. c \in EdMessage /\ c.do = "capabilities" /\ u \in EdMessage /\ u.do = "up"
  BY <1>3 DEF EdCapabilities, EdMessage
<1>5. HowMany(Append(edQueue, c), EdOwes(id)) = n /\ HowMany(Append(edQueue, u), EdOwes(id)) = n
  BY <1>2, <1>4, EdPutsOne, EdCounts
<1>6. ASSUME edQueue # <<>>, Head(edQueue).do \in {"up", "capabilities"}
      PROVE  /\ HowMany(Tail(edQueue), EdOwes(id)) = n
             /\ HowMany(Tail(edQueue) \o <<c>>, EdOwes(id)) = n
             /\ HowMany(Tail(edQueue) \o <<>>, EdOwes(id)) = n
  <2>1. PICK t, k, N : t = Tail(edQueue) /\ k = <<c>> /\ N = <<>>
    OBVIOUS
  <2>2. edQueue \in Seq(EdMessage)
    BY EdTypesParts
  <2>3. Head(edQueue) \in EdMessage /\ t \in Seq(EdMessage)
    BY <1>6, <2>1, <2>2, HeadAndTail
  <2>4. Head(edQueue) \notin EdOwes(id) /\ c \notin EdOwes(id)
    BY <1>4, <1>6, <2>3, EdOwesWhich
  <2>5. n = 0 + HowMany(t, EdOwes(id)) /\ HowMany(t, EdOwes(id)) \in Nat
    BY <1>2, <1>6, <2>1, <2>2, <2>4, CountTail
  <2>6. k \in Seq(EdMessage) /\ HowMany(k, EdOwes(id)) = 0
    BY <1>4, <2>1, <2>4, CountOne, ElementsOfOne
  <2>8. HowMany(t \o k, EdOwes(id)) = HowMany(t, EdOwes(id)) + 0
    BY <2>3, <2>6, CountBoth
  <2> QED BY <2>1, <2>3, <2>5, <2>8, CountBoth, CountOne
<1>7. CASE EdHandleUp
  BY <1>2, <1>3, <1>6, <1>7, Zenon DEF EdHandleUp
<1>8. CASE EdHandleCapabilities
  BY <1>2, <1>6, <1>8 DEF EdHandleCapabilities, EdReceive
<1>9. CASE EdOpened
  BY <1>2, <1>3, <1>5, <1>9 DEF EdOpened
<1>10. CASE EdApiOpen
  BY <1>2, <1>3, <1>5, <1>10 DEF EdApiOpen
<1>11. ASSUME ~(EdHandleUp \/ EdHandleCapabilities \/ EdOpened \/ EdApiOpen)
       PROVE  edQueue' = edQueue
  BY <1>11 DEF EdSilent, EdOpen, EdApiConfigured, EdModemDown, EdApiResend, EdApiFind, EdApiLoad
<1> QED BY <1>7, <1>8, <1>9, <1>10, <1>11

LEMMA EdSilentApi ==
  ASSUME EdTypeOK, EdFoundOK, EdSilent, NEW id \in EdId
  PROVE  HowMany(edApi', EdOwes(id)) = HowMany(edApi, EdOwes(id))
<1>2. CASE EdHandleUp
  BY <1>2, EdResendOver DEF EdHandleUp
<1>3. CASE EdHandleCapabilities \/ EdOpen \/ EdOpened
  BY <1>3 DEF EdHandleCapabilities, EdOpen, EdOpened
<1>4. CASE EdApiConfigured \/ EdApiOpen
  <2>1. PICK m : m = Head(edApi)
    OBVIOUS
  <2> QED BY <1>4, <2>1, EdApiTakesOne DEF EdApiConfigured, EdApiOpen, EdApiReceive
<1>5. CASE EdModemDown
  <2>1. PICK m : m = [do |-> "open"]
    OBVIOUS
  <2> QED BY <1>5, <2>1, EdPutsOne, EdCounts DEF EdApiMessage, EdModemDown
<1>6. CASE \E s \in EdFromConf, takes \in BOOLEAN : EdApiResend(s, takes)
  <2>1. PICK s \in EdFromConf : EdApiReceive("config") /\ EdConfigured(s)
    BY <1>6 DEF EdApiResend
  <2> QED BY <2>1, EdConfiguredOver DEF EdApiReceive
<1>7. CASE \E s \in EdFromConf : EdApiFind(s)
  BY <1>7 DEF EdApiFind
<1>8. CASE \E takes \in BOOLEAN : EdApiLoad(takes)
  <2>1. PICK s \in edFound : EdConfigured(s)
    BY <1>8 DEF EdApiLoad
  <2> QED BY <2>1, EdConfiguredOver DEF EdFoundOK
<1> QED BY <1>2, <1>3, <1>4, <1>5, <1>6, <1>7, <1>8 DEF EdSilent

LEMMA EdOnceStays ==
  ASSUME EdInv, EdOnceOK, [EdNext]_edVars
  PROVE  EdOnceOK'
<1>1. EdTypeOK /\ EdTimerOK /\ EdFoundOK
  BY DEF EdInv, EdTypeInv, EdKeptInv
<1>2. CASE EdCommands
  BY <1>1, <1>2, EdAsksOnce
<1>3. ASSUME ~EdCommands PROVE UNCHANGED edAsked
  BY <1>3 DEF EdNext, EdCommands, edVars, EdHandleSet, EdHandleKeys, EdHandleEngine, EdHandlePause,
     EdHandleAnswer, EdHandleUp, EdHandleCapabilities, EdTimeout, EdTimeOutCallback, EdOpen, EdOpened,
     EdApiSet, EdApiKey, EdApiResend, EdApiFind, EdApiLoad, EdApiConfigured, EdApiOpen, EdModemDown
<1>4. ASSUME ~EdCommands PROVE edEvents' = edEvents \/ edEvents' = edEvents + 1
  BY <1>4 DEF EdNext, EdCommands, edVars, EdHandleSet, EdHandleKeys, EdHandleEngine, EdHandlePause,
     EdHandleAnswer, EdHandleUp, EdHandleCapabilities, EdTimeout, EdTimeOutCallback, EdOpen, EdOpened,
     EdApiSet, EdApiKey, EdApiResend, EdApiFind, EdApiLoad, EdApiConfigured, EdApiOpen, EdModemDown
<1>5. CASE EdSilent
  <2>1. UNCHANGED <<edRunning, edFired, edTimerId, edLapped, edTold>>
    BY <1>5, EdSilentTimer
  <2>2. ASSUME NEW id \in EdId PROVE EdHandsOver(id)
    BY <1>1, <1>5, <2>1, EdSilentQueue, EdSilentApi DEF EdHandsOver, EdOwed, EdTimed
  <2>3. ~EdCommands \/ EdCommands
    OBVIOUS
  <2>4. edRunning' /\ edFired' => edTimerId' \in edLapped'
    BY <2>1 DEF EdOnceOK
  <2> QED BY <1>1, <1>2, <1>3, <1>4, <2>1, <2>2, <2>4, EdOnceKept
<1>6. CASE EdHandleSet \/ EdHandleKeys \/ EdHandleAnswer \/ EdHandleEngine
  <2>1. UNCHANGED <<edRunning, edFired, edTimerId, edLapped>>
    BY <1>6 DEF EdHandleSet, EdHandleKeys, EdHandleAnswer, EdHandleEngine, edTimer
  <2>2. ASSUME NEW id \in EdId PROVE EdHandsOver(id)
    BY <1>1, <1>6, EdPassesOver, EdTellsOver
  <2>3. edRunning' /\ edFired' => edTimerId' \in edLapped'
    BY <2>1 DEF EdOnceOK
  <2> QED BY <1>1, <1>2, <1>3, <1>4, <2>1, <2>2, <2>3, EdOnceKept
<1>7. CASE EdHandlePause
  <2>1. /\ edTimerId' = Head(edQueue).id /\ edFired' = edFired
        /\ edLapped' = IF edRunning \/ edFired THEN edLapped \cup {edTimerId, Head(edQueue).id}
                       ELSE edLapped
    BY <1>7, Zenon DEF EdHandlePause, EdStartTimer
  <2>2. edFired' => edTimerId' \in edLapped'
    BY <2>1
  <2> QED BY <1>1, <1>2, <1>3, <1>4, <1>7, <2>1, <2>2, EdPausesOver, EdOnceKept
<1>8. CASE EdTimeout
  <2>1. /\ edRunning /\ edRunning' = FALSE /\ edFired' = TRUE
        /\ UNCHANGED <<edQueue, edApi, edTimerId, edLapped, edTold>>
    BY <1>8 DEF EdTimeout, edAnswers
  <2>2. ASSUME NEW id \in EdId PROVE EdHandsOver(id)
    BY <2>1 DEF EdTimed, EdHandsOver, EdOwed
  <2> QED BY <1>1, <1>2, <1>3, <1>4, <2>1, <2>2, EdOnceKept
<1>9. CASE EdTimeOutCallback
  <2>1. edFired' = FALSE /\ edLapped' = edLapped
    BY <1>9 DEF EdTimeOutCallback
  <2> QED BY <1>1, <1>2, <1>3, <1>4, <1>9, <2>1, EdFiresOver, EdOnceKept
<1>10. CASE \E takes \in BOOLEAN : EdApiSet(takes) \/ EdApiKey(takes)
  <2>1. UNCHANGED <<edRunning, edFired, edTimerId, edLapped>>
    BY <1>10 DEF EdApiSet, EdApiKey, edTimer
  <2>2. ASSUME NEW id \in EdId PROVE EdHandsOver(id)
    BY <1>1, <1>10, EdAnsweredOver
  <2>3. edRunning' /\ edFired' => edTimerId' \in edLapped'
    BY <2>1 DEF EdOnceOK
  <2> QED BY <1>1, <1>2, <1>3, <1>4, <2>1, <2>2, <2>3, EdOnceKept
<1>11. CASE UNCHANGED edVars
  <2>1. UNCHANGED <<edQueue, edApi, edRunning, edFired, edTimerId, edLapped, edTold, edAsked, edEvents>>
    BY <1>11 DEF edVars, edTimer, edAnswers
  <2> QED BY <2>1 DEF EdOnceOK, EdOwed, EdTimed
<1> QED BY <1>2, <1>5, <1>6, <1>7, <1>8, <1>9, <1>10, <1>11 DEF EdNext, EdCommands, EdSilent

LEMMA EdOnceBegins ==
  ASSUME EdInit
  PROVE  EdOnceOK
<1>1. /\ edAsked = {} /\ edLapped = {} /\ \A id \in EdId : edTold[id] = 0
      /\ edRunning = FALSE /\ edFired = FALSE
  BY DEF EdInit
<1>2. ASSUME NEW id \in EdId PROVE EdOwed(id) = 0
  <2>1. PICK x, N : x = [do |-> "open"] /\ N = <<>>
    OBVIOUS
  <2> QED BY <1>1, <2>1, CountOne, EdOwesWhich DEF EdOwed, EdTimed, EdInit, EdApiMessage
<1> QED BY <1>1, <1>2 DEF EdOnceOK

(* What a command is told is what became of it: SUCCESS is on its way, or  *)
(* to be told by the timer, for what was done and for nothing else         *)

EdYes(m) == m.do = "answer" /\ m.left = 0 /\ m.took
EdComing(id) == (\E m \in ToSet(edQueue) : EdYes(m) /\ m.id = id) \/ EdTimed(id)
EdTruthOK ==
  /\ edAgreed \subseteq edDone
  /\ \A m \in ToSet(edQueue) : EdYes(m) => m.id \in edDone
  /\ \A id \in edDone \ edLapped : id \in edAgreed \/ EdComing(id)

(* A step that tells no more than what was done, and loses no answer *)
EdGoesOn ==
  /\ edDone \subseteq edDone' /\ edLapped \subseteq edLapped'
  /\ edAgreed \subseteq edAgreed' /\ edAgreed' \subseteq edAgreed \cup edDone'
  /\ \A m \in ToSet(edQueue') : EdYes(m) => m \in ToSet(edQueue) \/ m.id \in edDone'
  /\ \A m \in ToSet(edQueue) : EdYes(m) => m \in ToSet(edQueue') \/ m.id \in edAgreed'
  /\ \A id \in edDone' \ edLapped' :
       \/ id \in edDone /\ (EdTimed(id) => EdTimed(id)' \/ id \in edAgreed')
       \/ id \in edAgreed' \/ EdComing(id)'

LEMMA EdTruthKept ==
  ASSUME EdTruthOK, EdGoesOn
  PROVE  EdTruthOK'
<1>3. ASSUME NEW id \in edDone' \ edLapped' PROVE id \in edAgreed' \/ EdComing(id)'
  <2>1. CASE id \in edDone /\ (EdTimed(id) => EdTimed(id)' \/ id \in edAgreed')
    BY <1>3, <2>1 DEF EdTruthOK, EdGoesOn, EdComing
  <2>2. CASE id \in edAgreed' \/ EdComing(id)'
    BY <2>2
  <2> QED BY <1>3, <2>1, <2>2 DEF EdGoesOn
<1> QED BY <1>3 DEF EdTruthOK, EdGoesOn

(* Most actions neither do nor tell anything, and move no answer *)
EdSameAnswers ==
  /\ UNCHANGED <<edDone, edAgreed, edLapped>>
  /\ \A id \in EdId : EdTimed(id)' <=> EdTimed(id)
  /\ \A m \in ToSet(edQueue') : EdYes(m) => m \in ToSet(edQueue)
  /\ \A m \in ToSet(edQueue) : EdYes(m) => m \in ToSet(edQueue')

LEMMA EdSameGoesOn ==
  ASSUME EdTypeOK, EdSameAnswers
  PROVE  EdGoesOn
  BY EdTypesParts DEF EdSameAnswers, EdGoesOn

LEMMA EdQueueAnswers ==
  ASSUME EdTypeOK
  PROVE  /\ \A m \in EdMessage : ~EdYes(m) /\ edQueue' = Append(edQueue, m) =>
              /\ \A x \in ToSet(edQueue') : EdYes(x) => x \in ToSet(edQueue)
              /\ ToSet(edQueue) \subseteq ToSet(edQueue')
         /\ edQueue # <<>> /\ edQueue' = Tail(edQueue) =>
              /\ ToSet(edQueue') \subseteq ToSet(edQueue)
              /\ \A x \in ToSet(edQueue) : x = Head(edQueue) \/ x \in ToSet(edQueue')
<1>1. ASSUME NEW m \in EdMessage, ~EdYes(m), edQueue' = Append(edQueue, m)
      PROVE  /\ \A x \in ToSet(edQueue') : EdYes(x) => x \in ToSet(edQueue)
             /\ ToSet(edQueue) \subseteq ToSet(edQueue')
  BY <1>1, EdPuts
<1>2. ASSUME edQueue # <<>>, edQueue' = Tail(edQueue)
      PROVE  /\ ToSet(edQueue') \subseteq ToSet(edQueue)
             /\ \A x \in ToSet(edQueue) : x = Head(edQueue) \/ x \in ToSet(edQueue')
  BY <1>2, EdTakes
<1> QED BY <1>1, <1>2

LEMMA EdCommandSame ==
  ASSUME EdTypeOK, EdCommands
  PROVE  EdSameAnswers
<1>1. PICK m \in EdMessage :
        /\ m.do \in {"set", "keys", "pause", "engine"} /\ m.id = EdNewId
        /\ EdCommand(m)
  BY EdCommandIs
<1>2. /\ edQueue' = Append(edQueue, m) /\ ~EdYes(m)
      /\ UNCHANGED <<edDone, edAgreed, edLapped, edRunning, edFired, edTimerId>>
  BY <1>1 DEF EdCommand, EdYes, edTimer, edAnswers, edEngine
<1> QED BY <1>2, EdQueueAnswers DEF EdSameAnswers, EdTimed

LEMMA EdSilentSame ==
  ASSUME EdTypeOK, EdSilent
  PROVE  EdSameAnswers
<1>2. PICK c, u : c = EdCapabilities /\ u = [do |-> "up"]
  OBVIOUS
<1>3. c \in EdMessage /\ u \in EdMessage /\ ~EdYes(c) /\ ~EdYes(u)
  BY <1>2 DEF EdCapabilities, EdMessage, EdYes
<1>4. ASSUME \A x \in ToSet(edQueue') : EdYes(x) => x \in ToSet(edQueue),
             \A x \in ToSet(edQueue) : EdYes(x) => x \in ToSet(edQueue')
      PROVE  EdSameAnswers
  BY <1>4, EdSilentTimer DEF EdSameAnswers, EdTimed
<1>5. CASE EdHandleUp
  <2>1. PICK t, k : t = Tail(edQueue) /\ k = IF edIsOpen THEN <<c>> ELSE <<>>
    OBVIOUS
  <2>2. edQueue # <<>> /\ Head(edQueue).do = "up" /\ edQueue' = t \o k
    BY <1>2, <1>5, <2>1, Zenon DEF EdHandleUp
  <2>3. t \in Seq(EdMessage) /\ ToSet(edQueue) = {Head(edQueue)} \cup ToSet(t)
    BY <2>1, <2>2, EdTakes
  <2>4. k \in Seq(EdMessage) /\ ToSet(k) \subseteq {c}
    <3>2. <<>> \in Seq(EdMessage) /\ ToSet(<<>>) = {}
      BY DEF ToSet
    <3> QED BY <1>3, <2>1, <3>2, ElementsOfOne, Zenon
  <2> QED BY <1>3, <1>4, <2>2, <2>3, <2>4, ElementsOfBoth DEF EdYes
<1>6. CASE EdHandleCapabilities
  BY <1>4, <1>6, EdQueueAnswers DEF EdHandleCapabilities, EdReceive, EdYes
<1>7. CASE EdOpened
  BY <1>2, <1>3, <1>4, <1>7, EdQueueAnswers DEF EdOpened
<1>8. CASE EdApiOpen
  BY <1>2, <1>3, <1>4, <1>8, EdQueueAnswers DEF EdApiOpen
<1>9. CASE ~(EdHandleUp \/ EdHandleCapabilities \/ EdOpened \/ EdApiOpen)
  <2>1. edQueue' = edQueue
    BY <1>9 DEF EdSilent, EdOpen, EdApiConfigured, EdModemDown, EdApiResend, EdApiFind, EdApiLoad
  <2> QED BY <1>4, <2>1
<1> QED BY <1>5, <1>6, <1>7, <1>8, <1>9

LEMMA EdTruthStays ==
  ASSUME EdInv, EdOnceOK, EdTruthOK, [EdNext]_edVars
  PROVE  EdTruthOK'
<1>1. EdTypeOK /\ EdTimerOK
  BY DEF EdInv, EdTypeInv
<1> SUFFICES EdGoesOn
  BY EdTruthKept
<1>3. CASE EdCommands
  BY <1>1, <1>3, EdCommandSame, EdSameGoesOn
<1>4. CASE EdSilent
  BY <1>1, <1>4, EdSilentSame, EdSameGoesOn
<1>5. CASE EdHandleSet \/ EdHandleKeys
  <2>1. /\ edQueue # <<>> /\ edQueue' = Tail(edQueue) /\ ~EdYes(Head(edQueue))
        /\ UNCHANGED <<edDone, edAgreed, edLapped, edRunning, edFired, edTimerId>>
    BY <1>5 DEF EdHandleSet, EdHandleKeys, EdReceive, EdYes, edTimer, edEngine, edAnswers
  <2> QED BY <1>1, <2>1, EdSameGoesOn, EdQueueAnswers DEF EdSameAnswers, EdTimed
<1>6. CASE EdHandleAnswer
  <2>1. PICK m : m = Head(edQueue)
    OBVIOUS
  <2>2. /\ edQueue # <<>> /\ m.do = "answer" /\ edQueue' = Tail(edQueue)
        /\ edAgreed' = IF m.left > 0 THEN edAgreed ELSE IF m.took THEN edAgreed \cup {m.id} ELSE edAgreed
        /\ UNCHANGED <<edDone, edLapped, edRunning, edFired, edTimerId>>
    BY <1>6, <2>1 DEF EdHandleAnswer, EdReceive, EdAnswer, edTimer, edEngine, edAnswers
  <2> QED BY <1>1, <2>1, <2>2, EdMessageKinds, EdTakes DEF EdGoesOn, EdTruthOK, EdYes, EdTimed
<1>7. CASE EdHandleEngine
  <2>1. PICK m : m = Head(edQueue)
    OBVIOUS
  <2>2. /\ edQueue # <<>> /\ m.do = "engine" /\ edQueue' = Tail(edQueue)
        /\ edAgreed' = (IF m.agrees THEN edAgreed \cup {m.id} ELSE edAgreed)
        /\ edDone' = (IF m.agrees THEN edDone \cup {m.id} ELSE edDone)
        /\ UNCHANGED <<edLapped, edRunning, edFired, edTimerId>>
    BY <1>7, <2>1, Zenon DEF EdHandleEngine, EdReceive, EdAnswer, EdDoes, edTimer
  <2>3. /\ ToSet(edQueue') \subseteq ToSet(edQueue) /\ ~EdYes(m)
        /\ \A x \in ToSet(edQueue) : x = m \/ x \in ToSet(edQueue')
    BY <1>1, <2>1, <2>2, EdTakes DEF EdYes
  <2>4. \A id : EdTimed(id)' <=> EdTimed(id)
    BY <2>2 DEF EdTimed
  <2>5. CASE m.agrees
    BY <2>2, <2>3, <2>4, <2>5 DEF EdGoesOn
  <2>6. CASE ~m.agrees
    BY <2>2, <2>3, <2>4, <2>6 DEF EdGoesOn
  <2> QED BY <2>5, <2>6
<1>8. CASE EdHandlePause
  <2>1. PICK m : m = Head(edQueue)
    OBVIOUS
  <2>2. /\ edQueue # <<>> /\ m.do = "pause" /\ edQueue' = Tail(edQueue)
        /\ edDone' = (IF m.agrees THEN edDone \cup {m.id} ELSE edDone)
        /\ edTimerId' = m.id /\ edRunning' = TRUE
        /\ edLapped' = (IF edRunning \/ edFired THEN edLapped \cup {edTimerId, m.id} ELSE edLapped)
        /\ UNCHANGED edAgreed
    BY <1>8, <2>1, Zenon DEF EdHandlePause, EdReceive, EdDoes, EdStartTimer, edAnswers
  <2> QED BY <1>1, <2>1, <2>2, EdTakes DEF EdGoesOn, EdYes, EdTimed, EdComing
<1>9. CASE EdTimeout
  BY <1>1, <1>9, EdSameGoesOn DEF EdTimeout, edAnswers, edEngine, EdSameAnswers, EdTimed
<1>10. CASE EdTimeOutCallback
  BY <1>10, Zenon DEF EdTimeOutCallback, EdAnswer, edEngine, EdTimed, EdGoesOn
<1>11. CASE \E takes \in BOOLEAN : EdApiSet(takes) \/ EdApiKey(takes)
  <2>1. PICK takes \in BOOLEAN : EdApiSet(takes) \/ EdApiKey(takes)
    BY <1>11
  <2>2. PICK m, left : m = Head(edApi) /\ left = IF m.do = "set" THEN 0 ELSE m.left
    OBVIOUS
  <2>3. /\ edApi # <<>> /\ m.do \in {"set", "key"} /\ EdReturn(m.id, left, takes)
        /\ edDone' = IF takes /\ left = 0 THEN edDone \cup ({m.id} \ {0}) ELSE edDone
        /\ UNCHANGED <<edRunning, edFired, edTimerId, edLapped, edAgreed>>
    <3>1. m \in EdApiMessage
      BY <1>1, <2>1, <2>2, EdTakes, EdTypesParts DEF EdApiSet, EdApiKey, EdApiReceive
    <3>2. CASE EdApiSet(takes)
      BY <2>2, <3>2 DEF EdApiSet, EdApiReceive, edTimer, edAnswers
    <3>3. CASE EdApiKey(takes)
      <4>1. m.do = "key"
        BY <2>2, <3>3 DEF EdApiKey, EdApiReceive
      <4>2. m.id # 0
        BY <3>1, <4>1, EdApiMessageKinds DEF EdId
      <4> QED BY <2>2, <3>3, <4>1, <4>2 DEF EdApiKey, EdApiReceive, edTimer, edAnswers
    <3> QED BY <2>1, <3>2, <3>3
  <2>4. m.id \in EdId \cup {0} /\ left \in {0, 1}
    BY <1>1, <2>2, <2>3, EdTakes, EdApiMessageKinds
  <2>5. \A id : EdTimed(id)' <=> EdTimed(id)
    BY <2>3 DEF EdTimed
  <2>6. CASE m.id = 0
    BY <2>3, <2>5, <2>6 DEF EdReturn, EdGoesOn
  <2>7. CASE m.id # 0
    <3>1. PICK y : y = [do |-> "answer", id |-> m.id, left |-> left, took |-> takes]
      OBVIOUS
    <3>2. y \in EdMessage
      BY <2>4, <2>7, <3>1, EdMessageMade
    <3>4. ToSet(edQueue') = ToSet(edQueue) \cup {y}
      BY <1>1, <2>3, <2>7, <3>1, <3>2, EdPuts DEF EdReturn
    <3> QED BY <2>3, <2>5, <2>7, <3>1, <3>4 DEF EdGoesOn, EdComing, EdYes
  <2> QED BY <2>6, <2>7
<1>12. CASE UNCHANGED edVars
  <2>1. UNCHANGED <<edQueue, edRunning, edFired, edTimerId, edLapped, edAgreed, edDone>>
    BY <1>12 DEF edVars, edTimer, edAnswers, edEngine
  <2> QED BY <1>1, <2>1, EdSameGoesOn DEF EdSameAnswers, EdTimed
<1> QED BY <1>3, <1>4, <1>5, <1>6, <1>7, <1>8, <1>9, <1>10, <1>11, <1>12
        DEF EdNext, EdCommands, EdSilent

LEMMA EdTruthBegins ==
  ASSUME EdInit
  PROVE  EdTruthOK
<1>1. PICK N : N = <<>>
  OBVIOUS
<1> QED BY <1>1 DEF EdTruthOK, EdInit, ToSet

LEMMA EdOnceTold ==
  ASSUME EdTypeOK, EdOnceOK, EdTruthOK
  PROVE  SettingsAreAnswered
<1>1. ASSUME NEW id \in EdId \ edLapped
      PROVE  edTold[id] <= IF id \in edAsked THEN 1 ELSE 0
  <2>1. PICK a, b, c, d : /\ a = HowMany(edQueue, EdOwes(id)) /\ b = HowMany(edApi, EdOwes(id))
                          /\ c = (IF EdTimed(id) THEN 1 ELSE 0) /\ d = edTold[id]
    OBVIOUS
  <2> QED BY <2>1, EdCounts DEF EdOnceOK, EdOwed
<1>2. ASSUME EdQuiet, ~edRunning, ~edFired, NEW id \in edAsked \ edLapped
      PROVE  edTold[id] = 1 /\ (id \in edAgreed <=> id \in edDone)
  <2>1. id \in EdId /\ edTold[id] \in Nat
    BY EdTypesParts, EdCounts
  <2>2. PICK N : N = <<>>
    OBVIOUS
  <2>4. HowMany(N, EdOwes(id)) = 0
    BY <2>2, CountOne
  <2>5. ~EdTimed(id)
    BY <1>2 DEF EdTimed
  <2>7. EdOwed(id) = 1
    BY <1>2, <2>1 DEF EdOnceOK
  <2> QED BY <1>2, <2>1, <2>2, <2>4, <2>5, <2>7 DEF EdOwed, EdTruthOK, EdComing, EdQuiet, ToSet
<1> QED BY <1>1, <1>2 DEF SettingsAreAnswered, EdTruthOK

(* Whoever opened measurement corrections is told, or is to be told *)
EdCorrOK ==
  /\ edIsOpen <=> edCaller # "away"
  /\ edKnown /\ edCaller = "done" =>
       edCorr \/ \E m \in ToSet(edQueue) : m.do = "capabilities"

LEMMA EdCorrStays ==
  ASSUME EdTypeOK, EdCorrOK, [EdNext]_edVars
  PROVE  EdCorrOK'
<1>1. PICK c : c = EdCapabilities
  OBVIOUS
<1>2. c \in EdMessage /\ c.do = "capabilities"
  BY <1>1 DEF EdCapabilities, EdMessage
<1>3. ASSUME UNCHANGED <<edCaller, edIsOpen, edKnown, edCorr>>,
             \A m \in ToSet(edQueue) : m.do = "capabilities" => m \in ToSet(edQueue')
      PROVE  EdCorrOK'
  BY <1>3 DEF EdCorrOK
<1>4. ASSUME edQueue # <<>>, Head(edQueue).do # "capabilities", edQueue' = Tail(edQueue),
             UNCHANGED edCorrections
      PROVE  EdCorrOK'
  BY <1>3, <1>4, EdQueueAnswers DEF edCorrections
<1>5. ASSUME NEW m \in EdMessage, edQueue' = Append(edQueue, m), UNCHANGED edCorrections
      PROVE  EdCorrOK'
  BY <1>3, <1>5, EdPuts DEF edCorrections
<1>6. ASSUME UNCHANGED <<edQueue, edCorrections>> PROVE EdCorrOK'
  BY <1>3, <1>6 DEF edCorrections
<1>7. CASE EdCommands
  <2>1. PICK m \in EdMessage : EdCommand(m)
    BY <1>7, EdCommandIs
  <2> QED BY <1>5, <2>1 DEF EdCommand
<1>8. CASE EdHandleSet \/ EdHandleKeys \/ EdHandleAnswer \/ EdHandleEngine \/ EdHandlePause
  BY <1>4, <1>8 DEF EdHandleSet, EdHandleKeys, EdHandleAnswer, EdHandleEngine, EdHandlePause,
     EdReceive
<1>9. CASE EdHandleUp
  <2>1. PICK t, k : t = Tail(edQueue) /\ k = IF edIsOpen THEN <<c>> ELSE <<>>
    OBVIOUS
  <2>2. /\ edQueue # <<>> /\ edQueue' = t \o k
        /\ UNCHANGED <<edCaller, edIsOpen, edCorr>>
    BY <1>1, <1>9, <2>1, Zenon DEF EdHandleUp
  <2>3. ASSUME edIsOpen PROVE c \in ToSet(edQueue')
    <3>1. PICK o : o = <<c>>
      OBVIOUS
    <3>2. t \in Seq(EdMessage) /\ o \in Seq(EdMessage) /\ ToSet(o) = {c}
      BY <1>2, <2>1, <2>2, <3>1, EdTakes, ElementsOfOne
    <3>3. edQueue' = t \o o
      BY <2>1, <2>2, <2>3, <3>1
    <3> QED BY <3>2, <3>3, ElementsOfBoth
  <2> QED BY <1>2, <2>2, <2>3 DEF EdCorrOK
<1>10. CASE EdHandleCapabilities
  BY <1>10 DEF EdHandleCapabilities, EdCorrOK
<1>11. CASE EdTimeout \/ EdTimeOutCallback
  BY <1>6, <1>11 DEF EdTimeout, EdTimeOutCallback
<1>12. CASE EdOpen
  BY <1>12 DEF EdOpen, EdCorrOK
<1>13. CASE EdOpened
  BY <1>1, <1>2, <1>13, EdPuts DEF EdOpened, EdCorrOK
<1>14. CASE \E takes \in BOOLEAN : EdApiSet(takes) \/ EdApiKey(takes)
  <2>1. PICK takes \in BOOLEAN : EdApiSet(takes) \/ EdApiKey(takes)
    BY <1>14
  <2>2. PICK m, left : m = Head(edApi) /\ left = IF m.do = "set" THEN 0 ELSE m.left
    OBVIOUS
  <2>3. /\ edApi # <<>> /\ m.do \in {"set", "key"} /\ EdReturn(m.id, left, takes)
        /\ UNCHANGED edCorrections
    BY <2>1, <2>2 DEF EdApiSet, EdApiKey, EdApiReceive
  <2>4. m.id \in EdId \cup {0} /\ left \in {0, 1}
    BY <2>2, <2>3, EdTakes, EdApiMessageKinds
  <2>5. CASE m.id = 0
    BY <1>6, <2>3, <2>5 DEF EdReturn
  <2>6. CASE m.id # 0
    BY <1>5, <2>3, <2>4, <2>6, EdMessageMade DEF EdReturn
  <2> QED BY <2>5, <2>6
<1>15. CASE \/ \E s \in EdFromConf, takes \in BOOLEAN : EdApiResend(s, takes)
            \/ \E s \in EdFromConf : EdApiFind(s)
            \/ \E takes \in BOOLEAN : EdApiLoad(takes)
  BY <1>6, <1>15 DEF EdApiResend, EdApiFind, EdApiLoad
<1>16. CASE EdApiConfigured \/ EdModemDown
  BY <1>6, <1>16 DEF EdApiConfigured, EdModemDown
<1>17. CASE EdApiOpen
  <2>1. PICK u : u = [do |-> "up"]
    OBVIOUS
  <2> QED BY <1>5, <1>17, <2>1 DEF EdApiOpen, EdMessage
<1>18. CASE UNCHANGED edVars
  BY <1>6, <1>18 DEF edVars
<1> QED BY <1>7, <1>8, <1>9, <1>10, <1>11, <1>12, <1>13, <1>14, <1>15, <1>16, <1>17, <1>18
        DEF EdNext, EdCommands

LEMMA EdCorrTold ==
  ASSUME EdCorrOK
  PROVE  CorrectionsAreTold
<1> SUFFICES ASSUME edQueue = <<>>, edKnown, edCaller = "done"
             PROVE  edCorr
  BY DEF CorrectionsAreTold, EdQuiet
<1>1. PICK N : N = <<>>
  OBVIOUS
<1> QED BY <1>1 DEF EdCorrOK, ToSet
-----------------------------------------------------------------------------
(* All parts together                                                      *)

TrackInv == EcInv /\ EdInv /\ RqInv

LEMMA TrackStays ==
  ASSUME TrackInv, [TrackNext]_<<part, vars, ecVars, edVars>>
  PROVE  TrackInv'
  BY EcStays, EdStays, RequestsStay DEF TrackNext, SessionStep, ConfigStep, SettingStep,
    TrackInv

LEMMA TrackAlways == TrackSpec => []TrackInv
<1>1. TrackInit => TrackInv
  BY EcInits, EdInits, RequestsBegin DEF TrackInit, TrackInv
<1> QED BY <1>1, TrackStays, PTL DEF TrackSpec

(* Sessions, configuration and settings keep their types in every state,   *)
(* whatever sessions, satellites, settings and numbers of events there are *)
(* (the maps and queues of GnssAdapter.h:150-290)                          *)
THEOREM TrackTypesCorrect == TrackSpec => []TrackTypesOK
<1>1. TrackInv => TrackTypesOK
  BY RequestsSettle DEF TrackInv, EcInv, EdInv, EdTypeInv, TrackTypesOK
<1> QED BY <1>1, TrackAlways, PTL

(* When nothing is under way any more, the modem goes by everything that   *)
(* commands and answers left configured, whatever restarted in between and *)
(* whichever of the commands were refused, for any satellites, settings    *)
(* and numbers of events (GnssAdapter.cpp:1187-1384, 1640-1870, 2355-2600, *)
(* 3225-3290, 7290-7500)                                                   *)
THEOREM ConfigurationOutlivesRestarts == TrackSpec => []ModemIsConfigured
<1>1. TrackInv => ModemIsConfigured
  BY EcSettles, EdSettles DEF TrackInv, ModemIsConfigured
<1> QED BY <1>1, TrackAlways, PTL

(* A client that is there is answered each request for a session at most   *)
(* once, and exactly once when nothing is under way, the modem refused     *)
(* nothing and did not restart: for any clients, sessions and options, and *)
(* whether the engine was locked, the system suspended or the modem not    *)
(* yet there (reportResponse and the callers of it, GnssAdapter.cpp:       *)
(* 3487-3500, 3510-4100)                                                   *)
THEOREM RequestsAlwaysAnswered == TrackSpec => []RequestsAreAnswered
<1>1. TrackInv => RequestsAreAnswered
  BY RequestsSettle DEF TrackInv
<1> QED BY <1>1, TrackAlways, PTL

(* What is owed, beside the parts of TrackInv *)
AnswerInv == EcOnceOK /\ EcAnswersOK /\ EdOnceOK /\ EdTruthOK /\ EdCorrOK

LEMMA AnswersStay ==
  ASSUME TrackInv, AnswerInv, [TrackNext]_<<part, vars, ecVars, edVars>>
  PROVE  AnswerInv'
<1>2. EcTypeOK /\ EdInv /\ EdTypeOK
  BY DEF TrackInv, EcInv, EdInv, EdTypeInv
<1> QED BY <1>2, EcOnceStays, EcAnswersStay, EdOnceStays, EdTruthStays, EdCorrStays
  DEF AnswerInv, TrackNext, SessionStep, ConfigStep, SettingStep

LEMMA AnswersAlways == TrackSpec => []AnswerInv
<1>1. TrackInit => AnswerInv
  BY EcOnceBegins, EcAnswersBegin, EdOnceBegins, EdTruthBegins DEF EdInit, EdCorrOK, TrackInit,
    AnswerInv
<1>2. TrackInv /\ AnswerInv /\ [TrackNext]_<<part, vars, ecVars, edVars>> => AnswerInv'
  BY AnswersStay
<1> QED BY <1>1, <1>2, TrackAlways, PTL DEF TrackSpec

(* Each command that configures the modem or sets something in it is       *)
(* answered once, with what became of it: the errors are those of the items*)
(* that the modem refused, success is told of what was done and of nothing *)
(* else, and who opens measurement corrections is told the capabilities.   *)
(* For any satellites, settings and numbers of events, through commands    *)
(* that wait for the engine, restarts and refusals (GnssAdapter.cpp:1519-  *)
(* 1870, 3500-3540, 7290-8365)                                             *)
THEOREM ConfigurationAlwaysAnswered == TrackSpec => []ConfigurationIsAnswered
<1>1. TrackInv /\ AnswerInv => ConfigurationIsAnswered
  BY EcOnceTold, EcAnswersTold, EdOnceTold, EdCorrTold
     DEF TrackInv, AnswerInv, EcInv, EdInv, EdTypeInv, ConfigurationIsAnswered, ConfigsAreAnswered
<1> QED BY <1>1, TrackAlways, AnswersAlways, PTL
=============================================================================
