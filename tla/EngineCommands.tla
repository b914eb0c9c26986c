--------------------------- MODULE EngineCommands ---------------------------
(***************************************************************************)
(* What the integration API sets in the modem and in the position engines  *)
(* (gnss/GnssAdapter.cpp:7290-8395), and how it is answered.  Each command *)
(* has an id, is handled on the message thread and is answered there when  *)
(* the modem has answered; a pause of an engine is answered by a timer.    *)
(*                                                                         *)
(* What is set is kept, and given to the modem again when it comes up.     *)
(* Most settings are read from gps.conf if there is none kept by then: the *)
(* thread of LocApiBase does that (GnssAdapter.cpp:1306-1348), while the   *)
(* message thread keeps what commands set.                                 *)
(*                                                                         *)
(* A setting is a whole configuration: which values it has does not        *)
(* matter, but whose they are.  Sessions that are suspended for a command  *)
(* are those of Tracking.                                                  *)
(***************************************************************************)
EXTENDS Naturals, SequencesExt

CONSTANTS
  EdFromConf,   \* settings gps.conf has a value for: TUNC, PACE, robust location
  EdOther,      \* settings it has none for: the secondary bands
  MaxEdEvents,  \* bound: commands and restarts of the modem
  MaxEdQueue    \* bound: commands wait while there are more messages

EdSetting == EdFromConf \cup EdOther

(* The value of gps.conf, and those of commands, by their id *)
EdConf == 0
EdId == 1..MaxEdEvents
EdValue == {EdConf} \cup EdId

ASSUME EdAssumption ==
  /\ EdFromConf \cap EdOther = {} /\ IsFiniteSet(EdOther)
  /\ {MaxEdEvents, MaxEdQueue} \subseteq Nat

VARIABLES
  edQueue,    \* messages of the adapter's thread, oldest first
  edApi,      \* messages of LocApiMsgTask, oldest first
  edStored,   \* mLocConfigInfo, mGnssSeconaryBandConfig: {} if not isValid
  edFound,    \* the setting that the thread of LocApiBase found not valid, in a set
  edUp,       \* the modem is up
  edModem,    \* what the modem goes by, {} for what it was not told
  edRunning,  \* mResponseTimer runs
  edFired,    \* it has expired, and its callback is to be called
  edTimerId,  \* mResponseTimer.mSessionID
  edCaller,   \* who opens measurement corrections: "away", "opening", "done"
  edIsOpen,   \* mIsMeasCorrInterfaceOpen
  edKnown,    \* mIsEngineCapabilitiesKnown
  edCorr,     \* measCorrSetCapabilitiesCb was called
  edEvents,   \* commands and restarts so far
  edWanted,   \* the value of the command for each setting handled last, or EdConf
  edRaced,    \* settings whose command the thread of LocApiBase overwrote
  edRefused,  \* <<setting, value>> the modem refused when it was given last
  edAsked,    \* the commands that are owed an answer
  edTold,     \* how often each command was answered
  edAgreed,   \* the commands that were told SUCCESS
  edDone,     \* the commands the modem or an engine did
  edLapped    \* pauses while another one waited for the timer, and that one

edAnswers == <<edTold, edAgreed>>
edCorrections == <<edCaller, edIsOpen, edKnown, edCorr>>
edTimer == <<edRunning, edFired, edTimerId, edLapped>>
edKept == <<edStored, edWanted, edRaced>>
edEngine == <<edUp, edModem, edRefused, edDone>>
edVars == <<edQueue, edApi, edKept, edFound, edEngine, edTimer, edCorrections, edEvents,
            edAsked, edAnswers>>

-----------------------------------------------------------------------------
(* Types *)

EdMessage ==
  [do: {"set"}, id: EdId, setting: EdSetting]
    \cup [do: {"keys"}, id: EdId, keys: {1, 2}]
    \cup [do: {"pause", "engine"}, id: EdId, agrees: BOOLEAN]
    \cup [do: {"answer"}, id: EdId, left: {0, 1}, took: BOOLEAN]
    \cup [do: {"up", "capabilities"}]

EdApiMessage ==
  [do: {"set"}, id: EdId \cup {0}, setting: EdSetting, value: EdValue]
    \cup [do: {"key"}, id: EdId, left: {0, 1}]
    \cup [do: {"config"}, left: SUBSET EdFromConf]
    \cup [do: {"open"}]

EdTypeOK ==
  /\ edQueue \in Seq(EdMessage) /\ edApi \in Seq(EdApiMessage)
  /\ edStored \in [EdSetting -> SUBSET EdValue] /\ edModem \in [EdSetting -> SUBSET EdValue]
  /\ edFound \subseteq EdFromConf
  /\ edTimerId \in EdId \cup {0}
  /\ edCaller \in {"away", "opening", "done"}
  /\ {edUp, edRunning, edFired, edIsOpen, edKnown, edCorr} \subseteq BOOLEAN
  /\ edEvents \in 0..MaxEdEvents
  /\ edWanted \in [EdSetting -> EdValue] /\ edRaced \subseteq EdSetting
  /\ edRefused \subseteq EdSetting \X EdValue
  /\ edTold \in [EdId -> Nat]
  /\ edAsked \cup edAgreed \cup edDone \cup edLapped \subseteq EdId

-----------------------------------------------------------------------------
(* Answers *)

(* reportResponse *)
EdAnswer(id, agrees) ==
  /\ edTold' = [edTold EXCEPT ![id] = @ + 1]
  /\ edAgreed' = IF agrees THEN edAgreed \cup {id} ELSE edAgreed

EdReceive(do) == edQueue # <<>> /\ Head(edQueue).do = do /\ edQueue' = Tail(edQueue)

EdApiReceive(do) == edApi # <<>> /\ Head(edApi).do = do

-----------------------------------------------------------------------------
(* Commands *)

EdCommand(m) ==
  /\ edEvents < MaxEdEvents /\ Len(edQueue) < MaxEdQueue
  /\ edEvents' = edEvents + 1
  /\ edQueue' = Append(edQueue, m)
  /\ edAsked' = edAsked \cup {m.id}
  /\ UNCHANGED <<edApi, edKept, edFound, edEngine, edTimer, edCorrections, edAnswers>>

(* setConstrainedTuncCommand, setPositionAssistedClockEstimatorCommand,    *)
(* configRobustLocationCommand, gnssUpdateSecondaryBandConfigCommand       *)
EdSetCommand(s) == EdCommand([do |-> "set", id |-> edEvents + 1, setting |-> s])

(* configMerkleTreeCommand, whose file has one key or two; with one also   *)
(* configMinGpsWeekCommand and configOsnmaEnablementCommand, of which      *)
(* nothing is kept                                                         *)
EdKeysCommand(keys) == EdCommand([do |-> "keys", id |-> edEvents + 1, keys |-> keys])

(* configEngineRunStateCommand, with a state that pauses the engine *)
EdPauseCommand(agrees) ==
  EdCommand([do |-> "pause", id |-> edEvents + 1, agrees |-> agrees])

(* configEngineRunStateCommand to resume, configLeverArmCommand,           *)
(* configDeadReckoningEngineParamsCommand, configXtraParamsCommand,        *)
(* configEngineIntegrityRiskCommand, configOutputNmeaTypesCommand,         *)
(* gnssInjectMmfDataCommand, or a Merkle tree that cannot be parsed        *)
EdEngineCommand(agrees) ==
  EdCommand([do |-> "engine", id |-> edEvents + 1, agrees |-> agrees])

-----------------------------------------------------------------------------
(* The message thread *)

(* Mutant: what is set is not kept *)
MutantEdKeep(s, value) == UNCHANGED edStored

EdKeep(s, value) == edStored' = [edStored EXCEPT ![s] = {value}]

(* setConstrainedTunc and its like: it is kept, before the modem answers;  *)
(* what the thread of LocApiBase has found not valid it will overwrite     *)
EdHandleSet ==
  LET m == Head(edQueue) IN
  /\ EdReceive("set")
  /\ EdKeep(m.setting, m.id)
  /\ edWanted' = [edWanted EXCEPT ![m.setting] = m.id]
  /\ edRaced' = IF m.setting \in edFound THEN edRaced \cup {m.setting}
                ELSE edRaced \ {m.setting}
  /\ edApi' = Append(edApi, [do |-> "set", id |-> m.id, setting |-> m.setting, value |-> m.id])
  /\ UNCHANGED <<edFound, edEngine, edTimer, edCorrections, edEvents, edAsked, edAnswers>>

(* MsgConfigMerkleTreeParams *)
EdHandleKeys ==
  LET m == Head(edQueue) IN
  /\ EdReceive("keys")
  /\ edApi' = Append(edApi, [do |-> "key", id |-> m.id, left |-> m.keys - 1])
  /\ UNCHANGED <<edKept, edFound, edEngine, edTimer, edCorrections, edEvents, edAsked,
                 edAnswers>>

EdDoes(m) == edDone' = IF m.agrees THEN edDone \cup {m.id} ELSE edDone

EdHandleEngine ==
  LET m == Head(edQueue) IN
  /\ EdReceive("engine")
  /\ EdDoes(m)
  /\ EdAnswer(m.id, m.agrees)
  /\ UNCHANGED <<edApi, edKept, edFound, edUp, edModem, edRefused, edTimer, edCorrections,
                 edEvents, edAsked>>

(* halResponseTimerStart: the timer has its new answer whether or not it   *)
(* starts, and it does not start while it runs                             *)
EdStartTimer(id) ==
  /\ edTimerId' = id /\ edRunning' = TRUE
  /\ edLapped' = IF edRunning \/ edFired THEN edLapped \cup {edTimerId, id} ELSE edLapped
  /\ UNCHANGED edFired

(* Mutant: an engine that does not pause is not waited for, but the timer  *)
(* starts all the same                                                     *)
MutantEdHandlePause ==
  LET m == Head(edQueue) IN
  /\ EdReceive("pause")
  /\ EdDoes(m)
  /\ EdStartTimer(m.id)
  /\ IF m.agrees THEN UNCHANGED edAnswers ELSE EdAnswer(m.id, FALSE)
  /\ UNCHANGED <<edApi, edKept, edFound, edUp, edModem, edRefused, edCorrections, edEvents,
                 edAsked>>

(* MsgConfigEngineRunState, to pause: answered by the timer *)
EdHandlePause ==
  LET m == Head(edQueue) IN
  /\ EdReceive("pause")
  /\ EdDoes(m)
  /\ EdStartTimer(m.id)
  /\ UNCHANGED <<edApi, edKept, edFound, edUp, edModem, edRefused, edCorrections, edEvents,
                 edAsked, edAnswers>>

(* The lambda of a LocApiResponse; with a second key left it gives that to *)
(* the modem, whatever became of the first                                 *)
EdHandleAnswer ==
  LET m == Head(edQueue) IN
  /\ EdReceive("answer")
  /\ IF m.left > 0
     THEN /\ edApi' = Append(edApi, [do |-> "key", id |-> m.id, left |-> m.left - 1])
          /\ UNCHANGED edAnswers
     ELSE EdAnswer(m.id, m.took) /\ UNCHANGED edApi
  /\ UNCHANGED <<edKept, edFound, edEngine, edTimer, edCorrections, edEvents, edAsked>>

EdCapabilities == [do |-> "capabilities"]

(* Mutant: only what gps.conf has a value for is given to the modem again *)
MutantEdResend == edApi' = Append(edApi, [do |-> "config", left |-> EdFromConf])

(* setConfig, and gnssSecondaryBandConfigUpdate *)
EdResend ==
  LET others == {s \in EdOther : edStored[s] # {}}
  IN edApi' = Append(edApi, [do |-> "config", left |-> EdFromConf])
                \o SetToSeq({[do |-> "set", id |-> 0, setting |-> s,
                              value |-> CHOOSE v \in edStored[s] : TRUE] : s \in others})

(* MsgHandleEngineUpEvent *)
EdHandleUp ==
  /\ edQueue # <<>> /\ Head(edQueue).do = "up"
  /\ edKnown' = TRUE
  /\ EdResend
  /\ edQueue' = Tail(edQueue) \o IF edIsOpen THEN <<EdCapabilities>> ELSE <<>>
  /\ UNCHANGED <<edKept, edFound, edEngine, edTimer, edCaller, edIsOpen, edCorr, edEvents,
                 edAsked, edAnswers>>

(* MsgInitMeasCorr *)
EdHandleCapabilities ==
  /\ EdReceive("capabilities")
  /\ edCorr' = TRUE
  /\ UNCHANGED <<edApi, edKept, edFound, edEngine, edTimer, edCaller, edIsOpen, edKnown,
                 edEvents, edAsked, edAnswers>>

-----------------------------------------------------------------------------
(* The thread of LocTimer *)

EdTimeout ==
  /\ edRunning /\ ~edFired
  /\ edRunning' = FALSE /\ edFired' = TRUE
  /\ UNCHANGED <<edQueue, edApi, edKept, edFound, edEngine, edTimerId, edLapped,
                 edCorrections, edEvents, edAsked, edAnswers>>

(* halResponseTimer::timeOutCallback *)
EdTimeOutCallback ==
  /\ edFired /\ edFired' = FALSE
  /\ EdAnswer(edTimerId, edTimerId \in edDone)
  /\ UNCHANGED <<edQueue, edApi, edKept, edFound, edEngine, edRunning, edTimerId, edLapped,
                 edCorrections, edEvents, edAsked>>

-----------------------------------------------------------------------------
(* The threads of clients *)

(* Mutant: the capabilities are looked at first *)
MutantEdOpen ==
  /\ edCaller = "away"
  /\ edCaller' = IF edKnown THEN "opening" ELSE "done"
  /\ edIsOpen' = edKnown
  /\ UNCHANGED <<edQueue, edApi, edKept, edFound, edEngine, edTimer, edKnown, edCorr, edEvents,
                 edAsked, edAnswers>>

(* openMeasCorrCommand, whose callback and flag are set by the caller *)
EdOpen ==
  /\ edCaller = "away" /\ edCaller' = "opening"
  /\ edIsOpen' = TRUE
  /\ UNCHANGED <<edQueue, edApi, edKept, edFound, edEngine, edTimer, edKnown, edCorr, edEvents,
                 edAsked, edAnswers>>

(* which looks then at the capabilities *)
EdOpened ==
  /\ edCaller = "opening" /\ edCaller' = "done"
  /\ edQueue' = IF edKnown THEN Append(edQueue, EdCapabilities) ELSE edQueue
  /\ UNCHANGED <<edApi, edKept, edFound, edEngine, edTimer, edIsOpen, edKnown, edCorr, edEvents,
                 edAsked, edAnswers>>

-----------------------------------------------------------------------------
(* The thread of LocApiBase, and the modem *)

(* The modem takes a setting or refuses it; while it is down it refuses *)
EdGive(s, value, takes) ==
  /\ takes => edUp
  /\ edModem' = IF takes THEN [edModem EXCEPT ![s] = {value}] ELSE edModem
  /\ edRefused' = IF takes THEN edRefused \ ({s} \X EdValue)
                  ELSE edRefused \cup {<<s, value>>}

EdReturn(id, left, takes) ==
  IF id = 0 THEN UNCHANGED edQueue
  ELSE edQueue' = Append(edQueue, [do |-> "answer", id |-> id, left |-> left, took |-> takes])

(* A command's setting, or one that is given again *)
EdApiSet(takes) ==
  LET m == Head(edApi) IN
  /\ EdApiReceive("set") /\ edApi' = Tail(edApi)
  /\ EdGive(m.setting, m.value, takes)
  /\ EdReturn(m.id, 0, takes)
  /\ edDone' = IF takes THEN edDone \cup ({m.id} \ {0}) ELSE edDone
  /\ UNCHANGED <<edKept, edFound, edUp, edTimer, edCorrections, edEvents, edAsked, edAnswers>>

(* A key of a Merkle tree: the last one is what is answered *)
EdApiKey(takes) ==
  LET m == Head(edApi) IN
  /\ EdApiReceive("key") /\ edApi' = Tail(edApi)
  /\ takes => edUp
  /\ EdReturn(m.id, m.left, takes)
  /\ edDone' = IF takes /\ m.left = 0 THEN edDone \cup {m.id} ELSE edDone
  /\ UNCHANGED <<edKept, edFound, edUp, edModem, edRefused, edTimer, edCorrections, edEvents,
                 edAsked, edAnswers>>

EdConfigured(s) == edApi' = [edApi EXCEPT ![1].left = @ \ {s}]

(* setConfig's message: a setting that is valid is given to the modem *)
EdApiResend(s, takes) ==
  /\ EdApiReceive("config") /\ s \in Head(edApi).left
  /\ edFound = {} /\ edStored[s] # {}
  /\ EdGive(s, CHOOSE v \in edStored[s] : TRUE, takes)
  /\ EdConfigured(s)
  /\ UNCHANGED <<edQueue, edKept, edFound, edUp, edDone, edTimer, edCorrections, edEvents,
                 edAsked, edAnswers>>

(* one that is not is found so *)
EdApiFind(s) ==
  /\ EdApiReceive("config") /\ s \in Head(edApi).left
  /\ edFound = {} /\ edStored[s] = {}
  /\ edFound' = {s}
  /\ UNCHANGED <<edQueue, edApi, edKept, edEngine, edTimer, edCorrections, edEvents, edAsked,
                 edAnswers>>

(* and gets the value of gps.conf, whatever was set since it was found *)
EdApiLoad(takes) ==
  \E s \in edFound :
    /\ edStored' = [edStored EXCEPT ![s] = {EdConf}]
    /\ EdGive(s, EdConf, takes)
    /\ EdConfigured(s)
    /\ edFound' = {}
    /\ UNCHANGED <<edQueue, edWanted, edRaced, edUp, edDone, edTimer, edCorrections, edEvents,
                   edAsked, edAnswers>>

EdApiConfigured ==
  /\ EdApiReceive("config") /\ Head(edApi).left = {}
  /\ edApi' = Tail(edApi)
  /\ UNCHANGED <<edQueue, edKept, edFound, edEngine, edTimer, edCorrections, edEvents, edAsked,
                 edAnswers>>

EdApiOpen ==
  /\ EdApiReceive("open")
  /\ edApi' = Tail(edApi)
  /\ edUp' = TRUE
  /\ edQueue' = Append(edQueue, [do |-> "up"])
  /\ UNCHANGED <<edKept, edFound, edModem, edRefused, edDone, edTimer, edCorrections, edEvents,
                 edAsked, edAnswers>>

(* The modem ends, with all it was told, and starts *)
EdModemDown ==
  /\ edUp /\ edUp' = FALSE
  /\ edEvents < MaxEdEvents /\ edEvents' = edEvents + 1
  /\ edModem' = [s \in EdSetting |-> {}]
  /\ edApi' = Append(edApi, [do |-> "open"])
  /\ UNCHANGED <<edQueue, edKept, edFound, edRefused, edDone, edTimer, edCorrections, edAsked,
                 edAnswers>>

-----------------------------------------------------------------------------
(* The adapter has been made, and the LocApi is to be opened *)
EdInit ==
  /\ edQueue = <<>> /\ edApi = <<[do |-> "open"]>>
  /\ edStored = [s \in EdSetting |-> {}] /\ edModem = [s \in EdSetting |-> {}]
  /\ edWanted = [s \in EdSetting |-> EdConf] /\ edRaced = {} /\ edRefused = {}
  /\ edFound = {} /\ edUp = FALSE
  /\ edRunning = FALSE /\ edFired = FALSE /\ edTimerId = 0 /\ edLapped = {}
  /\ edCaller = "away" /\ edIsOpen = FALSE /\ edKnown = FALSE /\ edCorr = FALSE
  /\ edEvents = 0
  /\ edAsked = {} /\ edTold = [id \in EdId |-> 0] /\ edAgreed = {} /\ edDone = {}

EdNext ==
  \/ \E s \in EdSetting : EdSetCommand(s)
  \/ \E keys \in {1, 2} : EdKeysCommand(keys)
  \/ \E agrees \in BOOLEAN : EdPauseCommand(agrees)
  \/ \E agrees \in BOOLEAN : EdEngineCommand(agrees)
  \/ EdHandleSet
  \/ EdHandleKeys
  \/ EdHandleEngine
  \/ EdHandlePause
  \/ EdHandleAnswer
  \/ EdHandleUp
  \/ EdHandleCapabilities
  \/ EdTimeout
  \/ EdTimeOutCallback
  \/ EdOpen
  \/ EdOpened
  \/ \E takes \in BOOLEAN : EdApiSet(takes)
  \/ \E takes \in BOOLEAN : EdApiKey(takes)
  \/ \E s \in EdFromConf, takes \in BOOLEAN : EdApiResend(s, takes)
  \/ \E s \in EdFromConf : EdApiFind(s)
  \/ \E takes \in BOOLEAN : EdApiLoad(takes)
  \/ EdApiConfigured
  \/ EdApiOpen
  \/ EdModemDown

EdSpec == EdInit /\ [][EdNext]_edVars

-----------------------------------------------------------------------------
(* Properties *)

EdQuiet == edQueue = <<>> /\ edApi = <<>>

(* When nothing is under way, what is kept of a setting is what its        *)
(* command handled last asked for, or the value of gps.conf if there was   *)
(* none, and the modem goes by it, over any restart: unless the modem      *)
(* refused it, or the thread of LocApiBase overwrote it with gps.conf      *)
(* (GnssAdapter.cpp:1306-1348, 7296-7316, 7495).                           *)
SettingsArePassedOn ==
  EdQuiet => \A s \in EdSetting \ edRaced :
    /\ edStored[s] = IF s \in EdOther /\ edWanted[s] = EdConf THEN {} ELSE {edWanted[s]}
    /\ edModem[s] = edStored[s] \/ <<s, edWanted[s]>> \in edRefused

(* Each command is answered once, with what became of it: but for pauses   *)
(* that overlap, which share one timer (GnssAdapter.cpp:7898-7942, 8266).  *)
SettingsAreAnswered ==
  /\ \A id \in EdId \ edLapped : edTold[id] <= IF id \in edAsked THEN 1 ELSE 0
  /\ edAgreed \subseteq edDone
  /\ EdQuiet /\ ~edRunning /\ ~edFired =>
       \A id \in edAsked \ edLapped : edTold[id] = 1 /\ (id \in edAgreed <=> id \in edDone)

(* Who opens measurement corrections is told the capabilities, however     *)
(* that meets the modem's coming up (GnssAdapter.cpp:1380, 7661-7669).     *)
CorrectionsAreTold ==
  EdQuiet /\ edKnown /\ edCaller = "done" => edCorr

=============================================================================
