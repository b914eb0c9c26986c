------------------------ MODULE SystemStatusReports ------------------------
(***************************************************************************)
(* The cache of SystemStatus (core/SystemStatus.cpp, .h): what the modem   *)
(* says of its state, in debug sentences, in one report of all of it or    *)
(* with its positions, and what readers make of it: the debug report of    *)
(* the framework and the gain control of measurements (GnssAdapter.cpp).   *)
(* Of each item the last maxItem reports are kept; one that is equal to    *)
(* the last only renews its time.  Deleting all aiding data puts a default *)
(* behind whatever was said.                                               *)
(*                                                                         *)
(* Everything happens with mMutexSystemStatus held, so each call is one    *)
(* step.  An item is a function from its fields to 0, where members that   *)
(* hold nothing are, or 1.  Members that the code leaves uninitialized     *)
(* hold either.                                                            *)
(***************************************************************************)
EXTENDS Naturals, Sequences, SequencesExt, TLC

CONSTANTS
  SsPlain,     \* data items that replace one another
  SsNews,      \* what the modem may say: sets of the fields that are 1
  SsMaxItem,   \* maxItem, the reports that are kept
  MaxSsEvents  \* bound: reports and deletions in all

ASSUME SsAssumption == SsMaxItem \in Nat \ {0} /\ MaxSsEvents \in Nat

VARIABLES
  ssCache,  \* mCache: the reports of each item, the latest last
  ssNow,    \* events so far, the clock of mUtcTime and mUtcReported
  ssTold,   \* what was said of each item last, and when
  ssReset   \* when the last default was put in place

ssVars == <<ssCache, ssNow, ssTold, ssReset>>

-----------------------------------------------------------------------------
(* Items: the fields that equals compares and those it does not *)

SsConstellation == {"gps", "glo", "bds", "gal", "qzss", "navic"}

SsSeen(fields) == [compared |-> fields, overlooked |-> {}]

SsLocation == [compared |-> {"place"}, overlooked |-> {"motion", "known"}]
SsTimeAndClock == SsSeen({"tow", "valid", "leap", "uncertainty"})
SsXoState == SsSeen({"xo"})
SsRfAndParams ==
  [compared |-> {"gain", "amplitudes", "jammers", "jammed"}, overlooked |-> {"indicators"}]
SsErrRecovery == SsSeen({"errors"})
SsInjectedPosition == SsSeen({"injected"})
SsBestPosition == [compared |-> {"best"}, overlooked |-> {"known"}]
SsXtra == SsSeen(SsConstellation)
SsEphemeris == SsSeen(SsConstellation \ {"navic"})
SsSvHealth == [compared |-> SsConstellation \ {"navic"}, overlooked |-> {"navic"}]
SsPdr == SsSeen({"fix"})
SsNavData == SsSeen(SsConstellation)
SsPositionFailure == SsSeen({"failure"})
SsENH == SsSeen({"consent", "region"})

(* A data item of one value, whatever it consists of *)
SsPlainItem == SsSeen({"value"})

(* SystemStatusReports *)
SsKind ==
  [location |-> SsLocation, clock |-> SsTimeAndClock, xo |-> SsXoState,
   rf |-> SsRfAndParams, errors |-> SsErrRecovery, injected |-> SsInjectedPosition,
   best |-> SsBestPosition, xtra |-> SsXtra, ephemeris |-> SsEphemeris,
   health |-> SsSvHealth, pdr |-> SsPdr, nav |-> SsNavData,
   failure |-> SsPositionFailure, enh |-> SsENH] @@ [item \in SsPlain |-> SsPlainItem]

SsItem == DOMAIN SsKind
SsFields(item) == SsKind[item].compared \union SsKind[item].overlooked

SsAny == 2  \* of what was said: nothing, or what is known to be kept wrong

SsReport(item, values) ==
  [says: [SsFields(item) -> values], first: 0..MaxSsEvents, last: 0..MaxSsEvents]

SsTypeOK ==
  /\ ssNow \in 0..MaxSsEvents /\ ssReset \in 0..ssNow
  /\ DOMAIN ssCache = SsItem /\ DOMAIN ssTold = SsItem
  /\ \A item \in SsItem :
       /\ \A i \in DOMAIN ssCache[item] : ssCache[item][i] \in SsReport(item, {0, 1})
       /\ ssTold[item].at \in 0..ssNow
       /\ ssTold[item].says \in [SsFields(item) -> {0, 1, SsAny}]

-----------------------------------------------------------------------------
(* What becomes of a sentence.  Each parser gives the reports it makes; a  *)
(* sentence with too few fields leaves v where nothing is written.         *)

SsBit(holds) == IF holds THEN 1 ELSE 0

(* An item as the modem means it *)
SsMeant(item, news) == [f \in SsFields(item) |-> SsBit(f = "known" \/ f \in news)]

SsAll(item, v) == [f \in SsFields(item) |-> IF f = "known" THEN 1 ELSE v]

SsExact(item, news, whole, v) ==
  IF whole THEN SsMeant(item, news) ELSE SsAll(item, v)

(* How many fields $PQWM1 has: too few, or up to the one it is named for *)
SsM1Length == {"none", "agc", "leap", "amplitudes", "all"}

(* $PQWM1: the members are zero before anything is read *)
SsM1(item, news, length) ==
  [f \in SsFields(item) |->
     SsBit(/\ f \in news
           /\ length # "none"
           /\ f = "leap" => length # "agc"
           /\ f = "amplitudes" => length \in {"amplitudes", "all"}
           /\ f = "uncertainty" => length = "all"
           /\ f \notin {"jammed", "indicators"})]

SsP1(news, whole, v) == SsExact("injected", news, whole, v)
SsP2(news, whole, v) == SsExact("best", news, whole, v)

(* todo: update for navic once available *)
SsP3(news, whole, v) == SsExact("xtra", news \ {"navic"}, whole, v)
SsP4(news, whole, v) == SsExact("ephemeris", news, whole, v)
SsP5(news, whole, v) == SsExact("health", news \ {"navic"}, whole, v)
SsP6(news, whole, v) == SsExact("pdr", news, whole, v)

(* Without NAVIC the list is shorter and good as well *)
SsP7(news, whole, v) == SsExact("nav", news, whole, v)
SsS1(news, whole, v) == SsExact("failure", news, whole, v)

(* The report of everything: the gain and the amplitudes are not in it,    *)
(* the jammers only with the indicators; BeiDou's predictions are those of *)
(* GLONASS; of the ephemerides a satellite nobody knows is taken for the   *)
(* first of GPS, and those of NAVIC are not cleared.                       *)
SsEngineSays(item, news, v) ==
  [f \in SsFields(item) |->
     CASE f \in {"gain", "amplitudes"} -> v
       [] f = "jammers" /\ "indicators" \notin news -> v
       [] item = "xtra" /\ f = "bds" -> SsBit("glo" \in news)
       [] item = "nav" /\ f = "gps" -> SsBit(news \intersect {"gps", "unknown"} # {})
       [] item = "nav" /\ f = "navic" /\ "navic" \notin news -> v
       [] OTHER -> SsMeant(item, news)[f]]

(* Which items a sentence is about, and what it says of each *)
SsSentence ==
  [M1 |-> {"clock", "xo", "rf", "errors"}, P1 |-> {"injected"}, P2 |-> {"best"},
   P3 |-> {"xtra"}, P4 |-> {"ephemeris"}, P5 |-> {"health"}, P6 |-> {"pdr"},
   P7 |-> {"nav"}, S1 |-> {"failure"}]

SsParsed(news, whole, v) ==
  [injected |-> SsP1(news, whole, v), best |-> SsP2(news, whole, v),
   xtra |-> SsP3(news, whole, v), ephemeris |-> SsP4(news, whole, v),
   health |-> SsP5(news, whole, v), pdr |-> SsP6(news, whole, v),
   nav |-> SsP7(news, whole, v), failure |-> SsS1(news, whole, v)]

-----------------------------------------------------------------------------
(* The reports that are kept *)

(* The errors the receiver recovered from are kept if there were any *)
SsIgnored(item, says) == item = "errors" /\ says["errors"] = 0

MutantSsEquals(item, a, b) == \E f \in SsKind[item].compared : a[f] = b[f]

SsEquals(item, a, b) == \A f \in SsKind[item].compared : a[f] = b[f]

MutantSsLatest(reports) ==
  IF Len(reports) > SsMaxItem THEN Front(reports) ELSE reports

SsLatest(reports) ==
  IF Len(reports) > SsMaxItem THEN Tail(reports) ELSE reports

SsSet(item, reports, says, time) ==
  CASE SsIgnored(item, says) -> reports
    [] ~SsIgnored(item, says) /\ reports # <<>> /\ SsEquals(item, Last(reports).says, says) ->
         [reports EXCEPT ![Len(reports)].last = time]
    [] OTHER -> SsLatest(Append(reports, [says |-> says, first |-> time, last |-> time]))

(* The same for every item that is spoken of: what the code makes of it    *)
(* and, for the properties, what was meant                                 *)
SsSetAll(says, meant) ==
  /\ ssNow < MaxSsEvents
  /\ ssNow' = ssNow + 1
  /\ ssCache' = [item \in SsItem |->
       IF item \in DOMAIN says THEN SsSet(item, ssCache[item], says[item], ssNow')
       ELSE ssCache[item]]
  /\ ssTold' = [item \in SsItem |->
       IF item \in DOMAIN says /\ ~SsIgnored(item, says[item])
         THEN [says |-> meant[item], at |-> ssNow'] ELSE ssTold[item]]

-----------------------------------------------------------------------------
(* What is said, by the modem and by the framework *)

(* What a sentence of that length does not say *)
SsMissing(length) ==
  {"jammed", "indicators"} \union
  CASE length = "none" -> UNION {SsFields(item) : item \in SsSentence["M1"]}
    [] length = "agc" -> {"leap", "amplitudes", "uncertainty"}
    [] length = "leap" -> {"amplitudes", "uncertainty"}
    [] length = "amplitudes" -> {"uncertainty"}
    [] length = "all" -> {}

(* setNmeaString with $PQWM1.  What it does not hold is not said; one with *)
(* too few fields is kept as a time that is not valid.                     *)
SsSetClockSentence ==
  \E news \in SsNews, length \in SsM1Length :
    /\ SsSetAll([item \in SsSentence["M1"] |-> SsM1(item, news, length)],
                [item \in SsSentence["M1"] |-> [f \in SsFields(item) |->
                   IF length = "none" /\ f = "valid" THEN 0
                   ELSE IF f \in SsMissing(length) THEN SsAny ELSE SsMeant(item, news)[f]]])
    /\ UNCHANGED ssReset

(* setNmeaString with the others *)
SsSetNmeaString ==
  \E sentence \in DOMAIN SsSentence \ {"M1"}, news \in SsNews, whole \in BOOLEAN, v \in {0, 1} :
    LET parsed == SsParsed(news, whole, v) IN
    /\ SsSetAll([item \in SsSentence[sentence] |-> parsed[item]],
                [item \in SsSentence[sentence] |-> [f \in SsFields(item) |->
                   IF whole /\ ~(f = "navic" /\ sentence \in {"P3", "P5"})
                     THEN SsMeant(item, news)[f] ELSE SsAny]])
    /\ UNCHANGED ssReset

(* Of the report of everything the properties except what it leaves open   *)
(* and what SsEngineSays takes from elsewhere.                             *)
SsSetEngineDebugDataInfo ==
  \E news \in SsNews, v \in {0, 1} :
    LET items == UNION {SsSentence[s] : s \in DOMAIN SsSentence} IN
    /\ SsSetAll([item \in items |-> SsEngineSays(item, news, v)],
                [item \in items |-> [f \in SsFields(item) |->
                   IF \/ f \in {"gain", "amplitudes", "jammers"}
                      \/ item = "xtra" /\ f = "bds"
                      \/ item = "nav" /\ f \in {"gps", "navic"}
                   THEN SsAny ELSE SsMeant(item, news)[f]]])
    /\ UNCHANGED ssReset

SsEventPosition ==
  \E news \in SsNews :
    LET says == [item \in {"location"} |-> SsMeant(item, news)] IN
    SsSetAll(says, says) /\ UNCHANGED ssReset

(* eventOptInStatus and eventRegionStatus come back as a data item, of     *)
(* which one bit is set or cleared in those of the last report.            *)
SsEventDataItemNotify ==
  \E field \in SsFields("enh"), holds \in BOOLEAN :
    LET was == IF ssCache["enh"] = <<>> THEN SsAll("enh", 0) ELSE Last(ssCache["enh"]).says
        meant == IF ssTold["enh"].at = 0 THEN SsAll("enh", 0) ELSE ssTold["enh"].says
    IN
    /\ SsSetAll([item \in {"enh"} |-> [was EXCEPT ![field] = SsBit(holds)]],
                [item \in {"enh"} |-> [meant EXCEPT ![field] = SsBit(holds)]])
    /\ UNCHANGED ssReset

SsEventPlainItemNotify ==
  \E item \in SsPlain, v \in {0, 1} :
    LET says == [i \in {item} |-> SsAll(i, v)] IN
    SsSetAll(says, says) /\ UNCHANGED ssReset

SsEngineItems == SsItem \ ({"enh"} \union SsPlain)

(* The position of the default is not initialized, and is not valid *)
SsDefault(item, v) ==
  [f \in SsFields(item) |-> IF item = "location" /\ f # "known" THEN v ELSE 0]

MutantSsDefaults == SsEngineItems \ {"best"}

(* The items a deletion gives a default *)
SsDefaults == SsEngineItems

(* deleteAidingData of everything *)
SsSetDefaultGnssEngineStates ==
  \E v \in {0, 1} :
    /\ ssNow < MaxSsEvents
    /\ ssNow' = ssNow + 1 /\ ssReset' = ssNow'
    /\ ssCache' = [item \in SsItem |->
         IF item \in SsDefaults
           THEN SsLatest(Append(ssCache[item],
                  [says |-> SsDefault(item, v), first |-> ssNow', last |-> ssNow']))
           ELSE ssCache[item]]
    /\ ssTold' = [item \in SsItem |->
         IF item \in SsEngineItems
           THEN [at |-> ssNow', says |-> [f \in SsFields(item) |->
                   IF item = "location" /\ f # "known" THEN SsAny ELSE 0]]
           ELSE ssTold[item]]

SsNext ==
  \/ SsSetClockSentence \/ SsSetNmeaString \/ SsSetEngineDebugDataInfo
  \/ SsEventPosition \/ SsEventDataItemNotify \/ SsEventPlainItemNotify
  \/ SsSetDefaultGnssEngineStates

SsInit ==
  /\ ssCache = [item \in SsItem |-> <<>>]
  /\ ssTold = [item \in SsItem |-> [says |-> SsAll(item, SsAny), at |-> 0]]
  /\ ssNow = 0 /\ ssReset = 0

SsSpec == SsInit /\ [][SsNext]_ssVars

-----------------------------------------------------------------------------
(* The readers, who are given the latest of each item *)

SsHas(item) == ssCache[item] # <<>>
SsGet(item, field) == IF SsHas(item) THEN Last(ssCache[item]).says[field] ELSE 0

(* getDebugReport: where its position is from, and its time *)
SsDebugPosition ==
  CASE SsGet("location", "known") = 1 -> "location"
    [] SsGet("location", "known") = 0 /\ SsGet("best", "known") = 1 -> "best"
    [] OTHER -> "none"

SsDebugTimeValid == SsGet("clock", "valid") = 1

(* convertSatelliteInfo, of one constellation *)
SsSatellite(c) ==
  [ephemeris |-> SsGet("nav", c), health |-> SsGet("health", c),
   prediction |-> SsGet("xtra", c)]

(* getAgcInformation, getDataInformation: whether measurements of that     *)
(* time of the week are given the gain                                     *)
SsAgcGiven(tow) == SsHas("rf") /\ SsHas("clock") /\ SsGet("clock", "tow") = tow

-----------------------------------------------------------------------------
(* The latest report of an item is what was said last, with the time it    *)
(* was said; older ones are kept in their order, no more than maxItem, and *)
(* neighbours differ or are a default (SystemStatus.cpp:1478-1506).  What  *)
(* equals overlooks stays that of the first of equal reports: of a         *)
(* position its speed and accuracy, of the gain the indicators, and        *)
(* whether the best position is one.                                       *)
SsSaidIsKept ==
  \A item \in SsItem : LET reports == ssCache[item] IN
    /\ Len(reports) <= SsMaxItem
    /\ \A i \in 2..Len(reports) :
         /\ reports[i - 1].last < reports[i].first
         /\ \/ ~SsEquals(item, reports[i - 1].says, reports[i].says)
            \/ item \in SsEngineItems /\ reports[i].first <= ssReset
    /\ ssTold[item].at > 0 =>
         /\ reports # <<>> /\ Last(reports).last = ssTold[item].at
         /\ \A f \in SsKind[item].compared :
              ssTold[item].says[f] \in {SsAny, Last(reports).says[f]}

(* What came after a deletion and is equal to the default it left          *)
SsHidden(item) ==
  ssReset > 0 /\ SsHas(item) /\ Last(ssCache[item]).first = ssReset

SsToldSince(item) == ssTold[item].at > ssReset

(* A debug report holds what was said since the last deletion: the         *)
(* position of the last fix, else the best the engine has, and of each     *)
(* satellite what was said of its own constellation.  Measurements are     *)
(* given a gain that was said together with their time                     *)
(* (GnssAdapter.cpp:6784-7180).  A position that is equal to the default   *)
(* is not seen, as equals overlooks that it is valid.                      *)
SsReadersAreTold ==
  /\ SsDebugPosition = "location" => SsToldSince("location")
  /\ SsDebugPosition = "best" =>
       /\ SsToldSince("best")
       /\ ~SsToldSince("location") \/ SsHidden("location")
  /\ SsDebugPosition = "none" =>
       \A item \in {"location", "best"} : ~SsToldSince(item) \/ SsHidden(item)
  /\ SsDebugTimeValid => SsToldSince("clock")
  /\ \A c \in SsConstellation :
       /\ ssTold["nav"].says[c] \in {SsAny, SsSatellite(c).ephemeris}
       /\ ssTold["xtra"].says[c] \in {SsAny, SsSatellite(c).prediction}
       /\ c # "navic" => ssTold["health"].says[c] \in {SsAny, SsSatellite(c).health}
  /\ \A tow \in {0, 1} : SsAgcGiven(tow) =>
       Last(ssCache["rf"]).last = Last(ssCache["clock"]).last

SystemStatusIsTrue == SsSaidIsKept /\ SsReadersAreTold

=============================================================================
