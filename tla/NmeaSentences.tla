--------------------------- MODULE NmeaSentences ---------------------------
(***************************************************************************)
(* The NMEA sentences the HAL makes of fixes and of satellites in view     *)
(* (utils/loc_nmea.cpp), and whom GnssAdapter gives them to                *)
(* (reportPositionNmea, reportSv).                                         *)
(*                                                                         *)
(* A sentence is a record of what it says; coordinates, speeds, times and  *)
(* checksums are left out.  Satellites are numbers: those used in a fix    *)
(* come as the set of the bits of a mask, from 1 for each system, those in *)
(* view with the numbers of the LocApi.  Whether the rate of 1 Hz lets the *)
(* sentences of a fix through is open, but for the first fix of a session. *)
(***************************************************************************)
EXTENDS Naturals, FiniteSets, SequencesExt

CONSTANTS
  NmFixes,     \* the fixes that come
  NmViews,     \* the reports of satellites in view that come
  NmConfigs,   \* what clients configure: types, datum, engines
  NmConfs,     \* gps.conf: grouping by tag blocks, customized quality
  NmWorlds,    \* who wants sentences: clients, a stream of corrections
  NmPerGsa,    \* 12: satellites in a GSA sentence
  NmPerGsv,    \* 4: satellites in a GSV sentence
  NmMaxInUse,  \* MAX_SATELLITES_IN_USE
  NmMaxCode    \* MAX_TAG_BLOCK_GROUP_CODE

ASSUME NmAssumption ==
  /\ {NmPerGsa, NmPerGsv, NmMaxInUse} \subseteq Nat \ {0}
  /\ NmMaxCode \in Nat /\ NmMaxCode > 1

VARIABLES
  nmConfig,  \* mEnabledNmeaTypes, mNmeaDatumType, mNmeaReqEngTypeMask
  nmConf,    \* ContextBase::mGps_conf
  nmTracks,  \* sessions: none, some and no sentence yet, some
  nmCode,    \* code, of loc_nmea_generate_GSA
  nmInbox,   \* the report that the message thread has to handle
  nmTold     \* what was made of the last one, until the clients have read it

nmVars == <<nmConfig, nmConf, nmTracks, nmCode, nmInbox, nmTold>>
nmSettings == <<nmConfig, nmConf>>

-----------------------------------------------------------------------------
(* Types *)

(* The systems, in the order of the sentences about them *)
NmSystems == <<"GPS", "GLONASS", "GALILEO", "BEIDOU", "QZSS", "NAVIC">>
NmSystem == Range(NmSystems)

NmTypeOfGsv == [GPS |-> "GPGSV", GLONASS |-> "GLGSV", GALILEO |-> "GAGSV",
                QZSS |-> "GQGSV", BEIDOU |-> "GBGSV", NAVIC |-> "GIGSV"]
NmType == {"GGA", "RMC", "GSA", "VTG", "GNS", "DTM"} \cup Range(NmTypeOfGsv)
NmEngine == {"FUSED", "SPE", "PPE"}
NmTech == {"SATELLITE", "HYBRID", "SENSORS", "PROPAGATED"}
NmCorrection == {"PPP", "RTK_FIXED", "RTK", "DGNSS", "SBAS"}

(* UlpLocation and GpsLocationExtended, and whether generate_nmea is set *)
NmFix == [used: [NmSystem -> SUBSET (1..64)], latlong: BOOLEAN, tech: SUBSET NmTech,
          corrections: SUBSET NmCorrection, final: BOOLEAN, engine: NmEngine, precise: BOOLEAN]
NmConfig == [types: SUBSET NmType, pz90: BOOLEAN, engines: SUBSET NmEngine]

ASSUME NmInputAssumption ==
  /\ NmConfigs \subseteq NmConfig
  /\ NmConfs \subseteq [grouping: BOOLEAN, custom: BOOLEAN]
  /\ NmWorlds \subseteq [clients: BOOLEAN, stream: BOOLEAN]

NmNothing == [of |-> "nothing"]

NmTypeOK ==
  /\ nmConfig \in NmConfigs /\ nmConf \in NmConfs
  /\ nmTracks \in {"no", "first", "on"}
  /\ nmCode \in 1..NmMaxCode
  /\ nmInbox.of \in {"nothing", "fix", "view"}
  /\ nmTold.of \in {"nothing", "fix", "view"}

-----------------------------------------------------------------------------
(* The talker of a sentence, and the satellites used in a fix *)

NmTalkerOf == [GPS |-> "GP", GLONASS |-> "GL", GALILEO |-> "GA", QZSS |-> "GQ",
               BEIDOU |-> "GB", NAVIC |-> "GI"]

NmUsedSystems(used) == {s \in NmSystem : used[s] # {}}

(* Mutant: combined only when there are three systems *)
MutantNmTalker(used, system) ==
  IF Cardinality(NmUsedSystems(used)) > 2 THEN "GN" ELSE NmTalkerOf[system]

(* Satellites of several systems are used in a combined solution *)
NmTalker(used, system) ==
  IF Cardinality(NmUsedSystems(used)) > 1 THEN "GN" ELSE NmTalkerOf[system]

(* Of the systems only GLONASS is numbered from its offset on *)
NmOffset == [GPS |-> 0, GLONASS |-> 64, GALILEO |-> 300, QZSS |-> 192, BEIDOU |-> 200,
             NAVIC |-> 400, SBAS |-> 87]
NmGsaNumbers(used, system) ==
  [i \in 1..Cardinality(used[system]) |->
     SetToSortSeq(used[system], <)[i] + (IF system = "GLONASS" THEN NmOffset.GLONASS ELSE 0)]

NmParts(n, size) == (n + size - 1) \div size
NmPart(seq, k, size) ==
  SubSeq(seq, (k - 1) * size + 1, IF k * size < Len(seq) THEN k * size ELSE Len(seq))

-----------------------------------------------------------------------------
(* GSA: the satellites used, for one system after the other.  More than    *)
(* one sentence of a system are grouped by a tag block, which holds its    *)
(* number, their number and a code; without tag blocks there is one.       *)

NmIsGrouped(numbers) == nmConf.grouping /\ Len(numbers) > NmPerGsa

(* The code starts again within the group that reaches the last one *)
NmNextCode(code) == IF code = NmMaxCode THEN 1 ELSE code

NmTag(numbers, k, code) ==
  IF NmIsGrouped(numbers)
  THEN [number |-> k, total |-> NmParts(Len(numbers), NmPerGsa),
        code |-> IF k = 1 THEN code ELSE NmNextCode(code)]
  ELSE [number |-> 0, total |-> 0, code |-> 0]

(* Mutant: the parts overlap by one satellite *)
MutantNmGsa(used, system, code) ==
  LET numbers == NmGsaNumbers(used, system)
      sentences == NmParts(Len(numbers), NmPerGsa)
  IN [k \in 1..(IF nmConf.grouping \/ sentences = 0 THEN sentences ELSE 1) |->
        [type |-> "GSA", talker |-> NmTalker(used, system), system |-> system,
         numbers |-> SubSeq(numbers, (k - 1) * NmPerGsa + (IF k > 1 THEN 0 ELSE 1),
                            IF k * NmPerGsa < Len(numbers) THEN k * NmPerGsa ELSE Len(numbers)),
         tag |-> NmTag(numbers, k, code)]]

NmGsa(used, system, code) ==
  LET numbers == NmGsaNumbers(used, system)
      sentences == NmParts(Len(numbers), NmPerGsa)
  IN [k \in 1..(IF nmConf.grouping \/ sentences = 0 THEN sentences ELSE 1) |->
        [type |-> "GSA", talker |-> NmTalker(used, system), system |-> system,
         numbers |-> NmPart(numbers, k, NmPerGsa), tag |-> NmTag(numbers, k, code)]]

(* Mutant: the code is the same for all systems *)
MutantNmCodeAfter(used, system, code) == code

NmCodeAfter(used, system, code) ==
  IF NmIsGrouped(NmGsaNumbers(used, system)) THEN NmNextCode(code) + 1 ELSE code

(* The sentences and the code after those of all systems *)
NmAllGsa(used) ==
  FoldLeft(LAMBDA made, system :
             [sentences |-> made.sentences \o NmGsa(used, system, made.code),
              code |-> NmCodeAfter(used, system, made.code)],
           [sentences |-> <<>>, code |-> nmCode], NmSystems)

NmBlank(type) == [type |-> type, talker |-> "GP"]
NmBlanks(types) ==
  LET order == <<"GSA", "VTG", "DTM", "RMC", "GNS", "GGA">>
  IN [i \in 1..Len(SelectSeq(order, LAMBDA t : t \in types)) |->
        NmBlank(SelectSeq(order, LAMBDA t : t \in types)[i])]

-----------------------------------------------------------------------------
(* loc_nmea_get_fix_quality *)

(* The order of the checks matters *)
NmModeHolds(fix) ==
  [P |-> "PPP" \in fix.corrections, R |-> "RTK_FIXED" \in fix.corrections,
   F |-> "RTK" \in fix.corrections, D |-> {"DGNSS", "SBAS"} \cap fix.corrections # {},
   A |-> "SATELLITE" \in fix.tech, N |-> TRUE]

NmMode(fix) ==
  CASE ~fix.latlong -> "N"
    [] fix.latlong /\ (fix.tech = {"SENSORS"} \/ "PROPAGATED" \in fix.tech) -> "E"
    [] OTHER -> Head(SelectSeq(<<"P", "R", "F", "D", "A", "N">>,
                               LAMBDA mode : NmModeHolds(fix)[mode]))

NmVtgMode(mode) == IF mode \in {"R", "F"} THEN "D" ELSE mode

NmGnsMode(fix) ==
  [s \in NmSystem |-> IF NmMode(fix) = "E" \/ fix.used[s] # {} THEN NmMode(fix) ELSE "N"]

NmDigit == [N |-> 0, E |-> 6, P |-> 2, R |-> 4, F |-> 5, D |-> 2, A |-> 1]

(* Mutant: the second digit is lost *)
MutantNmQuality(fix) ==
  LET digit == NmDigit[NmMode(fix)]
      sensors == "SENSORS" \in fix.tech
  IN CASE ~nmConf.custom -> <<digit>>
       [] nmConf.custom /\ "PPP" \in fix.corrections -> <<IF sensors THEN 6 ELSE 5, 9>>
       [] nmConf.custom /\ "PPP" \notin fix.corrections /\ sensors -> <<6, 6>>
       [] OTHER -> <<digit>>

(* Customized: two digits for what sensors take part in, and for PPP *)
NmQuality(fix) ==
  LET digit == NmDigit[NmMode(fix)]
      sensors == "SENSORS" \in fix.tech
      helped == fix.corrections \cap (NmCorrection \ {"PPP"}) # {} \/ "SATELLITE" \in fix.tech
  IN CASE ~nmConf.custom -> <<digit>>
       [] nmConf.custom /\ "PPP" \in fix.corrections -> <<IF sensors THEN 6 ELSE 5, 9>>
       [] nmConf.custom /\ "PPP" \notin fix.corrections /\ sensors ->
            IF helped THEN <<6, digit>> ELSE <<6>>
       [] OTHER -> <<digit>>

-----------------------------------------------------------------------------
(* The sentences of a fix *)

NmTypes == nmConfig.types

(* The talker of the last system that has a GSA, that of GPS without them *)
NmFixTalker(used) ==
  LET listed == SelectSeq(NmSystems, LAMBDA s : used[s] # {})
  IN CASE "GSA" \notin NmTypes -> NmTalker(used, "GPS")
       [] "GSA" \in NmTypes /\ listed = <<>> -> "GP"
       [] OTHER -> NmTalker(used, Last(listed))

NmGsaPart(fix) ==
  CASE "GSA" \notin NmTypes -> <<>>
    [] NmUsedSystems(fix.used) = {} /\ "GSA" \in NmTypes ->
         IF fix.tech \cap {"SATELLITE", "HYBRID"} # {} THEN <<NmBlank("GSA")>> ELSE <<>>
    [] OTHER -> NmAllGsa(fix.used).sentences

(* Mutant: without tag blocks only the satellites listed are counted *)
MutantNmCount(fix) ==
  IF "GSA" \in NmTypes
  THEN FoldLeft(LAMBDA n, s : n + (IF Cardinality(fix.used[s]) > NmPerGsa THEN NmPerGsa
                                   ELSE Cardinality(fix.used[s])), 0, NmSystems)
  ELSE 0

NmCount(fix) ==
  IF "GSA" \in NmTypes
  THEN FoldLeft(LAMBDA n, s : n + Cardinality(fix.used[s]), 0, NmSystems) ELSE 0

NmEmpty == [type |-> "empty"]
NmIfOn(type, sentence) == IF type \in NmTypes THEN sentence ELSE NmEmpty

NmRmcIsValid(fix) ==
  fix.latlong \/ NmUsedSystems(fix.used) \ {"NAVIC"} # {}

NmVtg(fix) ==
  IF "VTG" \in NmTypes
  THEN <<[type |-> "VTG", talker |-> NmFixTalker(fix.used), mode |-> NmVtgMode(NmMode(fix))]>>
  ELSE <<>>

NmDtm(fix) == NmIfOn("DTM", [type |-> "DTM", talker |-> NmFixTalker(fix.used)])

NmRmc(fix) ==
  NmIfOn("RMC", [type |-> "RMC", talker |-> NmFixTalker(fix.used), mode |-> NmMode(fix),
                 valid |-> NmRmcIsValid(fix)])

NmGns(fix) ==
  NmIfOn("GNS", [type |-> "GNS", talker |-> NmFixTalker(fix.used), mode |-> NmGnsMode(fix),
                 count |-> NmCount(fix)])

NmGga(fix) ==
  NmIfOn("GGA", [type |-> "GGA", talker |-> NmFixTalker(fix.used), quality |-> NmQuality(fix),
                 count |-> IF NmCount(fix) > NmMaxInUse THEN NmMaxInUse ELSE NmCount(fix)])

(* An empty string stands for the last four that are not wanted; PZ-90     *)
(* has the datum before each of them.                                      *)
NmSentences(fix) ==
  LET again(type) == IF nmConfig.pz90 /\ type \in NmTypes THEN <<NmDtm(fix)>> ELSE <<>>
  IN NmGsaPart(fix) \o NmVtg(fix) \o <<NmDtm(fix), NmRmc(fix)>>
       \o again("GNS") \o <<NmGns(fix)>> \o again("GGA") \o <<NmGga(fix)>>

-----------------------------------------------------------------------------
(* GSV: the satellites in view, for one signal after the other.  They are  *)
(* counted in one pass and listed in another.                              *)

NmDefaultSignal == [GPS |-> "GPS_L1CA", GLONASS |-> "GLONASS_G1", GALILEO |-> "GALILEO_E1",
                    QZSS |-> "QZSS_L1CA", BEIDOU |-> "BEIDOU_B1I", SBAS |-> "SBAS_L1",
                    NAVIC |-> "NAVIC_L5"]

NmSignalIds ==
  [GPS_L1CA |-> 1, SBAS_L1 |-> 1, GPS_L2 |-> 6, GPS_L5 |-> 8, GLONASS_G1 |-> 1,
   GLONASS_G2 |-> 3, GALILEO_E1 |-> 7, GALILEO_E5A |-> 1, GALILEO_E5B |-> 2,
   QZSS_L1CA |-> 1, QZSS_L2 |-> 6, QZSS_L5 |-> 8, BEIDOU_B1I |-> 1, BEIDOU_B1C |-> 3,
   BEIDOU_B2I |-> 11, BEIDOU_B2AI |-> 5, BEIDOU_B2AQ |-> 5, BEIDOU_B2BI |-> 6,
   BEIDOU_B2BQ |-> 6, NAVIC_L5 |-> 1]
NmSignalId(signal) == IF signal \in DOMAIN NmSignalIds THEN NmSignalIds[signal] ELSE 0

NmGroups ==
  <<<<"GPS", "GPS_L1CA">>, <<"GPS", "GPS_L5">>, <<"GPS", "GPS_L2">>,
    <<"GLONASS", "GLONASS_G1">>, <<"GLONASS", "GLONASS_G2">>,
    <<"GALILEO", "GALILEO_E1">>, <<"GALILEO", "GALILEO_E5A">>, <<"GALILEO", "GALILEO_E5B">>,
    <<"QZSS", "QZSS_L1CA">>, <<"QZSS", "QZSS_L5">>, <<"QZSS", "QZSS_L2">>,
    <<"BEIDOU", "BEIDOU_B1I">>, <<"BEIDOU", "BEIDOU_B1C">>, <<"BEIDOU", "BEIDOU_B2AI">>,
    <<"BEIDOU", "BEIDOU_B2BI">>, <<"NAVIC", "NAVIC_L5">>>>

NmIsOf(sv, system) == sv.type \in (IF system = "GPS" THEN {"GPS", "SBAS"} ELSE {system})

(* What is counted apart; all else counts as the system's default *)
NmApart == [GPS_L5 |-> "GPS_L5", GPS_L2 |-> "GPS_L2", GLONASS_G2 |-> "GLONASS_G2",
            GALILEO_E5A |-> "GALILEO_E5A", GALILEO_E5B |-> "GALILEO_E5B",
            QZSS_L5 |-> "QZSS_L5", QZSS_L2 |-> "QZSS_L2", BEIDOU_B2AI |-> "BEIDOU_B2AI",
            BEIDOU_B2AQ |-> "BEIDOU_B2AI", BEIDOU_B2BI |-> "BEIDOU_B2BI",
            BEIDOU_B2BQ |-> "BEIDOU_B2BI", BEIDOU_B1C |-> "BEIDOU_B1C"]

(* Mutant: the two halves of a signal are counted apart *)
MutantNmIsCounted(sv, system, signal) ==
  /\ NmIsOf(sv, system)
  /\ signal = IF sv.signal \in DOMAIN NmApart \ {"BEIDOU_B2AQ"} THEN NmApart[sv.signal]
              ELSE NmDefaultSignal[system]

NmIsCounted(sv, system, signal) ==
  /\ NmIsOf(sv, system)
  /\ signal = IF sv.signal \in DOMAIN NmApart THEN NmApart[sv.signal]
              ELSE NmDefaultSignal[system]

NmIsListed(sv, system, signal) ==
  /\ NmIsOf(sv, system)
  /\ NmSignalId(IF sv.signal = "none" THEN NmDefaultSignal[sv.type] ELSE sv.signal)
       = NmSignalId(signal)

(* Nothing is said of a slot that is not known *)
NmGloSlotUnknown == 255
NmShown(sv) ==
  IF sv.type = "GLONASS" /\ sv.id = NmGloSlotUnknown THEN 0 ELSE sv.id - NmOffset[sv.type]

(* Mutant: the last sentence is only made when it is full *)
MutantNmGsv(view, system, signal) ==
  LET count == Len(SelectSeq(view, LAMBDA sv : NmIsCounted(sv, system, signal)))
      listed == SelectSeq(view, LAMBDA sv : NmIsListed(sv, system, signal))
      total == count \div NmPerGsv
  IN [k \in 1..total |->
        [type |-> "GSV", system |-> system, signal |-> NmSignalId(signal), number |-> k,
         total |-> total, count |-> count,
         numbers |-> LET part == NmPart(listed, k, NmPerGsv)
                     IN [i \in DOMAIN part |-> NmShown(part[i])]]]

NmGsv(view, system, signal) ==
  LET count == Len(SelectSeq(view, LAMBDA sv : NmIsCounted(sv, system, signal)))
      listed == SelectSeq(view, LAMBDA sv : NmIsListed(sv, system, signal))
      total == NmParts(count, NmPerGsv)
  IN [k \in 1..total |->
        [type |-> "GSV", system |-> system, signal |-> NmSignalId(signal), number |-> k,
         total |-> total, count |-> count,
         numbers |-> LET part == NmPart(listed, k, NmPerGsv)
                     IN [i \in DOMAIN part |-> NmShown(part[i])]]]

NmAllGsv(view) ==
  FoldLeft(LAMBDA made, group :
             IF NmTypeOfGsv[group[1]] \in NmTypes THEN made \o NmGsv(view, group[1], group[2])
             ELSE made,
           <<>>, NmGroups)

-----------------------------------------------------------------------------
(* Reports *)

(* The LocApi reports a fix or the satellites in view.  Bound: the next    *)
(* report comes when the clients have read what the last one brought.      *)
NmArrives(report) ==
  /\ nmInbox = NmNothing /\ nmTold = NmNothing
  /\ nmInbox' = report
  /\ UNCHANGED <<nmSettings, nmTracks, nmCode, nmTold>>

(* needToGenerateNmeaReport: the first fix of a session, or the rate lets  *)
(* this one through                                                        *)
NmIsDue(open) == nmTracks = "first" \/ (nmTracks = "on" /\ open)

(* Without precise positioning the sentences count as those of both        *)
(* engines                                                                 *)
NmReceivers(fix) ==
  nmConfig.engines \cap (IF fix.precise THEN {fix.engine} ELSE {"FUSED", "SPE"})

NmReportPosition(open, world) ==
  /\ nmInbox.of = "fix"
  /\ nmInbox' = NmNothing
  /\ LET fix == nmInbox.fix
         made == NmIsDue(open) /\ (world.clients \/ (world.stream /\ fix.engine = "SPE"))
         sentences == IF fix.final THEN NmSentences(fix) ELSE NmBlanks(NmTypes)
     IN /\ nmTracks' = IF NmIsDue(open) THEN "on" ELSE nmTracks
        /\ nmTold' = IF made
                     THEN [of |-> "fix", fix |-> fix, sentences |-> sentences,
                           to |-> IF world.clients THEN NmReceivers(fix) ELSE {},
                           stream |-> IF world.stream /\ fix.final THEN <<Last(sentences)>>
                                      ELSE <<>>,
                           types |-> NmTypes]
                     ELSE NmNothing
        /\ nmCode' = IF made /\ fix.final /\ "GSA" \in NmTypes THEN NmAllGsa(fix.used).code
                     ELSE nmCode
  /\ UNCHANGED nmSettings

NmReportSv ==
  /\ nmInbox.of = "view"
  /\ nmInbox' = NmNothing
  /\ nmTold' = IF nmTracks = "no" THEN NmNothing
               ELSE [of |-> "view", view |-> nmInbox.view,
                     sentences |-> NmAllGsv(nmInbox.view), types |-> NmTypes]
  /\ UNCHANGED <<nmSettings, nmTracks, nmCode>>

NmClientsRead ==
  /\ nmTold # NmNothing
  /\ nmTold' = NmNothing
  /\ UNCHANGED <<nmSettings, nmTracks, nmCode, nmInbox>>

NmConfigOutputTypes(config) ==
  /\ nmTold = NmNothing
  /\ nmConfig' = config
  /\ UNCHANGED <<nmConf, nmTracks, nmCode, nmInbox, nmTold>>

NmStartTracking ==
  /\ nmTold = NmNothing /\ nmTracks = "no"
  /\ nmTracks' = "first"
  /\ UNCHANGED <<nmSettings, nmCode, nmInbox, nmTold>>

NmStopTracking ==
  /\ nmTold = NmNothing /\ nmTracks # "no"
  /\ nmTracks' = "no"
  /\ UNCHANGED <<nmSettings, nmCode, nmInbox, nmTold>>

NmInit ==
  /\ nmConfig \in NmConfigs /\ nmConf \in NmConfs
  /\ nmTracks = "no" /\ nmCode = 1
  /\ nmInbox = NmNothing /\ nmTold = NmNothing

NmNext ==
  \/ \E fix \in NmFixes : NmArrives([of |-> "fix", fix |-> fix])
  \/ \E view \in NmViews : NmArrives([of |-> "view", view |-> view])
  \/ \E open \in BOOLEAN, world \in NmWorlds : NmReportPosition(open, world)
  \/ NmReportSv \/ NmClientsRead
  \/ \E config \in NmConfigs : NmConfigOutputTypes(config)
  \/ NmStartTracking \/ NmStopTracking

NmSpec == NmInit /\ [][NmNext]_nmVars

-----------------------------------------------------------------------------
(* Properties *)

NmJoined(sentences) == FlattenSeq([i \in DOMAIN sentences |-> sentences[i].numbers])

NmListsEachOnce(numbers, set) ==
  Range(numbers) = set /\ Len(numbers) = Cardinality(set)

(* The satellites used in a fix are listed, each once, system by system;   *)
(* without tag blocks as many as fit into one sentence.  The tags of a     *)
(* group number all of its sentences, and a code is that of one group, but *)
(* for the group within which the codes start again: its first sentence    *)
(* has another code than the rest (loc_nmea.cpp:692-694).                  *)
NmUsedAreListed ==
  LET told == nmTold
      of(system) == SelectSeq(told.sentences,
                              LAMBDA s : "tag" \in DOMAIN s /\ s.system = system)
      tags == {<<s.system, s.tag.code>> : s \in
                 {t \in Range(told.sentences) : "tag" \in DOMAIN t /\ t.tag.number > 0}}
  IN told.of = "fix" /\ told.fix.final /\ "GSA" \in told.types =>
       /\ \A system \in NmSystem :
            LET group == of(system)
                names == {n + (IF system = "GLONASS" THEN 64 ELSE 0) : n \in told.fix.used[system]}
            IN /\ \A k \in DOMAIN group : Len(group[k].numbers) \in 1..NmPerGsa
               /\ nmConf.grouping \/ Cardinality(names) <= NmPerGsa
                    => NmListsEachOnce(NmJoined(group), names)
               /\ ~nmConf.grouping /\ Cardinality(names) > NmPerGsa
                    => /\ Range(NmJoined(group)) \subseteq names
                       /\ Len(group) = 1 /\ Len(NmJoined(group)) = NmPerGsa
               /\ Len(group) > 1 => \A k \in DOMAIN group :
                    group[k].tag.number = k /\ group[k].tag.total = Len(group)
       /\ (\A t \in tags : t[2] # NmMaxCode) =>
            \A t, u \in tags : t[1] = u[1] <=> t[2] = u[2]

(* Signals that are counted as the default one of their system and listed  *)
(* under none (loc_nmea.cpp:2219-2297 and :885-886)                        *)
NmIsLost(sv) ==
  sv.signal \notin DOMAIN NmSignalIds \cup {"none"} \/ sv.signal = "BEIDOU_B2I"

(* The satellites in view are listed, each once under its system and       *)
(* signal, and the sentences about them number themselves, are full but    *)
(* for the last one and say how many satellites there are, if no signal    *)
(* got lost (loc_nmea.cpp:797-938, 2211-2420).                             *)
NmViewIsListed ==
  LET told == nmTold
      pages(system, signal) ==
        SelectSeq(told.sentences, LAMBDA s : s.system = system /\ s.signal = signal)
      seen(system, signal) ==
        {i \in DOMAIN told.view :
           /\ NmIsOf(told.view[i], system) /\ ~NmIsLost(told.view[i])
           /\ signal = NmSignalIds[IF told.view[i].signal = "none"
                                   THEN NmDefaultSignal[told.view[i].type]
                                   ELSE told.view[i].signal]}
  IN told.of = "view" => \A system \in NmSystem, signal \in Range(NmSignalIds) :
       LET group == pages(system, signal)
           svs == IF NmTypeOfGsv[system] \in told.types THEN seen(system, signal) ELSE {}
           lost == \E sv \in Range(told.view) : NmIsOf(sv, system) /\ NmIsLost(sv)
       IN /\ Len(NmJoined(group)) = Cardinality(svs)
          /\ \A i \in svs : NmShown(told.view[i]) \in Range(NmJoined(group))
          /\ \A k \in DOMAIN group : group[k].number = k /\ group[k].total = Len(group)
          /\ ~lost => \A k \in DOMAIN group :
               /\ group[k].count = Cardinality(svs)
               /\ k < Len(group) => Len(group[k].numbers) = NmPerGsv

SatellitesAreListed == NmUsedAreListed /\ NmViewIsListed

NmSaid(type) == SelectSeq(nmTold.sentences, LAMBDA s : s.type = type)

(* The qualities of a fix that is customized, as loc_nmea.cpp:1274-1280    *)
(* lists them, by mode and by whether sensors take part                    *)
NmCustomized ==
  [P |-> <<<<5, 9>>, <<6, 9>>>>, D |-> <<<<2>>, <<6, 2>>>>, R |-> <<<<4>>, <<6, 4>>>>,
   F |-> <<<<5>>, <<6, 5>>>>, A |-> <<<<1>>, <<6, 1>>>>]

(* The sentences of a fix say the same: who talks, what kind of fix it is  *)
(* and how many satellites there are; and a stream of corrections is       *)
(* started with the position (loc_nmea.cpp:1130-1330, 1347-2195).  Not so  *)
(* without GSA sentences: no satellites are counted, and a single system   *)
(* that is not GPS is not named.  Without GGA the stream gets nothing.     *)
(* The customized quality of an estimated fix, and of none, is not in the  *)
(* list.                                                                   *)
SentencesAgree ==
  LET told == nmTold
      used == NmUsedSystems(told.fix.used)
      speakers == {s.talker : s \in {t \in Range(told.sentences) : "talker" \in DOMAIN t}}
      gsa == "GSA" \in told.types
      mode == NmSaid("RMC")[1].mode
      count == FoldLeft(LAMBDA n, s : n + Cardinality(told.fix.used[s]), 0, NmSystems)
  IN told.of = "fix" /\ told.fix.final =>
       /\ Cardinality(speakers) <= 1
       /\ gsa \/ Cardinality(used) # 1 => speakers \subseteq
            CASE used = {} -> {"GP"}
              [] Cardinality(used) = 1 -> {NmTalkerOf[CHOOSE s \in used : TRUE]}
              [] OTHER -> {"GN"}
       /\ told.types \cap {"RMC", "VTG", "GNS"} = {"RMC", "VTG", "GNS"} =>
            /\ NmSaid("VTG")[1].mode = "N" <=> mode = "N"
            /\ Range(NmSaid("GNS")[1].mode) \subseteq {"N", mode}
            /\ mode \notin {"N", "E"} =>
                 {s \in NmSystem : NmSaid("GNS")[1].mode[s] = mode} = used
       /\ {"RMC", "GGA"} \subseteq told.types =>
            LET quality == NmSaid("GGA")[1].quality
            IN /\ ~nmConf.custom => (quality = <<0>> <=> mode = "N")
               /\ nmConf.custom /\ mode \in DOMAIN NmCustomized =>
                    quality = NmCustomized[mode][IF "SENSORS" \in told.fix.tech THEN 2 ELSE 1]
       /\ gsa /\ "GNS" \in told.types => NmSaid("GNS")[1].count = count
       /\ gsa /\ "GGA" \in told.types =>
            NmSaid("GGA")[1].count = IF count > NmMaxInUse THEN NmMaxInUse ELSE count
       /\ told.stream # <<>> /\ "GGA" \in told.types => told.stream[1].type = "GGA"

=============================================================================
