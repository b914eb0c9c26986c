--------------------------- MODULE NetworkStatus ---------------------------
(***************************************************************************)
(* What SystemStatus keeps of the networks (core/SystemStatus.cpp, .h).    *)
(* The framework says of one network at a time that it is up or down; each *)
(* report is collated with the last one into a table of all the networks   *)
(* that are up, a mask of their types and the APN of the mobile ones.      *)
(* SystemStatusOsObserver caches the report with that table and mask, but  *)
(* with the APN it came with, and passes it on: to NativeAgpsHandler, which*)
(* opens AGPS connections while a mobile network is up, and to             *)
(* XtraSystemStatusObserver, which tells the daemons.  When the client of  *)
(* the HAL dies, the networks it reported are reset.                       *)
(*                                                                         *)
(* The binder thread posts reports and resets, one message thread does the *)
(* rest.                                                                   *)
(***************************************************************************)
EXTENDS Naturals, Sequences, SequencesExt, Functions

CONSTANTS
  NsNetwork,     \* handles of networks
  NsTypeOf,      \* what type each of them is
  NsMobile,      \* TYPE_MOBILE
  NsApn,         \* APNs the framework reports mobile networks with
  NsNoApn,       \* the empty string, reported with every other network
  NsMaxHandles,  \* MAX_NETWORK_HANDLES
  NsMaxItem,     \* maxItem, the reports that are kept
  MaxNsReports,  \* bound: reports and resets in all
  MaxNsQueue     \* bound: messages under way when a report comes

ASSUME NsAssumption ==
  /\ NsMaxHandles \in Nat \ {0} /\ NsMaxItem \in Nat \ {0}
  /\ MaxNsReports \in Nat /\ MaxNsQueue \in Nat

VARIABLES
  nsHistory,  \* mCache.mNetworkInfo, the latest last
  nsCache,    \* mDataItemCache[NETWORKINFO_DATA_ITEM_ID], at most one
  nsAgps,     \* mConnected and mApn of NativeAgpsHandler
  nsXtra,     \* mConnections and mNetworkHandle of XtraSystemStatusObserver
  nsInbox,    \* messages of the message thread
  nsReset,    \* the report resetNetworkInfo looks at next, 0 if it does not run
  nsReports,  \* reports and resets so far
  nsUp,       \* networks that are up, as the framework said last
  nsApn,      \* the APN it said last, of a mobile network
  nsUntold,   \* networks that were up before the reset and were not looked at
  nsStray     \* what is known to be wrong: networks that found no room,
              \* networks that are kept though they are down, wrong types

nsVars == <<nsHistory, nsCache, nsAgps, nsXtra, nsInbox, nsReset, nsReports,
            nsUp, nsApn, nsUntold, nsStray>>

nsKept == <<nsHistory, nsCache, nsAgps>>
nsGhosts == <<nsUp, nsApn, nsUntold, nsStray>>

-----------------------------------------------------------------------------
(* Types *)

NsType == Range(NsTypeOf)

(* mAllTypes and mAllNetworkHandles *)
NsKnown == [types: SUBSET NsType, table: UNION {[1..n -> NsNetwork] : n \in 0..NsMaxHandles}]

NsApns == NsApn \cup {NsNoApn}

NsItem == [known: NsKnown, net: NsNetwork, connected: BOOLEAN, apn: NsApns]

NsMessage ==
  [kind: {"notify"}, net: NsNetwork, connected: BOOLEAN, apn: NsApns]
  \cup [kind: {"xtra"}, known: NsKnown]

NsTypeOK ==
  /\ nsHistory \in Seq(NsItem) /\ Len(nsHistory) <= NsMaxItem
  /\ ToSet(nsCache) \subseteq NsItem /\ Len(nsCache) <= 1
  /\ nsAgps \in [connected: BOOLEAN, apn: NsApns]
  /\ ToSet(nsXtra) \subseteq NsKnown /\ Len(nsXtra) <= 1
  /\ nsInbox \in Seq(NsMessage)
  /\ nsReset \in 0..NsMaxItem
  /\ nsReports \in 0..MaxNsReports
  /\ nsUp \subseteq NsNetwork /\ nsUntold \subseteq NsNetwork /\ nsApn \in NsApns
  /\ nsStray \in [lost: SUBSET NsNetwork, stale: SUBSET NsNetwork, types: BOOLEAN]

-----------------------------------------------------------------------------
(* Collating a report with the last one *)

NsTypes(nets) == {NsTypeOf[n] : n \in nets}

(* The other networks of the type of a network that are in a table *)
NsOthers(table, net) == {n \in ToSet(table) \ {net} : NsTypeOf[n] = NsTypeOf[net]}

(* Mutant: the last entry is dropped, whichever it was *)
MutantNsWithout(table, net) ==
  IF Contains(table, net) THEN Front(table) ELSE table

(* The last entry takes the place of the one that goes *)
NsWithout(table, net) ==
  IF Contains(table, net)
  THEN Front([i \in DOMAIN table |-> IF table[i] = net THEN Last(table) ELSE table[i]])
  ELSE table

(* Mutant: one entry less than there is room for *)
MutantNsWith(table, net) ==
  IF Contains(table, net) \/ Len(table) + 1 >= NsMaxHandles
  THEN table ELSE Append(table, net)

(* A network that is there already, or finds no room, is not added *)
NsWith(table, net) ==
  IF Contains(table, net) \/ Len(table) = NsMaxHandles THEN table ELSE Append(table, net)

(* The types that are left: this one only while there are others of it     *)
NsTypesWithout(known, net) ==
  IF NsOthers(known.table, net) = {}
  THEN known.types \ {NsTypeOf[net]}
  ELSE {NsTypeOf[net]}

NsCollated(known, net, isUp) ==
  IF isUp
  THEN [types |-> known.types \cup {NsTypeOf[net]}, table |-> NsWith(known.table, net)]
  ELSE [types |-> NsTypesWithout(known, net), table |-> NsWithout(known.table, net)]

(* The APN of the mobile networks is kept while others are reported *)
NsApnOf(m) ==
  IF NsTypeOf[m.net] # NsMobile /\ Last(nsHistory).apn # NsNoApn
  THEN Last(nsHistory).apn ELSE m.apn

(* A first report is taken as it is, also of a network that is down *)
NsNews(m) ==
  [known |-> IF nsHistory = <<>>
             THEN [types |-> {NsTypeOf[m.net]}, table |-> <<m.net>>]
             ELSE NsCollated(Last(nsHistory).known, m.net, m.connected),
   apn |-> IF nsHistory = <<>> THEN m.apn ELSE NsApnOf(m),
   net |-> m.net, connected |-> m.connected]

(* Mutant: the APN is not compared *)
MutantNsIsNew(item) ==
  \/ nsHistory = <<>>
  \/ item.known # Last(nsHistory).known
  \/ item.connected # Last(nsHistory).connected

(* equals: neither the network nor its type is compared *)
NsIsNew(item) ==
  \/ nsHistory = <<>>
  \/ item.known # Last(nsHistory).known
  \/ item.connected # Last(nsHistory).connected
  \/ item.apn # Last(nsHistory).apn

(* Mutant: the reports that are kept are not bounded as they should be: the
   newest goes *)
MutantNsRemember(item) ==
  IF Len(nsHistory) = NsMaxItem THEN nsHistory ELSE Append(nsHistory, item)

(* setIteminReport *)
NsRemember(item) ==
  LET all == Append(nsHistory, item) IN
  IF Len(all) > NsMaxItem THEN Tail(all) ELSE all

-----------------------------------------------------------------------------
(* The binder thread *)

NsNotify(net, isUp, apn) ==
  [kind |-> "notify", net |-> net, connected |-> isUp, apn |-> apn]

(* eventConnectionStatus *)
NsReport(net, isUp, apn) ==
  /\ nsReset = 0
  /\ nsReports < MaxNsReports /\ Len(nsInbox) < MaxNsQueue
  /\ NsTypeOf[net] = NsMobile \/ apn = NsNoApn
  /\ nsReports' = nsReports + 1
  /\ nsInbox' = Append(nsInbox, NsNotify(net, isUp, apn))
  /\ nsUp' = IF isUp THEN nsUp \cup {net} ELSE nsUp \ {net}
  /\ nsApn' = IF NsTypeOf[net] = NsMobile THEN apn ELSE nsApn
  /\ nsStray' = [nsStray EXCEPT !.stale = @ \ {net}]
  /\ UNCHANGED <<nsKept, nsXtra, nsReset, nsUntold>>

(* resetNetworkInfo, called when the client died *)
NsResetNetworkInfo ==
  /\ nsReset = 0
  /\ nsReports < MaxNsReports /\ Len(nsInbox) < MaxNsQueue
  /\ nsReports' = nsReports + 1
  /\ nsReset' = 1
  /\ nsUntold' = nsUp \cup nsStray.stale
  /\ nsUp' = {}
  /\ UNCHANGED <<nsKept, nsXtra, nsInbox, nsApn, nsStray>>

(* Mutant: the loop ends one report early *)
MutantNsResetMore == nsReset < Len(nsHistory)

NsResetMore == nsReset <= Len(nsHistory)

(* One round of its loop: mCache is read without the lock, while the       *)
(* message thread adds to it                                               *)
NsResetOne ==
  /\ nsReset > 0
  /\ NsResetMore
  /\ nsInbox' = Append(nsInbox,
                  NsNotify(nsHistory[nsReset].net, FALSE, nsHistory[nsReset].apn))
  /\ nsReset' = IF nsReset = NsMaxItem THEN 0 ELSE nsReset + 1
  /\ nsUntold' = nsUntold \ {nsHistory[nsReset].net}
  /\ nsStray' = IF nsReset = NsMaxItem
                THEN [nsStray EXCEPT !.stale = nsUntold'] ELSE nsStray
  /\ UNCHANGED <<nsKept, nsXtra, nsReports, nsUp, nsApn>>

(* What was not in the reports that are kept stays *)
NsResetEnds ==
  /\ nsReset > 0 /\ ~NsResetMore
  /\ nsReset' = 0
  /\ nsStray' = [nsStray EXCEPT !.stale = nsUntold]
  /\ UNCHANGED <<nsKept, nsXtra, nsInbox, nsReports, nsUp, nsApn, nsUntold>>

-----------------------------------------------------------------------------
(* The message thread *)

(* What is wrong after a report: a network that finds no room, a first     *)
(* report that is of a network that is down, and the types, once a network *)
(* goes while another of its type is up                                    *)
NsAstray(net, isUp, table, types) ==
  LET lost == IF isUp /\ ~Contains(table, net) /\ Len(table) = NsMaxHandles
              THEN nsStray.lost \cup {net} ELSE nsStray.lost \ {net}
      later == \E m \in ToSet(Tail(nsInbox)) : m.kind = "notify" /\ m.net = net
      twin == ~isUp /\ nsHistory # <<>>
              /\ NsOthers(Last(nsHistory).known.table \o SetToSeq(nsStray.lost), net) # {}
  IN [lost |-> lost,
      stale |-> IF nsHistory = <<>> /\ ~isUp /\ ~later
                THEN nsStray.stale \cup {net} ELSE nsStray.stale,
      types |-> (nsStray.types \/ twin) /\ types # NsTypes(ToSet(table) \cup lost)]

(* Mutant: clients get the report itself, not what is kept *)
MutantNsTold(item, apn) ==
  [item EXCEPT !.known = [types |-> {NsTypeOf[item.net]}, table |-> <<item.net>>],
               !.apn = apn]

(* eventDataItemNotify gives the report the table and the mask that are    *)
(* kept, and leaves its APN                                                *)
NsTold(item, apn) == [item EXCEPT !.apn = apn]

(* copyFrom: nothing is copied when nothing but the APN differs *)
NsCopied(news) ==
  IF nsCache # <<>> /\ news = [nsCache[1] EXCEPT !.apn = news.apn]
  THEN nsCache ELSE <<news>>

(* HandleNotify of the observer *)
NsHandleNotify ==
  /\ nsInbox # <<>> /\ Head(nsInbox).kind = "notify"
  /\ LET m == Head(nsInbox)
         item == NsNews(m)
         known == nsCache'[1].known
     IN /\ IF NsIsNew(item)
           THEN /\ nsHistory' = NsRemember(item)
                /\ nsCache' = NsCopied(NsTold(item, m.apn))
                /\ nsAgps' = [connected |-> NsMobile \in known.types,
                              apn |-> nsCache'[1].apn]
                /\ nsInbox' = Append(Tail(nsInbox), [kind |-> "xtra", known |-> known])
           ELSE nsInbox' = Tail(nsInbox) /\ UNCHANGED nsKept
        /\ nsStray' = NsAstray(m.net, m.connected, item.known.table, item.known.types)
  /\ UNCHANGED <<nsXtra, nsReset, nsReports, nsUp, nsApn, nsUntold>>

(* HandleOsObserverUpdateMsg, which calls updateConnections *)
NsHandleXtra ==
  /\ nsInbox # <<>> /\ Head(nsInbox).kind = "xtra"
  /\ nsXtra' = <<Head(nsInbox).known>>
  /\ nsInbox' = Tail(nsInbox)
  /\ UNCHANGED <<nsKept, nsReset, nsReports, nsGhosts>>

-----------------------------------------------------------------------------
(* Both listeners subscribe when the GNSS adapter is made, before any      *)
(* report                                                                  *)
NsInit ==
  /\ nsHistory = <<>> /\ nsCache = <<>>
  /\ nsAgps = [connected |-> FALSE, apn |-> NsNoApn] /\ nsXtra = <<>>
  /\ nsInbox = <<>> /\ nsReset = 0 /\ nsReports = 0
  /\ nsUp = {} /\ nsApn = NsNoApn /\ nsUntold = {}
  /\ nsStray = [lost |-> {}, stale |-> {}, types |-> FALSE]

NsNext ==
  \/ \E net \in NsNetwork, isUp \in BOOLEAN, apn \in NsApns : NsReport(net, isUp, apn)
  \/ NsResetNetworkInfo
  \/ NsResetOne
  \/ NsResetEnds
  \/ NsHandleNotify
  \/ NsHandleXtra

NsSpec == NsInit /\ [][NsNext]_nsVars

-----------------------------------------------------------------------------
(* Properties *)

NsQuiet == nsInbox = <<>> /\ nsReset = 0

(* When all reports are handled, the table holds each network that is up   *)
(* and no other, but for those that found no room and those that a reset   *)
(* did not find in the reports that are kept.                              *)
NsTableIsTrue ==
  NsQuiet /\ nsHistory # <<>> =>
    ToSet(Last(nsHistory).known.table) = (nsUp \cup nsStray.stale) \ nsStray.lost

(* Then the mask holds the types of the networks that are up, unless one   *)
(* went while another of its type stayed.                                  *)
NsMaskIsTrue ==
  NsQuiet /\ nsHistory # <<>> /\ ~nsStray.types =>
    Last(nsHistory).known.types = NsTypes(nsUp \cup nsStray.stale)

(* And both listeners know it: AGPS connections are opened while a mobile  *)
(* network is up, and the daemons are told the table and the mask.         *)
NsListenersKnow ==
  NsQuiet /\ nsHistory # <<>> =>
    /\ nsXtra = <<Last(nsHistory).known>>
    /\ ~nsStray.types =>
         (nsAgps.connected <=> NsMobile \in NsTypes(nsUp \cup nsStray.stale))

NsMobileIsUp == \E net \in nsUp : NsTypeOf[net] = NsMobile

(* While a mobile network is up, the APN that is kept is the one the       *)
(* framework gave last, whatever other networks came or went since.        *)
(* NativeAgpsHandler's copy need not be it: nsAgps.apn is that of the last *)
(* report, also of a Wi-Fi network, and an APN that comes alone is not     *)
(* copied.                                                                 *)
NsApnIsTrue == NsQuiet /\ NsMobileIsUp => Last(nsHistory).apn = nsApn

(* What is kept of the networks, and what is done with it, follows the     *)
(* framework's reports (core/SystemStatus.h:484-568,                       *)
(* SystemStatus.cpp:1414-1422, 1478-1496, 1669-1679,                       *)
(* NativeAgpsHandler.cpp:53-76).                                           *)
NetworksAreKnown == NsTableIsTrue /\ NsMaskIsTrue /\ NsListenersKnow /\ NsApnIsTrue

=============================================================================
