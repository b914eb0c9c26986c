----------------------------- MODULE OsObserver -----------------------------
(***************************************************************************)
(* SystemStatusOsObserver (core/SystemStatusOsObserver.cpp): clients       *)
(* subscribe to data items of the platform, such as the network or the     *)
(* battery.  Two maps keep the same relation, from clients to items and    *)
(* from items to clients (utils/LocUnorderedSetMap.h); the framework is    *)
(* subscribed to an item while some client is, and the values it reports   *)
(* are cached and passed on.                                               *)
(*                                                                         *)
(* Requests and reports are sent to a message thread, which handles them   *)
(* one after the other.  SystemStatus's history of an item and the cache   *)
(* hold the same value, as both are written in updateCache only.           *)
(***************************************************************************)
EXTENDS Naturals, Sequences

CONSTANTS
  Client,        \* IDataItemObservers
  Item,          \* data items
  Value,         \* what is reported of them
  None,          \* nothing is
  UpdatesAgain,  \* clients may update what they have, not only begin with it
  MaxQueue,      \* bound: messages under way
  MaxSent        \* bound: messages in all

ASSUME NoneAssumption == None \notin Value
ASSUME OoBoundsAssumption ==
  UpdatesAgain \in BOOLEAN /\ MaxQueue \in Nat /\ MaxSent \in Nat

VARIABLES
  clientToItems,  \* mClientToDataItems
  itemToClients,  \* mDataItemToClients
  cache,          \* mDataItemCache
  connected,      \* mSubscriptionObj is set
  inbox,          \* what the message thread has not handled yet
  framework,      \* items the framework reports
  polled,         \* items the framework was asked for once
  told,           \* the last value each client was told of each item
  wants,          \* what each client has asked for, once all is handled
  started,        \* clients that have sent something
  sent            \* messages sent so far

vars == <<clientToItems, itemToClients, cache, connected, inbox, framework,
          polled, told, wants, started, sent>>

-----------------------------------------------------------------------------
(* Types *)

Report == [Item -> Value \cup {None}]

Message ==
  [kind: {"subscribe", "request", "update", "unsubscribe"}, client: Client,
   items: SUBSET Item]
  \cup [kind: {"unsubscribeAll"}, client: Client]
  \cup [kind: {"notify"}, news: Report]
  \cup [kind: {"connect"}]

TypeOK ==
  /\ clientToItems \in [Client -> SUBSET Item]
  /\ itemToClients \in [Item -> SUBSET Client]
  /\ cache \in [Item -> Value \cup {None}]
  /\ connected \in BOOLEAN
  /\ inbox \in Seq(Message)
  /\ framework \in SUBSET Item
  /\ polled \in SUBSET Item
  /\ told \in [Client -> [Item -> Value \cup {None}]]
  /\ wants \in [Client -> SUBSET Item]
  /\ started \in SUBSET Client
  /\ sent \in Nat

-----------------------------------------------------------------------------
(* LocUnorderedSetMap: an entry with no values is no entry *)

(* Mutant: keys and values mixed up *)
MutantAdded(map, keys, val) ==
  [k \in DOMAIN map |-> IF k \in keys THEN map[k] \cup keys ELSE map[k]]

(* add, to each of the keys, one value *)
Added(map, keys, val) ==
  [k \in DOMAIN map |-> IF k \in keys THEN map[k] \cup {val} ELSE map[k]]

(* trimOrRemove, from each of the keys, one value *)
Trimmed(map, keys, val) ==
  [k \in DOMAIN map |-> IF k \in keys THEN map[k] \ {val} ELSE map[k]]

(* Mutant: an entry is taken for gone when others still have the item *)
MutantGoneKeys(map, keys, val) == {k \in keys : val \in map[k]}

(* The keys that add and trimOrRemove report as new and gone *)
NewKeys(map, keys) == {k \in keys : map[k] = {}}
GoneKeys(map, keys, val) == {k \in keys : map[k] # {} /\ map[k] \subseteq {val}}

Keys(map) == {k \in DOMAIN map : map[k] # {}}

-----------------------------------------------------------------------------
(* What the clients and the framework send *)

Send(message) ==
  /\ Len(inbox) < MaxQueue
  /\ sent < MaxSent
  /\ sent' = sent + 1
  /\ inbox' = Append(inbox, message)
  /\ UNCHANGED <<clientToItems, itemToClients, cache, connected, framework,
                 polled, told>>

SendItems(kind, c, items) ==
  /\ items # {}
  /\ Send([kind |-> kind, client |-> c, items |-> items])
  /\ started' = started \cup {c}

Subscribe(c, items) ==
  /\ SendItems("subscribe", c, items)
  /\ wants' = [wants EXCEPT ![c] = @ \cup items]

RequestData(c, items) ==
  /\ SendItems("request", c, items)
  /\ wants' = [wants EXCEPT ![c] = @ \cup items]

UpdateSubscription(c, items) ==
  /\ UpdatesAgain \/ c \notin started
  /\ SendItems("update", c, items)
  /\ wants' = [wants EXCEPT ![c] = items]

Unsubscribe(c, items) ==
  /\ SendItems("unsubscribe", c, items)
  /\ wants' = [wants EXCEPT ![c] = @ \ items]

UnsubscribeAll(c) ==
  /\ Send([kind |-> "unsubscribeAll", client |-> c])
  /\ wants' = [wants EXCEPT ![c] = {}]
  /\ started' = started \cup {c}

(* Also by SystemStatus itself, of items the framework does not report *)
Notify(news) ==
  /\ \E i \in Item : news[i] # None
  /\ Send([kind |-> "notify", news |-> news])
  /\ UNCHANGED <<wants, started>>

SetSubscriptionObj ==
  /\ Send([kind |-> "connect"])
  /\ UNCHANGED <<wants, started>>

-----------------------------------------------------------------------------
(* The message thread *)

Receive(kind) ==
  /\ inbox # <<>>
  /\ Head(inbox).kind = kind
  /\ inbox' = Tail(inbox)
  /\ UNCHANGED <<wants, started, sent>>

(* sendCachedDataItems *)
SendCachedDataItems(c, items) ==
  told' = [told EXCEPT ![c] = [i \in Item |->
             IF i \in items /\ cache[i] # None THEN cache[i] ELSE told[c][i]]]

(* What the framework is asked for, and told to stop, if it is there *)
Ask(watch, poll, stop) ==
  /\ framework' = IF connected THEN (framework \cup watch) \ stop ELSE framework
  /\ polled' = IF connected THEN (polled \cup poll) \ stop ELSE polled

(* HandleSubscribeReq, for subscribe and requestData *)
HandleSubscribe(kind) ==
  LET c == Head(inbox).client
      items == Head(inbox).items
      new == NewKeys(itemToClients, items)
  IN /\ Receive(kind)
     /\ itemToClients' = Added(itemToClients, items, c)
     /\ clientToItems' = [clientToItems EXCEPT ![c] = @ \cup items]
     /\ SendCachedDataItems(c, items)
     /\ IF kind = "request" THEN Ask({}, new, {}) ELSE Ask(new, {}, {})
     /\ UNCHANGED <<cache, connected>>

(* What removeAndReturnInterset may find common to two sets: its loop steps *)
(* on from the element it has just erased, so that it may end after any    *)
Intersets(s1, s2) ==
  {common \in SUBSET (s1 \cap s2) : common = {} => s1 \cap s2 = {}}

(* HandleUpdateSubscriptionReq: LocUnorderedSetMap::update returns what the *)
(* old and the new items have in common, and leaves the others in the      *)
(* message's set                                                           *)
HandleUpdateSubscription ==
  LET c == Head(inbox).client
      items == Head(inbox).items
  IN /\ Receive("update")
     /\ \E common \in Intersets(clientToItems[c], items) :
          LET trimmed == Trimmed(itemToClients, common, c)
              rest == items \ common
          IN /\ itemToClients' = Added(trimmed, rest, c)
             /\ SendCachedDataItems(c, rest)
             /\ Ask(NewKeys(trimmed, rest), {}, GoneKeys(itemToClients, common, c))
     /\ clientToItems' = [clientToItems EXCEPT ![c] = items]
     /\ UNCHANGED <<cache, connected>>

(* Mutant: the first map is trimmed before the second is asked what to trim *)
MutantDrop(c, items) ==
  LET left == clientToItems[c] \ items
  IN /\ clientToItems' = [clientToItems EXCEPT ![c] = left]
     /\ itemToClients' = Trimmed(itemToClients, left \cap items, c)
     /\ Ask({}, {}, GoneKeys(itemToClients, left \cap items, c))
     /\ UNCHANGED <<cache, connected, told>>

(* HandleUnsubscribeReq and HandleUnsubscribeAllReq, of the items that the *)
(* client has of those                                                     *)
Drop(c, items) ==
  LET dropped == clientToItems[c] \cap items
  IN /\ clientToItems' = [clientToItems EXCEPT ![c] = @ \ items]
     /\ itemToClients' = Trimmed(itemToClients, dropped, c)
     /\ Ask({}, {}, GoneKeys(itemToClients, dropped, c))
     /\ UNCHANGED <<cache, connected, told>>

HandleUnsubscribe == Receive("unsubscribe") /\ Drop(Head(inbox).client, Head(inbox).items)

HandleUnsubscribeAll == Receive("unsubscribeAll") /\ Drop(Head(inbox).client, Item)

(* Mutant: only the clients of all items that changed are told *)
MutantHandleNotifyAll ==
  LET news == Head(inbox).news
      changed == {i \in Item : news[i] \notin {None, cache[i]}}
      clients == {c \in Client : \A i \in changed : c \in itemToClients[i]}
  IN /\ Receive("notify")
     /\ cache' = [i \in Item |-> IF i \in changed THEN news[i] ELSE cache[i]]
     /\ told' = [c \in Client |-> [i \in Item |->
                   IF c \in clients /\ i \in clientToItems[c] \cap changed
                   THEN news[i] ELSE told[c][i]]]
     /\ UNCHANGED <<clientToItems, itemToClients, connected, framework, polled>>

(* Mutant: every client is told everything that changed *)
MutantHandleNotify ==
  LET news == Head(inbox).news
      changed == {i \in Item : news[i] \notin {None, cache[i]}}
      clients == UNION {itemToClients[i] : i \in changed}
  IN /\ Receive("notify")
     /\ cache' = [i \in Item |-> IF i \in changed THEN news[i] ELSE cache[i]]
     /\ told' = [c \in Client |-> [i \in Item |->
                   IF c \in clients /\ i \in changed
                   THEN news[i] ELSE told[c][i]]]
     /\ UNCHANGED <<clientToItems, itemToClients, connected, framework, polled>>

(* HandleNotify: the clients of the items that changed, each with those of *)
(* its own items                                                           *)
HandleNotify ==
  LET news == Head(inbox).news
      changed == {i \in Item : news[i] \notin {None, cache[i]}}
      clients == UNION {itemToClients[i] : i \in changed}
  IN /\ Receive("notify")
     /\ cache' = [i \in Item |-> IF i \in changed THEN news[i] ELSE cache[i]]
     /\ told' = [c \in Client |-> [i \in Item |->
                   IF c \in clients /\ i \in clientToItems[c] \cap changed
                   THEN news[i] ELSE told[c][i]]]
     /\ UNCHANGED <<clientToItems, itemToClients, connected, framework, polled>>

(* SetSubsObj *)
HandleConnect ==
  /\ Receive("connect")
  /\ connected' = TRUE
  /\ framework' = framework \cup Keys(itemToClients)
  /\ polled' = polled \cup Keys(itemToClients)
  /\ UNCHANGED <<clientToItems, itemToClients, cache, told>>

-----------------------------------------------------------------------------
(* The specification *)

Init ==
  /\ clientToItems = [c \in Client |-> {}]
  /\ itemToClients = [i \in Item |-> {}]
  /\ cache = [i \in Item |-> None]
  /\ connected = FALSE
  /\ inbox = <<>>
  /\ framework = {}
  /\ polled = {}
  /\ told = [c \in Client |-> [i \in Item |-> None]]
  /\ wants = [c \in Client |-> {}]
  /\ started = {}
  /\ sent = 0

ClientNext ==
  \/ \E c \in Client, items \in SUBSET Item : Subscribe(c, items)
  \/ \E c \in Client, items \in SUBSET Item : RequestData(c, items)
  \/ \E c \in Client, items \in SUBSET Item : UpdateSubscription(c, items)
  \/ \E c \in Client, items \in SUBSET Item : Unsubscribe(c, items)
  \/ \E c \in Client : UnsubscribeAll(c)

FrameworkNext ==
  \/ \E news \in Report : Notify(news)
  \/ SetSubscriptionObj

MsgTaskNext ==
  \/ \E kind \in {"subscribe", "request"} : HandleSubscribe(kind)
  \/ HandleUpdateSubscription
  \/ HandleUnsubscribe
  \/ HandleUnsubscribeAll
  \/ HandleNotify
  \/ HandleConnect

Next == ClientNext \/ FrameworkNext \/ MsgTaskNext

Spec == Init /\ [][Next]_vars

-----------------------------------------------------------------------------
(* Properties *)

(* The two maps keep the same relation, so that a report reaches exactly   *)
(* the clients that have the item (HandleNotify takes the clients from one *)
(* and the items from the other, SystemStatusOsObserver.cpp:309-330).      *)
MapsMatch ==
  \A c \in Client, i \in Item : i \in clientToItems[c] <=> c \in itemToClients[i]

(* Once the framework is there it is asked, in one way or the other, for   *)
(* every item that some client has, and for no others                      *)
(* (SystemStatusOsObserver.cpp:66-80, 96-115, 210-222).                    *)
FrameworkIsAsked ==
  /\ connected => framework \cup polled = Keys(itemToClients)
  /\ ~connected => framework \cup polled = {}

(* With nothing under way every client was told the latest value of each   *)
(* item that it asked for, whatever was requested, reported and dropped in *)
(* which order (IDataItemSubscription.h:69, 86 and 112).                   *)
WantedIsHeard ==
  inbox = <<>> =>
    \A c \in Client : \A i \in wants[c] : told[c][i] = cache[i]

(* The observer with its two maps and its queue implements one relation of *)
(* clients and items whose members hear of every change at once.           *)
Subs == {p \in Client \X Item : p[2] \in clientToItems[p[1]]}

AbstractDataItems == INSTANCE DataItems WITH subs <- Subs, latest <- cache

ImplementsDataItems == AbstractDataItems!Spec

=============================================================================
