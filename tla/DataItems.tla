----------------------------- MODULE DataItems -----------------------------
(***************************************************************************)
(* What SystemStatusOsObserver promises its clients                        *)
(* (core/observer/IDataItemSubscription.h): there is one relation of       *)
(* clients and the data items they subscribe to, and whoever is in it has  *)
(* been told the latest value of the item.                                 *)
(***************************************************************************)
CONSTANTS Client, Item, Value, None

VARIABLES
  subs,    \* the subscriptions, pairs of a client and an item
  latest,  \* the latest value of each item
  told     \* the last value each client was told of each item

vars == <<subs, latest, told>>

(* Clients cs are told what is known of items, in state l of the values *)
ToldOf(cs, items, l) ==
  [c \in Client |-> [i \in Item |->
     IF c \in cs /\ i \in items /\ l[i] # None THEN l[i] ELSE told[c][i]]]

Init ==
  /\ subs = {}
  /\ latest = [i \in Item |-> None]
  /\ told = [c \in Client |-> [i \in Item |-> None]]

Subscribe(c, items) ==
  /\ subs' = subs \cup ({c} \X items)
  /\ told' = ToldOf({c}, items, latest)
  /\ UNCHANGED latest

Unsubscribe(c, items) ==
  /\ subs' = subs \ ({c} \X items)
  /\ UNCHANGED <<latest, told>>

(* The subscribers of the items that changed, and no others, are told *)
Report(news) ==
  LET new == {i \in Item : news[i] \notin {None, latest[i]}} IN
  /\ latest' = [i \in Item |-> IF i \in new THEN news[i] ELSE latest[i]]
  /\ told' = [c \in Client |-> [i \in Item |->
                IF i \in new /\ <<c, i>> \in subs THEN news[i] ELSE told[c][i]]]
  /\ UNCHANGED subs

Next ==
  \/ \E c \in Client, items \in SUBSET Item : Subscribe(c, items)
  \/ \E c \in Client, items \in SUBSET Item : Unsubscribe(c, items)
  \/ \E news \in [Item -> Value \cup {None}] : Report(news)

Spec == Init /\ [][Next]_vars

=============================================================================
