---------------------------- MODULE MCOsObserver ----------------------------
(* Two clients, two items and two values, which are all alike *)
EXTENDS OsObserver, TLC

Symmetry == Permutations(Client) \cup Permutations(Item) \cup Permutations(Value)

=============================================================================
