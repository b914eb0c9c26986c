----------------------------- MODULE MCLocTimer -----------------------------
(* Symmetry for the safety run of LocTimer *)
EXTENDS LocTimer, TLC

Symmetry == Permutations(Timer) \cup Permutations(Delegate)

=============================================================================
