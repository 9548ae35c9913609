------------------------------ MODULE MCQueue ------------------------------
(* Small instances of Queue for TLC. *)
EXTENDS Queue, TLC

Symmetry == Permutations(Slots) \cup Permutations(Dl)
=============================================================================
