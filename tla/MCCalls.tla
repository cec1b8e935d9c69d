------------------------------- MODULE MCCalls -------------------------------
(* Small instances of Calls for TLC. *)
EXTENDS Calls, TLC

Symmetry == Permutations(Replicas) \cup Permutations(Texts)
==============================================================================
