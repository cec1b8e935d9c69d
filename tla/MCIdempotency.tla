---------------------------- MODULE MCIdempotency ----------------------------
(* Small instances of Idempotency for TLC. *)
EXTENDS Idempotency, TLC

Symmetry == Permutations(Replicas) \cup Permutations(EffectIds) \cup Permutations(Payloads)
==============================================================================
