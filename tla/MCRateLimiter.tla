----------------------------- MODULE MCRateLimiter -----------------------------
(* A small instance of RateLimiter for TLC: the clock of r3 is one tick ahead. *)
EXTENDS RateLimiter

CONSTANTS r1, r3

SmallSkew == [r \in Replicas |-> IF r = r3 THEN 1 ELSE 0]
================================================================================
