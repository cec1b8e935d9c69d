------------------------------- MODULE MCTenancy -------------------------------
(* A small instance of Tenancy for TLC. *)
EXTENDS Tenancy, TLC

CONSTANTS acme, acme2, acme3, acme22, acme23

\* "acme-2" is also a name of its own; the default organization is one of them.
SmallBases == {acme, acme2}
SmallSlugs == {acme, acme2, acme3, acme22, acme23}
SmallNumbered == acme :> <<acme, acme2, acme3>> @@ acme2 :> <<acme2, acme22, acme23>>
================================================================================
