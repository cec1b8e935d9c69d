---------------------------- MODULE DeliveryLedger ----------------------------
(***************************************************************************)
(* What the delivery of webhooks promises, however it is organised: a      *)
(* ledger with an entry for each delivery.  A delivery is posted while its *)
(* entry is open; a recording counts one attempt of each delivery in it,   *)
(* and closes an entry as delivered or, at the last attempt, as failed.    *)
(* Posts may go unrecorded, but nothing is recorded that was not posted,   *)
(* and a closed entry is closed for good.                                  *)
(***************************************************************************)
EXTENDS Naturals

CONSTANTS Deliveries, MaxAttempts

VARIABLES
    ledger,     \* ledger[d]: the state of the entry and the attempts recorded
    posts,      \* posts[d]: posts sent, counted up to MaxAttempts + 1
    accepted    \* the deliveries accepted by their receivers

vars == <<ledger, posts, accepted>>

Init ==
    /\ ledger = [d \in Deliveries |-> [state |-> "open", attempts |-> 0]]
    /\ posts = [d \in Deliveries |-> 0]
    /\ accepted = {}

Open(d) == ledger[d].state = "open"

\* The receiver accepts, or not.
Post(d) ==
    /\ Open(d)
    /\ posts' = [posts EXCEPT ![d] = IF @ > MaxAttempts THEN @ ELSE @ + 1]
    /\ accepted' \in {accepted, accepted \cup {d}}
    /\ UNCHANGED ledger

\* Of the deliveries D, whose attempts are recorded together, S are delivered.
Record(D, S) ==
    /\ \A d \in D : Open(d) /\ ledger[d].attempts < posts[d]
    /\ S \subseteq D \cap accepted
    /\ ledger' = [d \in Deliveries |->
                     IF d \notin D THEN ledger[d]
                     ELSE [state |-> IF d \in S THEN "delivered"
                                     ELSE IF ledger[d].attempts + 1 = MaxAttempts
                                       THEN "failed" ELSE "open",
                           attempts |-> ledger[d].attempts + 1]]
    /\ UNCHANGED <<posts, accepted>>

Next ==
    \/ \E d \in Deliveries : Post(d)
    \/ \E D \in SUBSET Deliveries : \E S \in SUBSET D : Record(D, S)

Spec == Init /\ [][Next]_vars

\* What is recorded as delivered was accepted, what is recorded as failed was tried
\* MaxAttempts times, and every attempt recorded had a post of its own.
Truthful ==
    \A d \in Deliveries :
        /\ ledger[d].attempts <= posts[d] /\ ledger[d].attempts <= MaxAttempts
        /\ ledger[d].state = "delivered" => d \in accepted
        /\ ledger[d].state # "delivered" =>
              (ledger[d].state = "failed" <=> ledger[d].attempts = MaxAttempts)

ClosedKept ==
    \A d \in Deliveries :
        ~Open(d) => ledger'[d] = ledger[d] /\ posts'[d] = posts[d]

\* A delivery that is delivered or failed stays so and is never posted again.
ClosedForGood == [][ClosedKept]_vars
===============================================================================
