------------------------------- MODULE RateLimiter -------------------------------
(***************************************************************************)
(* The sliding window that RateLimitMiddleware keeps in Valkey for one     *)
(* address and path (every pair has a window, and a limit, of its own):    *)
(* rate_limit_check stamps the request with the clock of its replica, then *)
(* sends one transaction that drops the old stamps, adds its own, counts   *)
(* them and renews the time to live of the window.                         *)
(*                                                                         *)
(* The clocks of the replicas differ, the transaction of an earlier stamp  *)
(* may come later, and Valkey may be out of reach or lose its data.  A     *)
(* process that finds it out of reach in its first call lets that request  *)
(* through uncounted.                                                      *)
(***************************************************************************)
EXTENDS Integers, FiniteSets

CONSTANTS
    Replicas,    \* API processes; one that starts again is another one
    Limit,       \* settings.rate_limit_strict or rate_limit_default, by the path
    Window,      \* 60 seconds
    Skew,        \* Skew[r]: how much the clock of r is ahead of the slowest one
    MaxSkew,
    MaxDelay,    \* the time a transaction takes at most, by the socket timeout
    MaxTime, MaxRequests,     \* bounds: the time and the requests modelled
    Null

ASSUME RateAssumption ==
    /\ Limit \in Nat \ {0} /\ Window \in Nat \ {0}
    /\ MaxSkew \in Nat /\ MaxDelay \in Nat /\ MaxTime \in Nat /\ MaxRequests \in Nat
    /\ Skew \in [Replicas -> 0 .. MaxSkew]

\* A member of the window; no two requests have the same floating point time.
Stamp == [at : 0 .. MaxTime, by : Replicas]

ASSUME NullAssumption == Null \notin Stamp

VARIABLES
    now,      \* the true time
    clients,  \* the processes that hold a client of Valkey (_client)
    stamp,    \* stamp[r]: the request whose transaction r awaits
    entries,  \* the members of the sorted set
    expires,  \* when Valkey drops the set
    asked,    \* history: the requests whose transaction was executed
    refused,  \* history: the ones answered 429
    passed,   \* history: the requests let through since Valkey last lost its data
    uncounted \* history: the requests let through without a transaction

vars == <<now, clients, stamp, entries, expires, asked, refused, passed, uncounted>>

TypeOK ==
    /\ now \in 0 .. MaxTime
    /\ clients \in SUBSET Replicas
    /\ stamp \in [Replicas -> Stamp \cup {Null}]
    /\ entries \in SUBSET Stamp
    /\ expires \in 0 .. MaxTime + Window
    /\ asked \in SUBSET Stamp /\ refused \in SUBSET asked
    /\ uncounted \in SUBSET Stamp /\ passed \in SUBSET (asked \cup uncounted)
    \* what awaits its transaction is not old
    /\ \A r \in Replicas : stamp[r] # Null =>
          stamp[r].by = r /\ stamp[r].at <= now /\ now <= stamp[r].at + MaxDelay
    /\ entries \subseteq asked
    /\ \A m \in asked : m.at <= now

Init ==
    /\ now = 0
    /\ clients = {} /\ stamp = [r \in Replicas |-> Null]
    /\ entries = {} /\ expires = 0
    /\ asked = {} /\ refused = {} /\ passed = {} /\ uncounted = {}

Score(m) == m.at + Skew[m.by]

-------------------------------------------------------------------------------
(* Variants with a plausible bug, for the mutation runs. *)

\* A stamp is never dropped; the time to live is that of the first request, or twice
\* as long.
RecentAll(m, members) == members
RenewedOnce == IF entries = {} THEN now + Window ELSE expires
RenewedShort == now + Window + Window

-------------------------------------------------------------------------------
(* get_client and rate_limit_check *)

Request(r) == [at |-> now, by |-> r]

\* Process r is free for a request.
Free(r) ==
    /\ stamp[r] = Null /\ Request(r) \notin asked \cup uncounted
    /\ Cardinality(asked \cup uncounted) < MaxRequests

\* There is a client, or the ping of a new one is answered.
Arrive(r) ==
    /\ Free(r)
    /\ clients' = clients \cup {r}
    /\ stamp' = [stamp EXCEPT ![r] = Request(r)]
    /\ UNCHANGED <<now, entries, expires, asked, refused, passed, uncounted>>

\* The client is kept before its ping fails, so that only the first call gives up the
\* limit; it may also be one of another window, or of the cache.
Keeping(r) == clients \cup {r}

\* get_client answers None: the request is let through and counted nowhere.
PassUncounted(r) ==
    /\ Free(r) /\ r \notin clients
    /\ clients' = Keeping(r)
    /\ passed' = passed \cup {Request(r)} /\ uncounted' = uncounted \cup {Request(r)}
    /\ UNCHANGED <<now, stamp, entries, expires, asked, refused>>

Present == IF now < expires THEN entries ELSE {}

\* What zremrangebyscore leaves.
Recent(m, members) == {e \in members : Score(e) > Score(m) - Window}

Renewed == now + Window

Allows(members) == Cardinality(members) < Limit

\* The transaction is executed.  Its answer may be lost: the client repeats it, with the
\* same stamp, or gives up.
Execute(r) ==
    LET m       == stamp[r]
        members == Recent(m, Present) \cup {m}
        Done    == stamp' = [stamp EXCEPT ![r] = Null]
    IN  /\ m # Null
        /\ entries' = members
        /\ expires' = Renewed
        /\ asked' = asked \cup {m}
        /\ \/ Allows(members) /\ Done /\ passed' = passed \cup {m} /\ UNCHANGED refused
           \/ ~Allows(members) /\ Done /\ refused' = refused \cup {m} /\ UNCHANGED passed
           \/ UNCHANGED <<stamp, refused, passed>>
        /\ UNCHANGED <<now, clients, uncounted>>

\* Valkey is out of reach, and the exception of the transaction is a 500; or the
\* process stops.
Fail(r) ==
    /\ stamp[r] # Null
    /\ stamp' = [stamp EXCEPT ![r] = Null]
    /\ UNCHANGED <<now, clients, entries, expires, asked, refused, passed, uncounted>>

-------------------------------------------------------------------------------
(* Valkey and time *)

\* Valkey comes back without its data.
Lose ==
    /\ entries' = {} /\ passed' = {}
    /\ UNCHANGED <<now, clients, stamp, expires, asked, refused, uncounted>>

Tick ==
    /\ now < MaxTime
    /\ \A r \in Replicas : stamp[r] # Null => now < stamp[r].at + MaxDelay
    /\ now' = now + 1
    /\ UNCHANGED <<clients, stamp, entries, expires, asked, refused, passed, uncounted>>

Next ==
    \/ \E r \in Replicas : Arrive(r) \/ PassUncounted(r) \/ Execute(r) \/ Fail(r)
    \/ Lose \/ Tick

Spec == Init /\ [][Next]_vars

-------------------------------------------------------------------------------
(* Properties *)

\* Unless Valkey has lost its data, fewer than Limit requests pass in any stretch of
\* time that is shorter than the window by the skew and the delay, on whichever
\* replicas, beside the uncounted ones; of these a process lets one through at most.
WindowBound ==
    /\ \A t \in 0 .. MaxTime :
          Cardinality({m \in passed \ uncounted :
                          t <= m.at /\ m.at < t + Window - MaxSkew - MaxDelay}) < Limit
    /\ \A m, n \in uncounted : m.by = n.by => m = n

\* A refused request follows, within a window and the skew, Limit - 1 others of its client:
\* who has waited that long is not refused.
RefusedForCause ==
    \A u \in refused :
        Cardinality({m \in asked \ {u} : u.at - Window - MaxSkew < m.at
                                          /\ m.at <= u.at + MaxDelay}) >= Limit - 1
================================================================================
