------------------------------ MODULE Idempotency ------------------------------
(***************************************************************************)
(* What surrounds every mutating handler of the API: look the              *)
(* Idempotency-Key up (cache, then table), run the mutation in its own     *)
(* transaction, store the response in another.                             *)
(*                                                                         *)
(* A handler is synchronous, so a replica runs one at a time; between the  *)
(* transactions of one handler the other replicas, the clock and a crash   *)
(* may step in.  A key here stands for organization, method, path and key, *)
(* the identity of a record.                                               *)
(***************************************************************************)
EXTENDS Naturals, FiniteSets

CONSTANTS
    Replicas,
    Keys,
    Payloads,   \* what the request hash tells apart
    EffectIds,  \* identities of what a mutation creates (uuid4)
    MaxWindow,  \* bound: how often the record of a key expires
    Expires,    \* settings.idempotency_ttl_seconds > 0
    Crashes,    \* TRUE: a replica may stop between two transactions
    Null

ASSUME IdempotencyAssumption ==
    /\ MaxWindow \in Nat
    /\ Expires \in BOOLEAN
    /\ Crashes \in BOOLEAN

VARIABLES
    table,      \* table[k]: the idempotency_keys row
    cache,      \* cache[k]: the Valkey entry
    handler,    \* handler[r]: the request replica r is serving
    effects,    \* every mutation ever committed
    window,     \* window[k]: how many records of k have expired
    answer,     \* answer[r]: the last response of replica r
    disturbed,  \* history: the windows <<k, window[k]>> in which handlers of k
                \* overlapped, or one stopped between its mutation and its record
    overtaken   \* history: the replicas whose handler has looked its key up before
                \* another one has stored the record

vars == <<table, cache, handler, effects, window, answer, disturbed, overtaken>>

Effect == [id : EffectIds, key : Keys, payload : Payloads,
           by : Replicas, window : 0..MaxWindow]

\* A stored response is identified by the mutation it describes.
Record == [payload : Payloads, effect : Effect, live : BOOLEAN]
Entry  == [payload : Payloads, effect : Effect]

\* Where a handler is between two transactions.
Steps == {"expired", "mutate", "store", "replace", "insert", "cache"}

Handler == [key : Keys, payload : Payloads, step : Steps, effect : Effect \cup {Null}]

\* A response: its outcome, the mutation it describes and the one this very
\* request committed.
Answer == [key : Keys, payload : Payloads,
           status : {"ok", "replay", "conflict", "error"},
           shows : Effect \cup {Null}, did : Effect \cup {Null}]

ASSUME NullAssumption ==
    Null \notin Effect /\ Null \notin Record /\ Null \notin Entry
        /\ Null \notin Handler /\ Null \notin Answer

TypeOK ==
    /\ table \in [Keys -> Record \cup {Null}]
    /\ cache \in [Keys -> Entry \cup {Null}]
    /\ handler \in [Replicas -> Handler \cup {Null}]
    /\ effects \in SUBSET Effect
    /\ window \in [Keys -> 0..MaxWindow]
    /\ answer \in [Replicas -> Answer \cup {Null}]
    /\ disturbed \in SUBSET (Keys \X (0..MaxWindow))
    /\ overtaken \in SUBSET Replicas

Init ==
    /\ table = [k \in Keys |-> Null]
    /\ cache = [k \in Keys |-> Null]
    /\ handler = [r \in Replicas |-> Null]
    /\ effects = {}
    /\ window = [k \in Keys |-> 0]
    /\ answer = [r \in Replicas |-> Null]
    /\ disturbed = {} /\ overtaken = {}

Live(k) == table[k] # Null /\ table[k].live

Enter(r, k, p, step) ==
    handler' = [handler EXCEPT ![r] =
                   [key |-> k, payload |-> p, step |-> step, effect |-> Null]]

Leave(r) ==
    /\ handler' = [handler EXCEPT ![r] = Null]
    /\ overtaken' = overtaken \ {r}

GoTo(r, step) == handler' = [handler EXCEPT ![r].step = step]

Reply(r, k, p, status, shows, did) ==
    answer' = [answer EXCEPT ![r] = [key |-> k, payload |-> p, status |-> status,
                                     shows |-> shows, did |-> did]]

At(r, step) == handler[r] # Null /\ handler[r].step = step

\* A handler of key k has not yet stored its record.
Busy(k) ==
    \E r \in Replicas : handler[r] # Null /\ handler[r].key = k /\ handler[r].step # "cache"

Disturb(k, w, cond) ==
    disturbed' = IF cond THEN disturbed \cup {<<k, w>>} ELSE disturbed

\* Variants with a plausible bug, for the mutation runs: the stored response is
\* replayed whatever the payload; every record looks expired; a cache miss does not
\* look at the table; the response body is lost on its way to the cache.
SamePayloadAlways(stored, p) == TRUE
FoundNever(k) == FALSE
LookupCacheOnly(r, k, p) ==
    /\ handler[r] = Null
    /\ Enter(r, k, p, "mutate")
    /\ Disturb(k, window[k], Busy(k))
    /\ UNCHANGED <<table, cache, effects, window, answer, overtaken>>
EmptyEntry(h) == [payload |-> h.payload, effect |-> Null]

SamePayload(stored, p) == stored.payload = p

-------------------------------------------------------------------------------
(* get_idempotent_response *)

\* The cache answers.  It is skipped when unreachable, so no other action of the
\* lookup requires a miss.
CacheHit(r, k, p) ==
    /\ handler[r] = Null
    /\ cache[k] # Null
    /\ IF SamePayload(cache[k], p)
         THEN Reply(r, k, p, "replay", cache[k].effect, Null)
         ELSE Reply(r, k, p, "conflict", Null, Null)
    /\ UNCHANGED <<table, cache, handler, effects, window, disturbed, overtaken>>

\* The row the lookup goes by.
Found(k) == Live(k)

LookupHit(r, k, p) ==
    /\ handler[r] = Null
    /\ Found(k)
    /\ IF SamePayload(table[k], p)
         THEN Reply(r, k, p, "replay", table[k].effect, Null)
         ELSE Reply(r, k, p, "conflict", Null, Null)
    /\ UNCHANGED <<table, cache, handler, effects, window, disturbed, overtaken>>

LookupMiss(r, k, p) ==
    /\ handler[r] = Null
    /\ ~Found(k)
    /\ Enter(r, k, p, IF table[k] = Null THEN "mutate" ELSE "expired")
    /\ Disturb(k, window[k], Busy(k))
    /\ UNCHANGED <<table, cache, effects, window, answer, overtaken>>

\* The expired row read by the lookup is deleted by its primary key.
DeleteExpired(r) ==
    /\ At(r, "expired")
    /\ table' = [table EXCEPT ![handler[r].key] = Null]
    /\ GoTo(r, "mutate")
    /\ UNCHANGED <<cache, effects, window, answer, disturbed, overtaken>>

-------------------------------------------------------------------------------
(* The mutation of the handler, in its own transaction *)

Mutate(r) ==
    LET k == handler[r].key
        p == handler[r].payload
    IN  /\ At(r, "mutate")
        /\ \E i \in EffectIds :
             LET e == [id |-> i, key |-> k, payload |-> p, by |-> r, window |-> window[k]]
             IN  /\ \A f \in effects : f.id # i
                 /\ effects' = effects \cup {e}
                 /\ handler' = [handler EXCEPT ![r] =
                        [key |-> k, payload |-> p, step |-> "store", effect |-> e]]
        /\ UNCHANGED <<table, cache, window, answer, disturbed, overtaken>>

\* The mutation raises (not found, conflict): an error, and nothing is stored.
Refuse(r) ==
    /\ At(r, "mutate")
    /\ Reply(r, handler[r].key, handler[r].payload, "error", Null, Null)
    /\ Leave(r)
    /\ UNCHANGED <<table, cache, effects, window, disturbed>>

-------------------------------------------------------------------------------
(* store_idempotent_response *)

\* The handler ends with this status; what it did stays done.
Finish(r, status) ==
    /\ Reply(r, handler[r].key, handler[r].payload, status,
             IF status = "ok" THEN handler[r].effect ELSE Null, handler[r].effect)
    /\ Leave(r)

\* Another request has stored a response meanwhile: the same payload keeps the
\* handler's own response, another payload is a conflict.
StoreFound(r) ==
    LET k == handler[r].key
    IN  /\ At(r, "store")
        /\ Live(k)
        /\ Finish(r, IF SamePayload(table[k], handler[r].payload) THEN "ok" ELSE "conflict")
        /\ UNCHANGED <<table, cache, effects, window, disturbed>>

StoreMissing(r) ==
    LET k == handler[r].key
    IN  /\ At(r, "store")
        /\ ~Live(k)
        /\ GoTo(r, IF table[k] = Null THEN "insert" ELSE "replace")
        /\ UNCHANGED <<table, cache, effects, window, answer, disturbed, overtaken>>

Replace(r) ==
    /\ At(r, "replace")
    /\ table' = [table EXCEPT ![handler[r].key] = Null]
    /\ GoTo(r, "insert")
    /\ UNCHANGED <<cache, effects, window, answer, disturbed, overtaken>>

\* The primary key decides between two inserts; the loser answers 500.
Insert(r) ==
    LET k == handler[r].key
    IN  /\ At(r, "insert")
        /\ IF table[k] = Null
             THEN /\ table' = [table EXCEPT ![k] = [payload |-> handler[r].payload,
                                                    effect  |-> handler[r].effect,
                                                    live    |-> TRUE]]
                  /\ GoTo(r, "cache")
                  /\ overtaken' = overtaken \cup
                        {q \in Replicas \ {r} : handler[q] # Null /\ handler[q].key = k}
                  /\ UNCHANGED answer
             ELSE /\ Finish(r, "error")
                  /\ UNCHANGED table
        /\ UNCHANGED <<cache, effects, window, disturbed>>

\* The response as it is cached.
EntryOf(h) == [payload |-> h.payload, effect |-> h.effect]

\* The entry is written unless the cache is unreachable; without a positive TTL
\* Valkey refuses it.
CacheSet(r) ==
    LET k == handler[r].key
    IN  /\ At(r, "cache")
        /\ \/ /\ Expires
              /\ cache' = [cache EXCEPT ![k] = EntryOf(handler[r])]
           \/ UNCHANGED cache
        /\ Finish(r, "ok")
        /\ UNCHANGED <<table, effects, window, disturbed>>

-------------------------------------------------------------------------------
(* The environment *)

\* The record of a key reaches its time to live.
Expire(k) ==
    /\ Expires
    /\ Live(k)
    /\ window[k] < MaxWindow
    /\ table' = [table EXCEPT ![k].live = FALSE]
    /\ window' = [window EXCEPT ![k] = @ + 1]
    /\ Disturb(k, window[k] + 1, Busy(k))
    /\ UNCHANGED <<cache, handler, effects, answer, overtaken>>

Evict(k) ==
    /\ cache[k] # Null
    /\ cache' = [cache EXCEPT ![k] = Null]
    /\ UNCHANGED <<table, handler, effects, window, answer, disturbed, overtaken>>

\* The process stops: the client gets no answer and may send the request again.
Crash(r) ==
    /\ Crashes
    /\ handler[r] # Null
    /\ Leave(r)
    /\ LET k == handler[r].key
       IN  Disturb(k, window[k], handler[r].step \in {"store", "replace", "insert"})
    /\ UNCHANGED <<table, cache, effects, window, answer>>

\* Any client may send any request, or repeat it, at any time.
Receive(r) ==
    \E k \in Keys, p \in Payloads :
        CacheHit(r, k, p) \/ LookupHit(r, k, p) \/ LookupMiss(r, k, p)

Proceed(r) ==
    \/ DeleteExpired(r) \/ Mutate(r) \/ Refuse(r)
    \/ StoreFound(r) \/ StoreMissing(r) \/ Replace(r) \/ Insert(r) \/ CacheSet(r)

Next ==
    \/ \E r \in Replicas : Receive(r) \/ Proceed(r) \/ Crash(r)
    \/ \E k \in Keys : Expire(k) \/ Evict(k)

Spec == Init /\ [][Next]_vars

-------------------------------------------------------------------------------
(* Properties *)

\* While a record lives a key has at most one effect, on whichever replicas the
\* request is repeated: what clients retry for.  It may have two only if the handlers
\* of two requests overlapped or one stopped before it stored its record.
AtMostOnce ==
    \A e, f \in effects :
        e.key = f.key /\ e.window = f.window /\ <<e.key, e.window>> \notin disturbed => e = f

\* No replica commits two mutations for one key while its record lives.
OncePerReplica ==
    \A e, f \in effects :
        e.key = f.key /\ e.window = f.window /\ e.by = f.by => e = f

\* A response describes a mutation that was committed for this key and this
\* payload, whoever committed it.
AnswersMatchRequest ==
    \A r \in Replicas :
        answer[r] # Null /\ answer[r].shows # Null =>
            /\ answer[r].shows \in effects
            /\ answer[r].shows.key = answer[r].key
            /\ answer[r].shows.payload = answer[r].payload

\* A request that has committed its mutation is answered with it, never 409 or 500:
\* whatever expires, is deleted late, or lost by crashes and the cache, unless another
\* request of its key has stored a record since it looked the key up.
FailureMeansNoEffect ==
    [][\A r \in Replicas \ overtaken :
         answer'[r] # answer[r] /\ answer'[r].did # Null => answer'[r].status = "ok"]_vars
===============================================================================
