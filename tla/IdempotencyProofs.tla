--------------------------- MODULE IdempotencyProofs ---------------------------
(***************************************************************************)
(* Theorems about Idempotency.                                             *)
(*                                                                         *)
(* What a response says is right whatever happens: crashes, expiry, any    *)
(* number of replicas.  How often a mutation is committed is not: a window *)
(* holds one effect as long as no other request of the key overlaps the    *)
(* one that commits it and its handler does not stop before it stores its  *)
(* record.  When neither process stops nor record expires, each replica    *)
(* still commits at most one.  And a request that has committed is         *)
(* answered with it unless another one has stored a record since its       *)
(* lookup: nothing else makes a row that its handler found free occupied.  *)
(***************************************************************************)
EXTENDS Idempotency, TLAPS

Past == {"store", "replace", "insert", "cache"}

-------------------------------------------------------------------------------
(* Types, and what is stored *)

\* A handler past its mutation holds what it committed.
HandlersHold ==
    \A r \in Replicas : handler[r] # Null =>
        /\ handler[r].step \in Past => handler[r].effect # Null
        /\ handler[r].effect # Null =>
              /\ handler[r].effect \in effects
              /\ handler[r].effect.key = handler[r].key
              /\ handler[r].effect.payload = handler[r].payload

\* A stored response describes a mutation committed for its key and payload.
RecordsHold ==
    \A k \in Keys :
        /\ table[k] # Null => /\ table[k].effect \in effects
                              /\ table[k].effect.key = k
                              /\ table[k].effect.payload = table[k].payload
        /\ cache[k] # Null => /\ cache[k].effect \in effects
                              /\ cache[k].effect.key = k
                              /\ cache[k].effect.payload = cache[k].payload

TypeInv == TypeOK /\ HandlersHold /\ RecordsHold /\ AnswersMatchRequest

LEMMA TypeInit == Init => TypeInv
<1> SUFFICES ASSUME Init
             PROVE  TypeInv
    OBVIOUS
<1>1. TypeOK
    <2>1. 0 \in 0..MaxWindow
        BY IdempotencyAssumption
    <2>2. QED
        BY <2>1 DEF Init, TypeOK
<1>2. HandlersHold /\ RecordsHold /\ AnswersMatchRequest
    BY DEF Init, HandlersHold, RecordsHold, AnswersMatchRequest
<1>3. QED
    BY <1>1, <1>2 DEF TypeInv

\* A response a handler or a record gives keeps the answers right.
LEMMA ReplyStep ==
    ASSUME TypeInv, NEW r \in Replicas, NEW k \in Keys, NEW p \in Payloads,
           NEW status \in {"ok", "replay", "conflict", "error"},
           NEW shows \in Effect \cup {Null}, NEW did \in Effect \cup {Null},
           Reply(r, k, p, status, shows, did), effects' = effects,
           shows # Null => shows \in effects /\ shows.key = k /\ shows.payload = p
    PROVE  answer' \in [Replicas -> Answer \cup {Null}] /\ AnswersMatchRequest'
<1> DEFINE a == [key |-> k, payload |-> p, status |-> status,
                 shows |-> shows, did |-> did]
<1>1. a \in Answer /\ answer' = [answer EXCEPT ![r] = a]
    BY DEF Reply, Answer
<1>2. answer' \in [Replicas -> Answer \cup {Null}]
    BY <1>1 DEF TypeInv, TypeOK
<1>3. ASSUME NEW q \in Replicas, answer'[q] # Null, answer'[q].shows # Null
      PROVE  /\ answer'[q].shows \in effects'
             /\ answer'[q].shows.key = answer'[q].key
             /\ answer'[q].shows.payload = answer'[q].payload
    <2>1. CASE q = r
        BY <1>1, <1>3, <2>1 DEF TypeInv, TypeOK
    <2>2. CASE q # r
        BY <1>1, <1>3, <2>2 DEF TypeInv, TypeOK, AnswersMatchRequest
    <2>3. QED
        BY <2>1, <2>2
<1>4. QED
    BY <1>2, <1>3 DEF AnswersMatchRequest

\* The history only grows, by a window of a key.
LEMMA DisturbStep ==
    ASSUME TypeOK, NEW k \in Keys, NEW w \in 0..MaxWindow, NEW cond, Disturb(k, w, cond)
    PROVE  disturbed' \in SUBSET (Keys \X (0..MaxWindow)) /\ disturbed \subseteq disturbed'
BY DEF Disturb, TypeOK

LEMMA TypeStep == TypeInv /\ [Next]_vars => TypeInv'
<1> SUFFICES ASSUME TypeInv, [Next]_vars
             PROVE  TypeInv'
    OBVIOUS
<1>0. TypeOK /\ HandlersHold /\ RecordsHold /\ AnswersMatchRequest
    BY DEF TypeInv
<1>1. ASSUME NEW r \in Replicas, NEW k \in Keys, NEW p \in Payloads, CacheHit(r, k, p)
      PROVE  TypeInv'
    <2>1. cache[k] \in Entry /\ cache[k].effect \in effects \cap Effect
        BY <1>0, <1>1 DEF CacheHit, TypeOK, Entry, RecordsHold
    <2>2. SamePayload(cache[k], p) =>
            cache[k].effect.key = k /\ cache[k].effect.payload = p
        BY <1>0, <1>1 DEF CacheHit, SamePayload, RecordsHold
    <2>3. answer' \in [Replicas -> Answer \cup {Null}] /\ AnswersMatchRequest'
        BY <1>1, <2>1, <2>2, ReplyStep DEF CacheHit
    <2>4. QED
        BY <1>0, <1>1, <2>3 DEF CacheHit, TypeInv, TypeOK, HandlersHold, RecordsHold
<1>2. ASSUME NEW r \in Replicas, NEW k \in Keys, NEW p \in Payloads, LookupHit(r, k, p)
      PROVE  TypeInv'
    <2>1. table[k] \in Record /\ table[k].effect \in effects \cap Effect
        BY <1>0, <1>2 DEF LookupHit, Found, Live, TypeOK, Record, RecordsHold
    <2>2. SamePayload(table[k], p) =>
            table[k].effect.key = k /\ table[k].effect.payload = p
        BY <1>0, <1>2 DEF LookupHit, Found, Live, SamePayload, RecordsHold
    <2>3. answer' \in [Replicas -> Answer \cup {Null}] /\ AnswersMatchRequest'
        BY <1>2, <2>1, <2>2, ReplyStep DEF LookupHit
    <2>4. QED
        BY <1>0, <1>2, <2>3 DEF LookupHit, TypeInv, TypeOK, HandlersHold, RecordsHold
<1>3. ASSUME NEW r \in Replicas, NEW k \in Keys, NEW p \in Payloads, LookupMiss(r, k, p)
      PROVE  TypeInv'
    <2> DEFINE step == IF table[k] = Null THEN "mutate" ELSE "expired"
               h == [key |-> k, payload |-> p, step |-> step, effect |-> Null]
    <2>1. h \in Handler /\ step \notin Past
        BY DEF Handler, Steps, Past
    <2>2. handler' = [handler EXCEPT ![r] = h]
          /\ UNCHANGED <<table, cache, effects, window, answer, overtaken>>
        BY <1>3 DEF LookupMiss, Enter
    <2>3. disturbed' \in SUBSET (Keys \X (0..MaxWindow))
        BY <1>0, <1>3, DisturbStep DEF LookupMiss, TypeOK
    <2>4. QED
        BY <1>0, <2>1, <2>2, <2>3
        DEF TypeInv, TypeOK, HandlersHold, RecordsHold, AnswersMatchRequest
<1>4. ASSUME NEW r \in Replicas, NEW step \in Steps, handler[r] # Null, GoTo(r, step),
             step \in Past => handler[r].step \in Past,
             UNCHANGED <<cache, effects, window, answer, disturbed, overtaken>>,
             \A k \in Keys : table'[k] = table[k] \/ table'[k] = Null,
             table' \in [Keys -> Record \cup {Null}]
      PROVE  TypeInv'
    <2> DEFINE h == [handler[r] EXCEPT !.step = step]
    <2>1. h \in Handler /\ handler' = [handler EXCEPT ![r] = h]
        BY <1>0, <1>4 DEF GoTo, TypeOK, Handler
    <2>2. h.effect = handler[r].effect /\ h.key = handler[r].key
          /\ h.payload = handler[r].payload /\ h.step = step
        BY <1>0, <1>4 DEF TypeOK, Handler
    <2>3. TypeOK'
        BY <1>0, <1>4, <2>1 DEF TypeOK
    <2>4. HandlersHold'
        BY <1>0, <1>4, <2>1, <2>2 DEF TypeOK, HandlersHold
    <2>5. RecordsHold' /\ AnswersMatchRequest'
        BY <1>0, <1>4 DEF RecordsHold, AnswersMatchRequest
    <2>6. QED
        BY <2>3, <2>4, <2>5 DEF TypeInv
<1>5. ASSUME NEW r \in Replicas, DeleteExpired(r)
      PROVE  TypeInv'
    <2>1. table' \in [Keys -> Record \cup {Null}]
          /\ \A k \in Keys : table'[k] = table[k] \/ table'[k] = Null
        BY <1>0, <1>5 DEF DeleteExpired, TypeOK
    <2>2. QED
        BY <1>4, <1>5, <2>1 DEF DeleteExpired, At, Steps, Past
<1>6. ASSUME NEW r \in Replicas, Mutate(r)
      PROVE  TypeInv'
    <2> DEFINE k == handler[r].key
               p == handler[r].payload
    <2>1. k \in Keys /\ p \in Payloads
        BY <1>0, <1>6 DEF Mutate, At, TypeOK, Handler
    <2>2. PICK i \in EffectIds :
            LET e == [id |-> i, key |-> k, payload |-> p, by |-> r, window |-> window[k]]
            IN  /\ effects' = effects \cup {e}
                /\ handler' = [handler EXCEPT ![r] =
                       [key |-> k, payload |-> p, step |-> "store", effect |-> e]]
        BY <1>6 DEF Mutate
    <2> DEFINE e == [id |-> i, key |-> k, payload |-> p, by |-> r, window |-> window[k]]
               h == [key |-> k, payload |-> p, step |-> "store", effect |-> e]
    <2>3. e \in Effect
        BY <1>0, <2>1 DEF Effect, TypeOK
    <2>4. h \in Handler
        BY <2>1, <2>3 DEF Handler, Steps
    <2>5. effects' = effects \cup {e} /\ handler' = [handler EXCEPT ![r] = h]
          /\ UNCHANGED <<table, cache, window, answer, disturbed, overtaken>>
        BY <1>6, <2>2 DEF Mutate
    <2>6. TypeOK'
        BY <1>0, <2>3, <2>4, <2>5 DEF TypeOK
    <2>7. HandlersHold'
        <3>1. /\ h.effect = e /\ h.key = k /\ h.payload = p
              /\ e.key = k /\ e.payload = p
            OBVIOUS
        <3>2. e # Null
            BY <2>3, NullAssumption
        <3>3. /\ handler'[r] = h
              /\ \A q \in Replicas \ {r} : handler'[q] = handler[q]
            BY <1>0, <2>5 DEF TypeOK
        <3> HIDE DEF h, e
        <3>4. QED
            BY <1>0, <2>5, <3>1, <3>2, <3>3 DEF HandlersHold
    <2>8. RecordsHold' /\ AnswersMatchRequest'
        BY <1>0, <2>5 DEF RecordsHold, AnswersMatchRequest
    <2>9. QED
        BY <2>6, <2>7, <2>8 DEF TypeInv
<1>7. ASSUME NEW r \in Replicas, Refuse(r)
      PROVE  TypeInv'
    <2>1. handler[r].key \in Keys /\ handler[r].payload \in Payloads
        BY <1>0, <1>7 DEF Refuse, At, TypeOK, Handler
    <2>2. answer' \in [Replicas -> Answer \cup {Null}] /\ AnswersMatchRequest'
        BY <1>7, <2>1, ReplyStep DEF Refuse
    <2>3. QED
        BY <1>0, <1>7, <2>2 DEF Refuse, Leave, TypeInv, TypeOK, HandlersHold, RecordsHold
<1>8. ASSUME NEW r \in Replicas, NEW status \in {"ok", "conflict", "error"},
             handler[r] # Null, Finish(r, status), effects' = effects
      PROVE  /\ answer' \in [Replicas -> Answer \cup {Null}] /\ AnswersMatchRequest'
             /\ handler' \in [Replicas -> Handler \cup {Null}] /\ HandlersHold'
             /\ overtaken' \in SUBSET Replicas
    <2>1. /\ handler[r].key \in Keys /\ handler[r].payload \in Payloads
          /\ handler[r].effect \in Effect \cup {Null}
        BY <1>0, <1>8 DEF TypeOK, Handler
    <2>2. answer' \in [Replicas -> Answer \cup {Null}] /\ AnswersMatchRequest'
        BY <1>0, <1>8, <2>1, ReplyStep DEF Finish, HandlersHold
    <2>3. QED
        BY <1>0, <1>8, <2>2 DEF Finish, Leave, TypeOK, HandlersHold
<1>9. ASSUME NEW r \in Replicas, StoreFound(r)
      PROVE  TypeInv'
    BY <1>0, <1>8, <1>9 DEF StoreFound, At, TypeInv, TypeOK, RecordsHold
<1>10. ASSUME NEW r \in Replicas, StoreMissing(r)
       PROVE  TypeInv'
    BY <1>0, <1>4, <1>10 DEF StoreMissing, At, Steps, Past, TypeOK
<1>11. ASSUME NEW r \in Replicas, Replace(r)
       PROVE  TypeInv'
    <2>1. table' \in [Keys -> Record \cup {Null}]
          /\ \A k \in Keys : table'[k] = table[k] \/ table'[k] = Null
        BY <1>0, <1>11 DEF Replace, TypeOK
    <2>2. QED
        BY <1>4, <1>11, <2>1 DEF Replace, At, Steps, Past
<1>12. ASSUME NEW r \in Replicas, Insert(r)
       PROVE  TypeInv'
    <2> DEFINE k == handler[r].key
               row == [payload |-> handler[r].payload, effect |-> handler[r].effect,
                       live |-> TRUE]
    <2>1. /\ k \in Keys /\ handler[r] \in Handler
          /\ handler[r].effect \in effects \cap Effect
          /\ handler[r].effect.key = k
          /\ handler[r].effect.payload = handler[r].payload
        BY <1>0, <1>12 DEF Insert, At, TypeOK, Handler, HandlersHold, Past
    <2>2. CASE table[k] # Null
        BY <1>0, <1>8, <1>12, <2>2 DEF Insert, At, TypeInv, TypeOK, RecordsHold
    <2>3. CASE table[k] = Null
        <3>1. /\ table' = [table EXCEPT ![k] = row]
              /\ GoTo(r, "cache")
              /\ overtaken' \in SUBSET Replicas
              /\ UNCHANGED <<cache, effects, window, answer, disturbed>>
            BY <1>0, <1>12, <2>3 DEF Insert, TypeOK
        <3>2. row \in Record
            BY <2>1 DEF Record, Handler
        <3>3. TypeOK' /\ HandlersHold' /\ AnswersMatchRequest'
            <4> DEFINE h == [handler[r] EXCEPT !.step = "cache"]
            <4>1. h \in Handler /\ handler' = [handler EXCEPT ![r] = h]
                BY <2>1, <3>1 DEF GoTo, Handler, Steps
            <4>2. TypeOK'
                BY <1>0, <3>1, <3>2, <4>1 DEF TypeOK
            <4>3. HandlersHold'
                <5>1. /\ h.effect = handler[r].effect /\ h.key = handler[r].key
                      /\ h.payload = handler[r].payload
                    BY <2>1 DEF Handler
                <5>2. handler[r].effect # Null
                    BY <2>1, NullAssumption
                <5> HIDE DEF h
                <5>3. QED
                    BY <1>0, <2>1, <3>1, <4>1, <5>1, <5>2 DEF TypeOK, HandlersHold
            <4>4. QED
                BY <1>0, <3>1, <4>2, <4>3 DEF AnswersMatchRequest
        <3>4. RecordsHold'
            BY <1>0, <2>1, <3>1 DEF RecordsHold, TypeOK
        <3>5. QED
            BY <3>3, <3>4 DEF TypeInv
    <2>4. QED
        BY <2>2, <2>3
<1>13. ASSUME NEW r \in Replicas, CacheSet(r)
       PROVE  TypeInv'
    <2> DEFINE k == handler[r].key
               entry == EntryOf(handler[r])
    <2>1. /\ k \in Keys /\ entry \in Entry
          /\ entry.effect \in effects /\ entry.effect.key = k
          /\ entry.effect.payload = entry.payload
        BY <1>0, <1>13
        DEF CacheSet, At, EntryOf, Entry, TypeOK, Handler, HandlersHold, Past
    <2>2. cache' = [cache EXCEPT ![k] = entry] \/ cache' = cache
        BY <1>13 DEF CacheSet
    <2>3. cache' \in [Keys -> Entry \cup {Null}] /\ RecordsHold'
        BY <1>0, <1>13, <2>1, <2>2 DEF CacheSet, TypeOK, RecordsHold
    <2>4. QED
        BY <1>0, <1>8, <1>13, <2>3 DEF CacheSet, At, TypeInv, TypeOK
<1>14. ASSUME NEW k \in Keys, Expire(k)
       PROVE  TypeInv'
    <2> DEFINE row == [table[k] EXCEPT !.live = FALSE]
    <2>1. row \in Record /\ row.effect = table[k].effect /\ row.payload = table[k].payload
        BY <1>0, <1>14 DEF Expire, Live, TypeOK, Record
    <2>2. table' = [table EXCEPT ![k] = row]
        BY <1>14 DEF Expire
    <2>3. window' \in [Keys -> 0..MaxWindow]
        BY <1>0, <1>14, IdempotencyAssumption DEF Expire, TypeOK
    <2>4. TypeOK'
        <3>1. window[k] + 1 \in 0..MaxWindow
            BY <1>0, <1>14, IdempotencyAssumption DEF Expire, TypeOK
        <3>2. disturbed' \in SUBSET (Keys \X (0..MaxWindow))
            BY <1>0, <1>14, <3>1, DisturbStep DEF Expire
        <3>3. QED
            BY <1>0, <1>14, <2>1, <2>2, <2>3, <3>2 DEF Expire, TypeOK
    <2>5. RecordsHold'
        BY <1>0, <1>14, <2>1, <2>2 DEF Expire, Live, TypeOK, RecordsHold
    <2>6. QED
        BY <1>0, <1>14, <2>4, <2>5 DEF Expire, TypeInv, HandlersHold, AnswersMatchRequest
<1>15. ASSUME NEW k \in Keys, Evict(k)
       PROVE  TypeInv'
    BY <1>0, <1>15
    DEF Evict, TypeInv, TypeOK, HandlersHold, RecordsHold, AnswersMatchRequest
<1>16. ASSUME NEW r \in Replicas, Crash(r)
       PROVE  TypeInv'
    <2>1. handler[r].key \in Keys /\ window[handler[r].key] \in 0..MaxWindow
        BY <1>0, <1>16 DEF Crash, TypeOK, Handler
    <2>2. disturbed' \in SUBSET (Keys \X (0..MaxWindow))
        BY <1>0, <1>16, <2>1, DisturbStep DEF Crash
    <2>3. QED
        BY <1>0, <1>16, <2>2
        DEF Crash, Leave, TypeInv, TypeOK, HandlersHold, RecordsHold, AnswersMatchRequest
<1>17. CASE UNCHANGED vars
    BY <1>0, <1>17
    DEF vars, TypeInv, TypeOK, HandlersHold, RecordsHold, AnswersMatchRequest
<1>18. QED
    BY <1>1, <1>2, <1>3, <1>5, <1>6, <1>7, <1>9, <1>10, <1>11, <1>12, <1>13,
       <1>14, <1>15, <1>16, <1>17
    DEF Next, Receive, Proceed

\* Every variable keeps its type.
THEOREM TypeCorrect == Spec => []TypeOK
<1>1. TypeInv => TypeOK
    BY DEF TypeInv
<1>2. QED
    BY <1>1, TypeInit, TypeStep, PTL DEF Spec

\* Every response describes a mutation that was committed for its own key and payload.
THEOREM AnswersAreRight == Spec => []AnswersMatchRequest
<1>1. TypeInv => AnswersMatchRequest
    BY DEF TypeInv
<1>2. QED
    BY <1>1, TypeInit, TypeStep, PTL DEF Spec

-------------------------------------------------------------------------------
(* How often a mutation is committed *)

OneReplica == \A r, q \in Replicas : r = q

\* No process stops between two transactions, and no other replica works on a
\* key while its record expires.
Undisturbed == ~Crashes /\ (Expires => OneReplica)

\* An effect belongs to a record of its key that has existed.
NotAhead == \A e \in effects : e.window <= window[e.key]

\* The effect of the current record of a key is protected by the stored response
\* or by the handler that is about to store it.
Protected ==
    \A e \in effects : e.window = window[e.key] =>
        \/ Live(e.key)
        \/ /\ handler[e.by] # Null
           /\ handler[e.by].key = e.key
           /\ handler[e.by].step \in {"store", "replace", "insert"}

\* A handler that is to mutate has not done so for the current record.
Fresh ==
    \A r \in Replicas : At(r, "mutate") \/ At(r, "expired") =>
        \A e \in effects :
            e.by = r /\ e.key = handler[r].key => e.window # window[e.key]

\* What a handler read of its row still holds.
ReadsHold ==
    \A r \in Replicas :
        /\ At(r, "expired") \/ At(r, "replace") => Expires /\ ~Live(handler[r].key)
        /\ At(r, "insert") =>
              \/ table[handler[r].key] = Null
              \/ ~Expires /\ Live(handler[r].key)

RowsLive == ~Expires => \A k \in Keys : table[k] # Null => Live(k)

OnceInv ==
    /\ TypeInv
    /\ NotAhead
    /\ Protected
    /\ Fresh
    /\ ReadsHold
    /\ RowsLive
    /\ OncePerReplica

\* How a handler moves on.
LEMMA EnterStep ==
    ASSUME TypeOK, NEW r \in Replicas, NEW k \in Keys, NEW p \in Payloads,
           NEW step \in Steps, Enter(r, k, p, step)
    PROVE  /\ handler'[r] # Null /\ handler'[r].key = k /\ handler'[r].step = step
           /\ \A q \in Replicas \ {r} : handler'[q] = handler[q]
<1> DEFINE h == [key |-> k, payload |-> p, step |-> step, effect |-> Null]
<1>1. h \in Handler /\ h.key = k /\ h.step = step
    BY DEF Handler
<1>2. handler'[r] = h /\ \A q \in Replicas \ {r} : handler'[q] = handler[q]
    BY DEF Enter, TypeOK
<1>3. QED
    BY <1>1, <1>2, NullAssumption

LEMMA GoToStep ==
    ASSUME TypeOK, NEW r \in Replicas, NEW step \in Steps, handler[r] # Null,
           GoTo(r, step)
    PROVE  /\ handler[r].key \in Keys
           /\ handler'[r] # Null /\ handler'[r].key = handler[r].key
           /\ handler'[r].step = step /\ handler'[r].effect = handler[r].effect
           /\ \A q \in Replicas \ {r} : handler'[q] = handler[q]
<1> DEFINE h == [handler[r] EXCEPT !.step = step]
<1>1. handler[r] \in Handler
    BY DEF TypeOK
<1>2. /\ h \in Handler /\ h.key = handler[r].key /\ h.step = step
      /\ h.effect = handler[r].effect
    BY <1>1 DEF Handler
<1>3. handler'[r] = h /\ \A q \in Replicas \ {r} : handler'[q] = handler[q]
    BY DEF GoTo, TypeOK
<1>4. h # Null /\ handler[r].key \in Keys
    BY <1>1, <1>2, NullAssumption DEF Handler
<1>5. QED
    BY <1>2, <1>3, <1>4

LEMMA OnceInit == Init => OnceInv
BY TypeInit
DEF Init, OnceInv, NotAhead, Protected, Fresh, ReadsHold, RowsLive, OncePerReplica, At

LEMMA OnceStep == Undisturbed /\ OnceInv /\ [Next]_vars => OnceInv'
<1> SUFFICES ASSUME Undisturbed, OnceInv, [Next]_vars
             PROVE  OnceInv'
    OBVIOUS
<1>0. /\ TypeOK /\ NotAhead /\ Protected /\ Fresh /\ ReadsHold /\ RowsLive
      /\ OncePerReplica /\ TypeInv'
    BY TypeStep DEF OnceInv, TypeInv
<1>a. TypeOK'
    BY <1>0 DEF TypeInv
<1>1. ASSUME UNCHANGED <<table, handler, effects, window>>
      PROVE  OnceInv'
    BY <1>0, <1>1
    DEF OnceInv, NotAhead, Protected, Fresh, ReadsHold, RowsLive, OncePerReplica, At, Live
<1>2. ASSUME NEW r \in Replicas, NEW k \in Keys, NEW p \in Payloads, LookupMiss(r, k, p)
      PROVE  OnceInv'
    <2> DEFINE step == IF table[k] = Null THEN "mutate" ELSE "expired"
    <2>1. /\ handler[r] = Null /\ ~Live(k)
          /\ handler'[r] # Null /\ handler'[r].key = k /\ handler'[r].step = step
          /\ \A q \in Replicas \ {r} : handler'[q] = handler[q]
          /\ UNCHANGED <<table, effects, window>>
        <3>1. step \in Steps
            BY DEF Steps
        <3>2. QED
            BY <1>0, <1>2, <3>1, EnterStep DEF LookupMiss, Found
    <2>2. \A e \in effects : e.by \in Replicas
        BY <1>0 DEF TypeOK, Effect
    <2>3. Protected'
        BY <1>0, <2>1, <2>2 DEF Protected, Live
    <2>4. Fresh'
        BY <1>0, <2>1, <2>2 DEF Fresh, Protected, At
    <2>5. step = "expired" => Expires
        BY <1>0, <2>1 DEF RowsLive
    <2>6. ReadsHold'
        BY <1>0, <2>1, <2>5 DEF ReadsHold, At, Live
    <2>7. QED
        BY <1>0, <2>1, <2>3, <2>4, <2>6
        DEF OnceInv, NotAhead, RowsLive, OncePerReplica, Live
<1>3. ASSUME NEW r \in Replicas, DeleteExpired(r) \/ Replace(r)
      PROVE  OnceInv'
    <2> DEFINE k == handler[r].key
    <2>1. OneReplica /\ ~Live(k) /\ Expires
        BY <1>0, <1>3 DEF DeleteExpired, Replace, ReadsHold, Undisturbed
    <2>2. /\ k \in Keys /\ handler[r] # Null
          /\ handler'[r] # Null /\ handler'[r].key = k
          /\ \/ At(r, "expired") /\ handler'[r].step = "mutate"
             \/ At(r, "replace") /\ handler'[r].step = "insert"
          /\ table'[k] = Null
          /\ \A j \in Keys \ {k} : table'[j] = table[j]
          /\ UNCHANGED <<effects, window>>
        <3>1. CASE DeleteExpired(r)
            BY <1>0, <3>1, GoToStep DEF DeleteExpired, At, Steps, TypeOK
        <3>2. CASE Replace(r)
            BY <1>0, <3>2, GoToStep DEF Replace, At, Steps, TypeOK
        <3>3. QED
            BY <1>3, <3>1, <3>2
    <2>3. \A q \in Replicas : q = r
        BY <2>1 DEF OneReplica
    <2>4. \A e \in effects : e.by = r /\ e.key \in Keys
        BY <1>0, <2>3 DEF TypeOK, Effect
    <2>5. Protected'
        BY <1>0, <2>1, <2>2, <2>4 DEF Protected, Live, At
    <2>6. Fresh'
        BY <1>0, <2>2, <2>3 DEF Fresh, At
    <2>7. ReadsHold'
        BY <2>2, <2>3 DEF ReadsHold, At
    <2>8. QED
        BY <1>0, <2>1, <2>2, <2>5, <2>6, <2>7
        DEF OnceInv, NotAhead, RowsLive, OncePerReplica
<1>4. ASSUME NEW r \in Replicas, Mutate(r)
      PROVE  OnceInv'
    <2> DEFINE k == handler[r].key
               p == handler[r].payload
    <2>1. PICK i \in EffectIds :
            LET e == [id |-> i, key |-> k, payload |-> p, by |-> r, window |-> window[k]]
            IN  /\ effects' = effects \cup {e}
                /\ handler' = [handler EXCEPT ![r] =
                       [key |-> k, payload |-> p, step |-> "store", effect |-> e]]
        BY <1>4 DEF Mutate
    <2> DEFINE e == [id |-> i, key |-> k, payload |-> p, by |-> r, window |-> window[k]]
               h == [key |-> k, payload |-> p, step |-> "store", effect |-> e]
    <2>2. /\ e.key = k /\ e.by = r /\ e.window = window[k]
          /\ h.key = k /\ h.step = "store"
        OBVIOUS
    <2>3. /\ effects' = effects \cup {e}
          /\ handler'[r] = h
          /\ \A q \in Replicas \ {r} : handler'[q] = handler[q]
          /\ UNCHANGED <<table, window>>
        BY <1>0, <1>4, <2>1 DEF Mutate, TypeOK
    <2>4. At(r, "mutate") /\ k \in Keys /\ window[k] \in Nat
        BY <1>0, <1>4 DEF Mutate, At, TypeOK, Handler
    <2>5. h # Null
        <3>1. e \in Effect
            BY <1>0, <1>a, <2>3 DEF TypeOK
        <3>2. p \in Payloads
            BY <1>0, <1>4 DEF Mutate, At, TypeOK, Handler
        <3>3. h \in Handler
            BY <2>4, <3>1, <3>2 DEF Handler, Steps
        <3>4. QED
            BY <3>3, NullAssumption
    <2>6. \A f \in effects : f.by \in Replicas
        BY <1>0 DEF TypeOK, Effect
    <2> HIDE DEF e, h
    <2>7. NotAhead'
        BY <1>0, <2>2, <2>3, <2>4 DEF NotAhead
    <2>8. Protected'
        BY <1>0, <2>2, <2>3, <2>4, <2>5, <2>6 DEF Protected, Live, At
    <2>9. Fresh'
        BY <1>0, <2>2, <2>3 DEF Fresh, At
    <2>10. ReadsHold'
        BY <1>0, <2>2, <2>3 DEF ReadsHold, At, Live
    <2>11. \A f \in effects : f.by = r /\ f.key = k => f.window # window[k]
        BY <1>0, <2>4 DEF Fresh
    <2>12. OncePerReplica'
        BY <1>0, <2>2, <2>3, <2>11 DEF OncePerReplica
    <2>13. QED
        BY <1>0, <2>3, <2>7, <2>8, <2>9, <2>10, <2>12 DEF OnceInv, RowsLive, Live
<1>5. ASSUME NEW r \in Replicas, handler'[r] = Null,
             \A q \in Replicas \ {r} : handler'[q] = handler[q],
             UNCHANGED <<table, effects, window>>,
             \/ Live(handler[r].key)
             \/ ~(At(r, "store") \/ At(r, "replace") \/ At(r, "insert"))
      PROVE  OnceInv'
    <2>1. \A e \in effects : e.by \in Replicas
        BY <1>0 DEF TypeOK, Effect
    <2>2. Protected'
        BY <1>0, <1>5, <2>1 DEF Protected, Live, At
    <2>3. Fresh' /\ ReadsHold'
        BY <1>0, <1>5 DEF Fresh, ReadsHold, At, Live
    <2>4. QED
        BY <1>0, <1>5, <2>2, <2>3 DEF OnceInv, NotAhead, RowsLive, OncePerReplica, Live
<1>6. ASSUME NEW r \in Replicas, Refuse(r) \/ StoreFound(r) \/ CacheSet(r)
      PROVE  OnceInv'
    BY <1>0, <1>5, <1>6 DEF Refuse, StoreFound, CacheSet, Finish, Leave, At, TypeOK
<1>7. ASSUME NEW r \in Replicas, StoreMissing(r)
      PROVE  OnceInv'
    <2> DEFINE k == handler[r].key
               step == IF table[k] = Null THEN "insert" ELSE "replace"
    <2>1. /\ At(r, "store") /\ ~Live(k) /\ k \in Keys
          /\ handler'[r] # Null /\ handler'[r].key = k /\ handler'[r].step = step
          /\ \A q \in Replicas \ {r} : handler'[q] = handler[q]
          /\ UNCHANGED <<table, effects, window>>
        <3>1. step \in Steps
            BY DEF Steps
        <3>2. QED
            BY <1>0, <1>7, <3>1, GoToStep DEF StoreMissing, At
    <2>2. \A e \in effects : e.by \in Replicas
        BY <1>0 DEF TypeOK, Effect
    <2>3. step = "replace" => Expires
        BY <1>0, <2>1 DEF RowsLive
    <2>4. Protected'
        BY <1>0, <2>1, <2>2 DEF Protected, Live, At
    <2>5. Fresh' /\ ReadsHold'
        BY <1>0, <2>1, <2>3 DEF Fresh, ReadsHold, At, Live
    <2>6. QED
        BY <1>0, <2>1, <2>4, <2>5 DEF OnceInv, NotAhead, RowsLive, OncePerReplica, Live
<1>8. ASSUME NEW r \in Replicas, Insert(r)
      PROVE  OnceInv'
    <2> DEFINE k == handler[r].key
               row == [payload |-> handler[r].payload, effect |-> handler[r].effect,
                       live |-> TRUE]
    <2>1. At(r, "insert") /\ k \in Keys
        BY <1>0, <1>8 DEF Insert, At, TypeOK, Handler
    <2>2. CASE table[k] # Null
        <3>1. Live(k)
            BY <1>0, <2>1, <2>2 DEF ReadsHold
        <3>2. QED
            BY <1>0, <1>5, <1>8, <2>2, <3>1 DEF Insert, Finish, Leave, TypeOK
    <2>3. CASE table[k] = Null
        <3>1. /\ table'[k] = row /\ row.live
              /\ \A j \in Keys \ {k} : table'[j] = table[j]
              /\ handler'[r] # Null /\ handler'[r].key = k /\ handler'[r].step = "cache"
              /\ \A q \in Replicas \ {r} : handler'[q] = handler[q]
              /\ UNCHANGED <<effects, window>>
            BY <1>0, <1>8, <2>1, <2>3, GoToStep DEF Insert, At, Steps, TypeOK
        <3>2. row # Null
            <4>1. row \in Record
                <5>1. handler[r] \in Handler
                    BY <1>0, <2>1 DEF At, TypeOK
                <5>2. handler[r].effect \in Effect
                    BY <1>0, <2>1, <5>1 DEF OnceInv, TypeInv, HandlersHold, At, Past, Handler
                <5>3. QED
                    BY <5>1, <5>2 DEF Record, Handler
            <4>2. QED
                BY <4>1, NullAssumption
        <3>3. \A e \in effects : e.by \in Replicas /\ e.key \in Keys
            BY <1>0 DEF TypeOK, Effect
        <3> HIDE DEF row
        <3>4. Protected'
            BY <1>0, <2>1, <3>1, <3>2, <3>3 DEF Protected, Live
        <3>5. Fresh'
            BY <1>0, <3>1 DEF Fresh, At
        <3>6. ReadsHold'
            <4>1. CASE OneReplica
                BY <3>1, <4>1 DEF ReadsHold, At, OneReplica
            <4>2. CASE ~Expires
                <5>1. \A q \in Replicas : handler[q] # Null => handler[q].key \in Keys
                    BY <1>0 DEF TypeOK, Handler
                <5>2. QED
                    BY <1>0, <3>1, <3>2, <4>2, <5>1 DEF ReadsHold, At, Live
            <4>3. QED
                BY <4>1, <4>2 DEF Undisturbed
        <3>7. QED
            BY <1>0, <3>1, <3>2, <3>4, <3>5, <3>6
            DEF OnceInv, NotAhead, RowsLive, OncePerReplica, Live
    <2>4. QED
        BY <2>2, <2>3
<1>9. ASSUME NEW k \in Keys, Expire(k)
      PROVE  OnceInv'
    <2>1. /\ Expires /\ Live(k)
          /\ window[k] \in Nat /\ window'[k] = window[k] + 1
          /\ table'[k] # Null /\ ~table'[k].live
          /\ \A j \in Keys \ {k} : table'[j] = table[j] /\ window'[j] = window[j]
          /\ UNCHANGED <<handler, effects>>
        <3> DEFINE row == [table[k] EXCEPT !.live = FALSE]
        <3>1. table[k] \in Record
            BY <1>0, <1>9 DEF Expire, Live, TypeOK
        <3>2. row \in Record /\ ~row.live
            BY <3>1 DEF Record
        <3>3. table'[k] = row /\ \A j \in Keys \ {k} : table'[j] = table[j]
            BY <1>0, <1>9 DEF Expire, TypeOK
        <3>4. window[k] \in Nat /\ window'[k] = window[k] + 1
              /\ \A j \in Keys \ {k} : window'[j] = window[j]
            BY <1>0, <1>9 DEF Expire, TypeOK
        <3> HIDE DEF row
        <3>5. QED
            BY <1>9, <3>2, <3>3, <3>4, NullAssumption DEF Expire
    <2>2. \A e \in effects : e.key \in Keys /\ e.window \in Nat
        BY <1>0 DEF TypeOK, Effect
    <2>3. NotAhead'
        BY <1>0, <2>1, <2>2 DEF NotAhead
    <2>4. \A e \in effects : e.key = k => e.window # window'[k]
        BY <1>0, <2>1, <2>2 DEF NotAhead
    <2>5. Protected'
        BY <1>0, <2>1, <2>2, <2>4 DEF Protected, Live
    <2>6. Fresh'
        BY <1>0, <2>1, <2>2, <2>4 DEF Fresh, At
    <2>7. \A q \in Replicas : handler[q] # Null => handler[q].key \in Keys
        BY <1>0 DEF TypeOK, Handler
    <2>8. ReadsHold'
        BY <1>0, <2>1, <2>7 DEF ReadsHold, At, Live
    <2>9. QED
        BY <1>0, <2>1, <2>3, <2>5, <2>6, <2>8 DEF OnceInv, RowsLive, OncePerReplica
<1>10. QED
    BY <1>1, <1>2, <1>3, <1>4, <1>6, <1>7, <1>8, <1>9
    DEF Next, Receive, Proceed, CacheHit, LookupHit, Evict, Crash, Undisturbed, vars

\* A replica commits at most one mutation for a key while its record lives.
THEOREM OncePerReplicaUndisturbed == Undisturbed /\ Spec => []OncePerReplica
<1>1. OnceInv => OncePerReplica
    BY DEF OnceInv
<1>2. Undisturbed /\ Spec => []OnceInv
    <2> SUFFICES ASSUME Undisturbed PROVE Spec => []OnceInv
        OBVIOUS
    <2>1. OnceInv /\ [Next]_vars => OnceInv'
        BY OnceStep
    <2>2. QED
        BY <2>1, OnceInit, PTL DEF Spec
<1>3. QED
    BY <1>1, <1>2, PTL

-------------------------------------------------------------------------------
(* One effect in each undisturbed window, on any number of replicas *)

Open(k) == <<k, window[k]>> \notin disturbed

Working(r, k) == handler[r] # Null /\ handler[r].key = k /\ handler[r].step # "cache"

Alone ==
    \A k \in Keys : Open(k) =>
        \A r, q \in Replicas : Working(r, k) /\ Working(q, k) => r = q

\* Where a handler works alone there is no record, or the expired one it found.
RowFree ==
    \A k \in Keys, r \in Replicas : Open(k) /\ Working(r, k) =>
        /\ ~Live(k)
        /\ handler[r].step # "replace"
        /\ handler[r].step # "expired" => table[k] = Null

\* The effect of the current window has its record, or the handler that will store it.
Guarded ==
    \A e \in effects : Open(e.key) /\ e.window = window[e.key] =>
        \/ Live(e.key)
        \/ \E r \in Replicas : Working(r, e.key) /\ handler[r].step \in {"store", "insert"}

WindowInv ==
    /\ TypeInv
    /\ NotAhead
    /\ Alone
    /\ RowFree
    /\ Guarded
    /\ AtMostOnce

LEMMA WindowInit == Init => WindowInv
BY TypeInit
DEF Init, WindowInv, NotAhead, Alone, RowFree, Guarded, AtMostOnce, Working

\* What the steps of a handler of k that commit nothing have in common.
LEMMA HandlerStep ==
    ASSUME WindowInv, NEW r \in Replicas, NEW k \in Keys,
           UNCHANGED <<effects, window>>, disturbed \subseteq disturbed',
           handler[r] # Null => handler[r].key = k,
           handler'[r] # Null => handler'[r].key = k,
           \A q \in Replicas \ {r} : handler'[q] = handler[q],
           \A j \in Keys \ {k} : table'[j] = table[j],
           Open(k)' =>
               /\ Live(k) => Live(k)'
               /\ \A q \in Replicas \ {r} : Working(q, k) => table'[k] = table[k]
               /\ Working(r, k) /\ handler[r].step \in {"store", "insert"} =>
                      Live(k)' \/ (Working(r, k)' /\ handler'[r].step \in {"store", "insert"}),
           Open(k)' /\ Working(r, k)' =>
               /\ Working(r, k) \/ \A q \in Replicas : ~Working(q, k)
               /\ ~Live(k)'
               /\ handler'[r].step # "replace"
               /\ handler'[r].step # "expired" => table'[k] = Null
    PROVE  NotAhead' /\ Alone' /\ RowFree' /\ Guarded' /\ AtMostOnce'
<1>0. /\ TypeOK /\ NotAhead /\ Alone /\ RowFree /\ Guarded /\ AtMostOnce
      /\ \A e \in effects : e.key \in Keys
    BY DEF WindowInv, TypeInv, TypeOK, Effect
<1>1. \A j \in Keys : Open(j)' => Open(j)
    BY DEF Open
<1>2. \A q \in Replicas \ {r}, j \in Keys : Working(q, j)' <=> Working(q, j)
    BY DEF Working
<1>3. \A j \in Keys \ {k} : /\ ~Working(r, j) /\ ~Working(r, j)'
                            /\ Live(j)' <=> Live(j)
    BY DEF Working, Live
<1>4. NotAhead'
    BY <1>0 DEF NotAhead
<1>5. Alone'
    <2> SUFFICES ASSUME NEW j \in Keys, Open(j)', NEW p \in Replicas, NEW q \in Replicas,
                        Working(p, j)', Working(q, j)'
                 PROVE  p = q
        BY DEF Alone
    <2>1. QED
        BY <1>0, <1>1, <1>2, <1>3 DEF Alone
<1>6. RowFree'
    <2> SUFFICES ASSUME NEW j \in Keys, NEW q \in Replicas, Open(j)', Working(q, j)'
                 PROVE  /\ ~Live(j)'
                        /\ handler'[q].step # "replace"
                        /\ handler'[q].step # "expired" => table'[j] = Null
        BY DEF RowFree
    <2>1. CASE q = r
        BY <1>3, <2>1
    <2>2. CASE q # r
        BY <1>0, <1>1, <1>2, <2>2 DEF RowFree, Live
    <2>3. QED
        BY <2>1, <2>2
<1>7. Guarded'
    <2> SUFFICES ASSUME NEW e \in effects, Open(e.key)', e.window = window[e.key]
                 PROVE  \/ Live(e.key)'
                        \/ \E q \in Replicas : /\ Working(q, e.key)'
                                               /\ handler'[q].step \in {"store", "insert"}
        BY DEF Guarded
    <2>1. \/ Live(e.key)
          \/ \E q \in Replicas : Working(q, e.key) /\ handler[q].step \in {"store", "insert"}
        BY <1>0, <1>1 DEF Guarded
    <2>2. QED
        BY <1>0, <1>2, <1>3, <2>1
<1>8. AtMostOnce'
    BY <1>0 DEF AtMostOnce
<1>9. QED
    BY <1>4, <1>5, <1>6, <1>7, <1>8

LEMMA WindowStep == WindowInv /\ [Next]_vars => WindowInv'
<1> SUFFICES ASSUME WindowInv, [Next]_vars
             PROVE  WindowInv'
    OBVIOUS
<1>0. /\ TypeOK /\ HandlersHold /\ NotAhead /\ Alone /\ RowFree /\ Guarded
      /\ AtMostOnce /\ TypeInv'
    BY TypeStep DEF WindowInv, TypeInv
<1>a. TypeOK'
    BY <1>0 DEF TypeInv
<1> DEFINE Windows == NotAhead /\ Alone /\ RowFree /\ Guarded /\ AtMostOnce
<1>b. ASSUME UNCHANGED <<table, handler, effects, window, disturbed>>
      PROVE  Windows'
    BY <1>0, <1>b
    DEF NotAhead, Alone, RowFree, Guarded, AtMostOnce, Open, Working, Live
<1>1. ASSUME NEW r \in Replicas, NEW k \in Keys, NEW p \in Payloads,
             CacheHit(r, k, p) \/ LookupHit(r, k, p)
      PROVE  Windows'
    BY <1>b, <1>1 DEF CacheHit, LookupHit
<1>2. ASSUME NEW r \in Replicas, NEW k \in Keys, NEW p \in Payloads, LookupMiss(r, k, p)
      PROVE  Windows'
    <2> DEFINE step == IF table[k] = Null THEN "mutate" ELSE "expired"
    <2>1. /\ handler[r] = Null /\ ~Live(k)
          /\ handler'[r] # Null /\ handler'[r].key = k /\ handler'[r].step = step
          /\ \A q \in Replicas \ {r} : handler'[q] = handler[q]
          /\ UNCHANGED <<table, effects, window, answer>>
        <3>1. step \in Steps
            BY DEF Steps
        <3>2. QED
            BY <1>0, <1>2, <3>1, EnterStep DEF LookupMiss, Found
    <2>2. disturbed \subseteq disturbed' /\ (Busy(k) => <<k, window[k]>> \in disturbed')
        BY <1>2 DEF LookupMiss, Disturb
    <2>3. Open(k)' => \A q \in Replicas : ~Working(q, k)
        BY <2>1, <2>2 DEF Open, Busy, Working
    <2>4. QED
        BY <2>1, <2>2, <2>3, HandlerStep DEF Live, Working
<1>3. ASSUME NEW r \in Replicas, DeleteExpired(r) \/ Replace(r)
      PROVE  Windows'
    <2> DEFINE k == handler[r].key
    <2>1. /\ k \in Keys /\ handler[r] # Null
          /\ handler'[r] # Null /\ handler'[r].key = k
          /\ \/ handler[r].step = "expired" /\ handler'[r].step = "mutate"
             \/ handler[r].step = "replace" /\ handler'[r].step = "insert"
          /\ handler'[r].effect = handler[r].effect
          /\ \A q \in Replicas \ {r} : handler'[q] = handler[q]
          /\ table'[k] = Null /\ \A j \in Keys \ {k} : table'[j] = table[j]
          /\ UNCHANGED <<effects, window, answer, disturbed>>
        <3>1. CASE DeleteExpired(r)
            BY <1>0, <3>1, GoToStep DEF DeleteExpired, At, Steps, TypeOK
        <3>2. CASE Replace(r)
            BY <1>0, <3>2, GoToStep DEF Replace, At, Steps, TypeOK
        <3>3. QED
            BY <1>3, <3>1, <3>2
    <2>2. Open(k)' => /\ Open(k) /\ Working(r, k) /\ ~Live(k)
                      /\ handler[r].step = "expired"
        BY <1>0, <2>1 DEF Open, Working, RowFree
    <2>3. Open(k)' => \A q \in Replicas \ {r} : ~Working(q, k)
        BY <1>0, <2>1, <2>2 DEF Alone
    <2>4. ~Live(k)'
        BY <2>1 DEF Live
    <2> HIDE DEF k
    <2>5. QED
        BY <2>1, <2>2, <2>3, <2>4, HandlerStep DEF k, Working
<1>4. ASSUME NEW r \in Replicas, Mutate(r)
      PROVE  Windows'
    <2> DEFINE k == handler[r].key
               p == handler[r].payload
    <2>1. PICK i \in EffectIds :
            LET e == [id |-> i, key |-> k, payload |-> p, by |-> r, window |-> window[k]]
            IN  /\ effects' = effects \cup {e}
                /\ handler' = [handler EXCEPT ![r] =
                       [key |-> k, payload |-> p, step |-> "store", effect |-> e]]
        BY <1>4 DEF Mutate
    <2> DEFINE e == [id |-> i, key |-> k, payload |-> p, by |-> r, window |-> window[k]]
               h == [key |-> k, payload |-> p, step |-> "store", effect |-> e]
    <2>2. /\ e.key = k /\ e.window = window[k]
          /\ h.key = k /\ h.step = "store" /\ h.effect = e
        OBVIOUS
    <2>3. /\ handler[r] # Null /\ handler[r].step = "mutate" /\ k \in Keys
          /\ effects' = effects \cup {e} /\ handler'[r] = h
          /\ \A q \in Replicas \ {r} : handler'[q] = handler[q]
          /\ UNCHANGED <<table, window, answer, disturbed>>
        BY <1>0, <1>4, <2>1 DEF Mutate, At, TypeOK, Handler
    <2>4. h # Null
        BY <1>a, <2>3, NullAssumption DEF TypeOK, Effect, Handler, Steps
    <2>5. window[k] \in Nat /\ \A f \in effects : f.key \in Keys
        BY <1>0, <2>3 DEF TypeOK, Effect
    <2> HIDE DEF e, h, k
    <2>6. Working(r, k) /\ Working(r, k)' /\ handler'[r].step = "store"
        BY <2>2, <2>3, <2>4 DEF Working, k
    <2>7. \A j \in Keys : /\ Open(j)' <=> Open(j)
                          /\ Live(j)' <=> Live(j)
        BY <2>3 DEF Open, Live
    <2>8. \A q \in Replicas, j \in Keys : Working(q, j)' <=> Working(q, j)
        BY <2>2, <2>3, <2>4 DEF Working, k
    <2>9. NotAhead' /\ Alone'
        BY <1>0, <2>2, <2>3, <2>5, <2>7, <2>8 DEF NotAhead, Alone
    <2>10. RowFree'
        <3> SUFFICES ASSUME NEW j \in Keys, NEW q \in Replicas, Open(j)', Working(q, j)'
                     PROVE  /\ ~Live(j)'
                            /\ handler'[q].step # "replace"
                            /\ handler'[q].step # "expired" => table'[j] = Null
            BY DEF RowFree
        <3>1. /\ ~Live(j)
              /\ handler[q].step # "replace"
              /\ handler[q].step # "expired" => table[j] = Null
            BY <1>0, <2>7, <2>8 DEF RowFree
        <3>2. CASE q = r
            BY <2>2, <2>3, <2>7, <3>1, <3>2
        <3>3. CASE q # r
            BY <2>3, <2>7, <3>1, <3>3
        <3>4. QED
            BY <3>2, <3>3
    <2>11. Guarded'
        <3> SUFFICES ASSUME NEW f \in effects', Open(f.key)', f.window = window'[f.key]
                     PROVE  \/ Live(f.key)'
                            \/ \E q \in Replicas : /\ Working(q, f.key)'
                                                   /\ handler'[q].step \in {"store", "insert"}
            BY DEF Guarded
        <3>1. CASE f = e
            <4>1. f.key \in Keys /\ Working(r, f.key)
                BY <2>2, <2>3, <2>6, <3>1
            <4>2. QED
                BY <2>6, <2>8, <4>1
        <3>2. CASE f \in effects
            <4>1. \/ Live(f.key)
                  \/ \E q \in Replicas : /\ Working(q, f.key)
                                         /\ handler[q].step \in {"store", "insert"}
                BY <1>0, <2>3, <2>5, <2>7, <3>2 DEF Guarded
            <4>2. \A q \in Replicas : handler[q].step \in {"store", "insert"} =>
                      handler'[q].step = handler[q].step
                BY <2>3
            <4>3. QED
                BY <2>5, <2>7, <2>8, <3>2, <4>1, <4>2
        <3>3. QED
            BY <2>3, <3>1, <3>2
    <2>12. AtMostOnce'
        <3>1. \A f \in effects : f.key = k /\ f.window = window[k] => ~Open(k)
            <4> SUFFICES ASSUME NEW f \in effects, f.key = k, f.window = window[k], Open(k)
                         PROVE  FALSE
                OBVIOUS
            <4>1. \/ Live(k)
                  \/ \E q \in Replicas : Working(q, k) /\ handler[q].step \in {"store", "insert"}
                BY <1>0 DEF Guarded
            <4>2. ~Live(k)
                BY <1>0, <2>3, <2>6 DEF RowFree
            <4>3. \A q \in Replicas : Working(q, k) => q = r
                BY <1>0, <2>3, <2>6 DEF Alone
            <4>4. QED
                BY <2>3, <4>1, <4>2, <4>3
        <3>2. QED
            BY <1>0, <2>2, <2>3, <3>1 DEF AtMostOnce, Open
    <2>13. QED
        BY <2>9, <2>10, <2>11, <2>12
<1>5. ASSUME NEW r \in Replicas, NEW k \in Keys, handler[r] # Null, handler[r].key = k,
             handler'[r] = Null,
             \A q \in Replicas \ {r} : handler'[q] = handler[q],
             UNCHANGED <<table, effects, window>>, disturbed \subseteq disturbed',
             Open(k)' => ~(At(r, "store") \/ At(r, "insert"))
      PROVE  Windows'
    <2>1. ~Working(r, k)' /\ (Live(k)' <=> Live(k))
        BY <1>5 DEF Working, Live
    <2>2. Open(k)' => ~(Working(r, k) /\ handler[r].step \in {"store", "insert"})
        BY <1>5 DEF At, Working
    <2>3. QED
        BY <1>5, <2>1, <2>2, HandlerStep
<1>6. ASSUME NEW r \in Replicas, Refuse(r) \/ CacheSet(r)
      PROVE  Windows'
    <2>1. /\ handler[r] # Null /\ handler[r].key \in Keys /\ handler'[r] = Null
          /\ handler[r].step \in {"mutate", "cache"}
          /\ \A q \in Replicas \ {r} : handler'[q] = handler[q]
          /\ UNCHANGED <<table, effects, window, disturbed>>
        BY <1>0, <1>6 DEF Refuse, CacheSet, Finish, Leave, At, TypeOK, Handler
    <2>2. PICK k \in Keys : handler[r].key = k
        BY <2>1
    <2>3. QED
        BY <1>5, <2>1, <2>2 DEF At
\* A handler that has committed and does not find its row free is not alone.
<1>7. ASSUME NEW r \in Replicas, At(r, "store") \/ At(r, "insert"), table[handler[r].key] # Null,
             NEW status, Finish(r, status), UNCHANGED <<table, effects, window, disturbed>>
      PROVE  Windows'
    <2>1. PICK k \in Keys : /\ handler[r].key = k
                            /\ handler[r] # Null /\ handler[r].step \in {"store", "insert"}
        BY <1>0, <1>7 DEF At, TypeOK, Handler
    <2>2. ~Open(k)'
        BY <1>0, <1>7, <2>1 DEF RowFree, Working, Open
    <2>3. handler'[r] = Null /\ \A q \in Replicas \ {r} : handler'[q] = handler[q]
        BY <1>0, <1>7 DEF Finish, Leave, TypeOK
    <2>4. QED
        BY <1>5, <1>7, <2>1, <2>2, <2>3
<1>8. ASSUME NEW r \in Replicas, StoreFound(r)
      PROVE  Windows'
    BY <1>7, <1>8 DEF StoreFound, Live
<1>9. ASSUME NEW r \in Replicas, StoreMissing(r)
      PROVE  Windows'
    <2> DEFINE k == handler[r].key
               step == IF table[k] = Null THEN "insert" ELSE "replace"
    <2>1. /\ handler[r] # Null /\ handler[r].step = "store" /\ k \in Keys
          /\ handler'[r] # Null /\ handler'[r].key = k /\ handler'[r].step = step
          /\ handler'[r].effect = handler[r].effect
          /\ \A q \in Replicas \ {r} : handler'[q] = handler[q]
          /\ UNCHANGED <<table, effects, window, answer, disturbed>>
        <3>1. step \in Steps
            BY DEF Steps
        <3>2. QED
            BY <1>0, <1>9, <3>1, GoToStep DEF StoreMissing, At
    <2>2. Open(k)' => Open(k) /\ Working(r, k) /\ table[k] = Null
        BY <1>0, <2>1 DEF Open, Working, RowFree
    <2>3. Live(k)' <=> Live(k)
        BY <2>1 DEF Live
    <2>4. table[k] = Null => step = "insert" /\ ~Live(k)
        BY DEF Live
    <2>5. step \in {"insert", "replace"}
        OBVIOUS
    <2> HIDE DEF k, step
    <2>6. QED
        BY <2>1, <2>2, <2>3, <2>4, <2>5, HandlerStep DEF k, Working
<1>10. ASSUME NEW r \in Replicas, Insert(r)
       PROVE  Windows'
    <2> DEFINE row == [payload |-> handler[r].payload, effect |-> handler[r].effect,
                       live |-> TRUE]
    <2>0. PICK k \in Keys : handler[r].key = k
        BY <1>0, <1>10 DEF Insert, At, TypeOK, Handler
    <2>1. CASE table[k] # Null
        BY <1>7, <1>10, <2>0, <2>1 DEF Insert
    <2>2. CASE table[k] = Null
        <3>1. /\ handler[r] # Null /\ handler[r].step = "insert"
              /\ table'[k] = row /\ row.live
              /\ \A j \in Keys \ {k} : table'[j] = table[j]
              /\ handler'[r] # Null /\ handler'[r].key = k /\ handler'[r].step = "cache"
              /\ \A q \in Replicas \ {r} : handler'[q] = handler[q]
              /\ UNCHANGED <<effects, window, answer, disturbed>>
            BY <1>0, <1>10, <2>0, <2>2, GoToStep DEF Insert, At, Steps, TypeOK
        <3>2. row # Null
            <4>1. table'[k] \in Record \cup {Null}
                BY <1>a, <3>1 DEF TypeOK
            <4>2. handler[r] \in Handler /\ handler[r].effect \in Effect
                BY <1>0, <3>1 DEF TypeOK, Handler, HandlersHold, Past
            <4>3. row \in Record
                BY <4>2 DEF Record, Handler
            <4>4. QED
                BY <4>3, NullAssumption
        <3> HIDE DEF row
        <3>3. Live(k)' /\ Working(r, k) /\ ~Working(r, k)'
            BY <2>0, <3>1, <3>2 DEF Live, Working
        <3>4. Open(k)' => \A q \in Replicas \ {r} : ~Working(q, k)
            BY <1>0, <3>1, <3>3 DEF Alone, Open
        <3>5. /\ UNCHANGED <<effects, window>> /\ disturbed \subseteq disturbed'
              /\ handler[r] # Null => handler[r].key = k
              /\ handler'[r] # Null => handler'[r].key = k
            BY <2>0, <3>1
        <3>6. Open(k)' =>
                  /\ Live(k) => Live(k)'
                  /\ \A q \in Replicas \ {r} : Working(q, k) => table'[k] = table[k]
                  /\ Working(r, k) /\ handler[r].step \in {"store", "insert"} =>
                         Live(k)' \/ (Working(r, k)' /\ handler'[r].step \in {"store", "insert"})
            BY <3>3, <3>4
        <3>a. /\ \A q \in Replicas \ {r} : handler'[q] = handler[q]
              /\ \A j \in Keys \ {k} : table'[j] = table[j]
            BY <3>1
        <3>7. QED
            BY <3>3, <3>5, <3>6, <3>a, HandlerStep
    <2>3. QED
        BY <2>1, <2>2
<1>11. ASSUME NEW r \in Replicas, Crash(r)
       PROVE  Windows'
    <2>1. PICK k \in Keys : handler[r].key = k
        BY <1>0, <1>11 DEF Crash, TypeOK, Handler
    <2>2. /\ handler[r] # Null /\ handler'[r] = Null
          /\ \A q \in Replicas \ {r} : handler'[q] = handler[q]
          /\ UNCHANGED <<table, effects, window, answer>>
          /\ disturbed \subseteq disturbed'
          /\ handler[r].step \in {"store", "replace", "insert"} =>
                 <<k, window[k]>> \in disturbed'
        BY <1>0, <1>11, <2>1 DEF Crash, Leave, Disturb, TypeOK
    <2>3. Open(k)' => ~(At(r, "store") \/ At(r, "insert"))
        BY <2>2 DEF Open, At
    <2>4. QED
        BY <1>5, <2>1, <2>2, <2>3
<1>12. ASSUME NEW k \in Keys, Evict(k)
       PROVE  Windows'
    BY <1>b, <1>12 DEF Evict
<1>13. ASSUME NEW k \in Keys, Expire(k)
       PROVE  Windows'
    <2>1. /\ Live(k) /\ window[k] \in Nat /\ window'[k] = window[k] + 1
          /\ \A j \in Keys \ {k} : table'[j] = table[j] /\ window'[j] = window[j]
          /\ UNCHANGED <<handler, effects, answer>>
          /\ disturbed \subseteq disturbed'
          /\ Busy(k) => <<k, window'[k]>> \in disturbed'
        BY <1>0, <1>13 DEF Expire, TypeOK, Disturb
    <2>2. \A e \in effects : e.key \in Keys /\ e.window \in Nat
        BY <1>0 DEF TypeOK, Effect
    <2>3. Open(k)' => \A q \in Replicas : ~Working(q, k)
        BY <2>1 DEF Open, Busy, Working
    <2>4. \A j \in Keys \ {k} : /\ Open(j)' => Open(j)
                                /\ Live(j)' <=> Live(j)
        BY <2>1 DEF Open, Live
    <2>5. \A q \in Replicas, j \in Keys : Working(q, j)' <=> Working(q, j)
        BY <2>1 DEF Working
    <2>6. NotAhead' /\ \A e \in effects : e.key = k => e.window # window'[k]
        BY <1>0, <2>1, <2>2 DEF NotAhead
    <2>7. Alone' /\ RowFree'
        BY <1>0, <2>1, <2>3, <2>4, <2>5 DEF Alone, RowFree
    <2>8. Guarded'
        BY <1>0, <2>1, <2>2, <2>4, <2>5, <2>6 DEF Guarded
    <2>9. AtMostOnce'
        BY <1>0, <2>1 DEF AtMostOnce
    <2>10. QED
        BY <2>6, <2>7, <2>8, <2>9
<1>14. ASSUME UNCHANGED vars PROVE Windows'
    BY <1>b, <1>14 DEF vars
<1>15. Windows'
    BY <1>1, <1>2, <1>3, <1>4, <1>6, <1>8, <1>9, <1>10, <1>11, <1>12, <1>13, <1>14
    DEF Next, Receive, Proceed
<1>16. QED
    BY <1>0, <1>15 DEF WindowInv

LEMMA SpecWindowInv == Spec => []WindowInv
BY WindowInit, WindowStep, PTL DEF Spec

\* On any number of replicas a retried request has no second effect while the record
\* of its key lives, unless requests overlapped or a handler stopped short of its record.
THEOREM RetriesAreSafe == Spec => []AtMostOnce
BY SpecWindowInv, PTL DEF WindowInv

-------------------------------------------------------------------------------
(* What a failure says *)

\* The row of a handler that was not overtaken is as free as it has read it.
RowStaysFree ==
    \A r \in Replicas \ overtaken : handler[r] # Null =>
        /\ handler[r].step # "cache" => ~Live(handler[r].key)
        /\ handler[r].step = "insert" => table[handler[r].key] = Null

FreeInv == TypeInv /\ RowStaysFree

LEMMA FreeInit == Init => FreeInv
BY TypeInit DEF Init, FreeInv, RowStaysFree

LEMMA FreeStep == FreeInv /\ [Next]_vars => FreeInv'
<1> SUFFICES ASSUME FreeInv, [Next]_vars
             PROVE  RowStaysFree'
    BY TypeStep DEF FreeInv
<1>0. TypeOK /\ RowStaysFree /\ \A q \in Replicas : handler[q] # Null => handler[q].key \in Keys
    BY DEF FreeInv, TypeInv, TypeOK, Handler
\* Rows are only taken away, and a handler moves on or ends.
<1>a. ASSUME NEW r \in Replicas, NEW k \in Keys,
             \A j \in Keys : table'[j] = table[j] \/ table'[j] = Null,
             \A q \in Replicas \ {r} : handler'[q] = handler[q],
             overtaken' = overtaken \/ (overtaken' = overtaken \ {r} /\ handler'[r] = Null),
             handler'[r] # Null /\ r \notin overtaken =>
                 /\ handler'[r].key = k
                 /\ handler'[r].step # "cache" => ~Live(k)'
                 /\ handler'[r].step = "insert" => table'[k] = Null
      PROVE  RowStaysFree'
    <2> SUFFICES ASSUME NEW q \in Replicas, q \notin overtaken', handler'[q] # Null
                 PROVE  /\ handler'[q].step # "cache" =>
                              table'[handler'[q].key] = Null \/ ~table'[handler'[q].key].live
                        /\ handler'[q].step = "insert" => table'[handler'[q].key] = Null
        BY DEF RowStaysFree, Live
    <2>1. CASE q = r
        BY <1>a, <2>1 DEF Live
    <2>2. CASE q # r
        <3>1. handler'[q] = handler[q] /\ handler[q] # Null /\ q \notin overtaken
              /\ handler[q].key \in Keys
            BY <1>0, <1>a, <2>2
        <3>2. table'[handler[q].key] = table[handler[q].key] \/ table'[handler[q].key] = Null
            BY <1>a, <3>1
        <3>3. QED
            BY <1>0, <3>1, <3>2 DEF RowStaysFree, Live
    <2>3. QED
        BY <2>1, <2>2
<1>1. ASSUME NEW r \in Replicas, NEW k \in Keys, NEW p \in Payloads,
             CacheHit(r, k, p) \/ LookupHit(r, k, p)
      PROVE  RowStaysFree'
    BY <1>0, <1>1 DEF CacheHit, LookupHit, RowStaysFree, Live
<1>2. ASSUME NEW r \in Replicas, NEW k \in Keys, NEW p \in Payloads, LookupMiss(r, k, p)
      PROVE  RowStaysFree'
    <2> DEFINE step == IF table[k] = Null THEN "mutate" ELSE "expired"
    <2>1. step \in Steps /\ Enter(r, k, p, step)
        BY <1>2 DEF LookupMiss, Steps
    <2>2. /\ handler'[r].key = k /\ handler'[r].step # "insert"
          /\ \A q \in Replicas \ {r} : handler'[q] = handler[q]
        BY <1>0, <2>1, EnterStep
    <2>3. ~Live(k) /\ table' = table /\ overtaken' = overtaken
        BY <1>2 DEF LookupMiss, Found
    <2>4. QED
        BY <1>a, <2>2, <2>3 DEF Live
<1>3. ASSUME NEW r \in Replicas, NEW step \in Steps \ {"cache"}, handler[r] # Null, GoTo(r, step),
             overtaken' = overtaken,
             \/ table' = table /\ ~Live(handler[r].key)
                    /\ (step = "insert" => table[handler[r].key] = Null)
             \/ table' = [table EXCEPT ![handler[r].key] = Null]
      PROVE  RowStaysFree'
    <2>1. PICK k \in Keys : k = handler[r].key
        BY <1>0, <1>3
    <2>2. /\ handler'[r].key = k /\ handler'[r].step = step
          /\ \A q \in Replicas \ {r} : handler'[q] = handler[q]
        BY <1>0, <1>3, <2>1, GoToStep
    <2>3. /\ \A j \in Keys : table'[j] = table[j] \/ table'[j] = Null
          /\ ~Live(k)'
          /\ step = "insert" => table'[k] = Null
        BY <1>0, <1>3, <2>1 DEF TypeOK, Live
    <2>4. QED
        BY <1>3, <1>a, <2>2, <2>3
<1>4. ASSUME NEW r \in Replicas, DeleteExpired(r) \/ StoreMissing(r) \/ Replace(r)
      PROVE  RowStaysFree'
    <2>1. CASE DeleteExpired(r)
        BY <1>3, <2>1 DEF DeleteExpired, At, Steps
    <2>2. CASE Replace(r)
        BY <1>3, <2>2 DEF Replace, At, Steps
    <2>3. CASE StoreMissing(r)
        BY <1>3, <2>3 DEF StoreMissing, At, Steps
    <2>4. QED
        BY <1>4, <2>1, <2>2, <2>3
<1>5. ASSUME NEW r \in Replicas, Mutate(r)
      PROVE  RowStaysFree'
    <2>1. PICK k \in Keys : k = handler[r].key
        BY <1>0, <1>5 DEF Mutate, At
    <2>2. PICK e : handler' = [handler EXCEPT ![r] =
                       [key |-> k, payload |-> handler[r].payload, step |-> "store", effect |-> e]]
        BY <1>5, <2>1 DEF Mutate
    <2>3. /\ handler'[r].key = k /\ handler'[r].step = "store"
          /\ \A q \in Replicas \ {r} : handler'[q] = handler[q]
        BY <1>0, <2>2 DEF TypeOK
    <2>4. /\ handler[r] # Null /\ handler[r].step = "mutate"
          /\ table' = table /\ overtaken' = overtaken
        BY <1>5 DEF Mutate, At
    <2>5. r \notin overtaken => ~Live(k)'
        BY <1>0, <2>1, <2>4 DEF RowStaysFree, Live
    <2>6. QED
        BY <1>a, <2>3, <2>4, <2>5
<1>6. ASSUME NEW r \in Replicas, handler[r] # Null, Leave(r), table' = table
      PROVE  RowStaysFree'
    <2>1. handler'[r] = Null /\ \A q \in Replicas \ {r} : handler'[q] = handler[q]
        BY <1>0, <1>6 DEF Leave, TypeOK
    <2>2. PICK k \in Keys : k = handler[r].key
        BY <1>0, <1>6
    <2>3. QED
        BY <1>6, <1>a, <2>1 DEF Leave
<1>7. ASSUME NEW r \in Replicas, Refuse(r) \/ StoreFound(r) \/ CacheSet(r) \/ Crash(r)
      PROVE  RowStaysFree'
    BY <1>6, <1>7 DEF Refuse, StoreFound, CacheSet, Crash, Finish, At
<1>8. ASSUME NEW r \in Replicas, Insert(r)
      PROVE  RowStaysFree'
    <2>1. PICK k \in Keys : k = handler[r].key
        BY <1>0, <1>8 DEF Insert, At
    <2>2. CASE table[k] # Null
        BY <1>6, <1>8, <2>1, <2>2 DEF Insert, At, Finish
    <2>3. CASE table[k] = Null
        <3>1. /\ handler'[r].step = "cache"
              /\ \A q \in Replicas \ {r} : handler'[q] = handler[q]
            BY <1>0, <1>8, <2>1, <2>3, GoToStep DEF Insert, At, Steps
        <3>2. /\ \A j \in Keys \ {k} : table'[j] = table[j]
              /\ \A q \in Replicas \ {r} : q \notin overtaken' =>
                    q \notin overtaken /\ (handler[q] # Null => handler[q].key # k)
            BY <1>0, <1>8, <2>1, <2>3 DEF Insert, TypeOK
        <3>3. QED
            BY <1>0, <3>1, <3>2 DEF RowStaysFree, Live
    <2>4. QED
        BY <2>2, <2>3
<1>9. ASSUME NEW k \in Keys, Expire(k)
      PROVE  RowStaysFree'
    <2> DEFINE row == [table[k] EXCEPT !.live = FALSE]
    <2>1. table[k] # Null /\ table[k] \in Record
        BY <1>0, <1>9 DEF Expire, Live, TypeOK
    <2>2. ~row.live
        BY <2>1 DEF Record
    <2>3. table'[k] = row /\ \A j \in Keys \ {k} : table'[j] = table[j]
        BY <1>0, <1>9 DEF Expire, TypeOK
    <2> HIDE DEF row
    <2>4. ~Live(k)'
        BY <2>2, <2>3 DEF Live
    <2>5. handler' = handler /\ overtaken' = overtaken
        BY <1>9 DEF Expire
    <2>6. QED
        BY <1>0, <2>1, <2>3, <2>4, <2>5 DEF RowStaysFree, Live
<1>10. ASSUME NEW k \in Keys, Evict(k)
       PROVE  RowStaysFree'
    BY <1>0, <1>10 DEF Evict, RowStaysFree, Live
<1>11. CASE UNCHANGED vars
    BY <1>0, <1>11 DEF vars, RowStaysFree, Live
<1>12. QED
    BY <1>1, <1>2, <1>4, <1>5, <1>7, <1>8, <1>9, <1>10, <1>11 DEF Next, Receive, Proceed

\* A request that has committed its mutation is answered with it, unless another one of
\* its key has stored a record since it looked the key up.
THEOREM FailuresAreClean == Spec => FailureMeansNoEffect
<1> DEFINE Clean == \A r \in Replicas \ overtaken :
               answer'[r] # answer[r] /\ answer'[r].did # Null => answer'[r].status = "ok"
<1>1. FreeInv /\ [Next]_vars => [Clean]_vars
    <2> SUFFICES ASSUME FreeInv, Next, NEW r \in Replicas, r \notin overtaken,
                        answer'[r] # answer[r], answer'[r].did # Null
                 PROVE  answer'[r].status = "ok"
        OBVIOUS
    <2>0. TypeOK /\ RowStaysFree
        BY DEF FreeInv, TypeInv
    <2>1. ASSUME NEW q \in Replicas, NEW k, NEW p, NEW status, NEW shows, NEW did,
                 Reply(q, k, p, status, shows, did)
          PROVE  q = r /\ status = answer'[r].status /\ did = answer'[r].did
        BY <2>0, <2>1 DEF Reply, TypeOK
    <2>2. ASSUME NEW q \in Replicas,
                 Refuse(q) \/ \E k \in Keys, p \in Payloads : CacheHit(q, k, p) \/ LookupHit(q, k, p)
          PROVE  FALSE
        <3>1. \E k, p, status, shows : Reply(q, k, p, status, shows, Null)
            BY <2>2 DEF CacheHit, LookupHit, Refuse
        <3>2. QED
            BY <2>1, <3>1
    <2>3. ASSUME NEW q \in Replicas, NEW status, Finish(q, status)
          PROVE  q = r /\ answer'[r].status = status
        BY <2>1, <2>3 DEF Finish
    <2>4. ASSUME NEW q \in Replicas, StoreFound(q)
          PROVE  FALSE
        BY <2>0, <2>3, <2>4 DEF StoreFound, At, RowStaysFree
    <2>5. ASSUME NEW q \in Replicas, Insert(q)
          PROVE  FALSE
        BY <2>0, <2>3, <2>5 DEF Insert, At, RowStaysFree
    <2>6. ASSUME NEW q \in Replicas, CacheSet(q)
          PROVE  answer'[r].status = "ok"
        BY <2>3, <2>6 DEF CacheSet
    <2>7. ASSUME NEW q \in Replicas, Proceed(q)
          PROVE  answer'[r].status = "ok"
        BY <2>2, <2>4, <2>5, <2>6, <2>7
        DEF Proceed, DeleteExpired, Mutate, StoreMissing, Replace, Refuse
    <2>8. ASSUME NEW q \in Replicas, Receive(q) \/ Crash(q)
          PROVE  FALSE
        BY <2>2, <2>8 DEF Receive, LookupMiss, Crash
    <2>9. QED
        BY <2>7, <2>8 DEF Next, Expire, Evict
<1>2. Spec => []FreeInv
    BY FreeInit, FreeStep, PTL DEF Spec
<1>3. QED
    BY <1>1, <1>2, PTL DEF Spec, FailureMeansNoEffect
===============================================================================
