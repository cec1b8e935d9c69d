---------------------------- MODULE WebhookDelivery ----------------------------
(***************************************************************************)
(* Webhook deliveries.  A mutation of an API replica writes its events and,*)
(* for each subscription, a delivery row, and posts it inside its own      *)
(* transaction.  The worker and the "process" endpoint post again what is  *)
(* due, the "retry" endpoint posts one delivery on demand.                 *)
(*                                                                         *)
(* Every transaction posts from the rows as it loaded them, then updates   *)
(* the columns it changed; the update takes the row lock until the commit  *)
(* (PostgreSQL, READ COMMITTED).                                           *)
(***************************************************************************)
EXTENDS Naturals, Sequences, FiniteSets

CONSTANTS
    Replicas,       \* API processes; each runs one handler at a time
    Workers,        \* processes of worker.py
    Hooks,
    Orgs,
    OrgOf,          \* OrgOf[h]: the organization of subscription h
    DefaultOrg,     \* settings.default_organization_id
    MaxAttempts,    \* settings.webhook_max_attempts
    BatchSize,      \* settings.webhook_delivery_batch_size
    MaxEvents,      \* bound: events ever emitted
    MaxCrashes,     \* bound: transactions ever cut short
    ByHand,         \* TRUE: operators call the process and retry endpoints
    Raising,        \* subscriptions whose post raises instead of failing
    Null

Procs == Replicas \cup Workers
Events == 1..MaxEvents
Deliveries == Events \X Hooks

ASSUME WebhookAssumption ==
    /\ Workers \cap Replicas = {}
    /\ IsFiniteSet(Hooks)
    /\ OrgOf \in [Hooks -> Orgs]
    /\ MaxAttempts \in Nat \ {0}
    /\ BatchSize \in Nat \ {0}
    /\ MaxEvents \in Nat
    /\ MaxCrashes \in Nat
    /\ ByHand \in BOOLEAN
    /\ Raising \in SUBSET Hooks

VARIABLES
    hooks,      \* hooks[h]: "absent", "active", "deleted"
    issued,     \* the events that have got an id
    kept,       \* the events committed
    rows,       \* rows[d]: the committed delivery row
    phase,      \* phase[p]: "idle", "run", or the outcome of the post just made
    todo,       \* todo[p]: the rows loaded and still to be posted, in order
    writes,     \* writes[p][d]: the update of d waiting for the commit of p
    emitted,    \* emitted[p]: the events of the transaction of p
    posts,      \* posts[d]: posts sent, counted up to MaxAttempts + 1
    accepted,   \* the deliveries a receiver has answered 2xx
    crashes

vars == <<hooks, issued, kept, rows, phase, todo, writes, emitted, posts, accepted, crashes>>

\* next_attempt_at is absent, passed ("due") or in the future ("later").
Row == [status : {"pending", "retry_scheduled", "delivered", "failed"},
        attempts : Nat, next : {Null, "due", "later"}]

\* What is committed has been attempted in the same transaction.
Attempt == [status : {"retry_scheduled", "delivered", "failed"},
            attempts : Nat \ {0}, next : {Null, "due", "later"}]

\* A delivery and its row as the transaction loaded it.
Job == [d : Deliveries, was : Row]

\* An update: the row as loaded and as set.
Write == [was : Row, now : Attempt]

ASSUME NullAssumption == Null \notin Row /\ Null \notin Write /\ Null \notin {"due", "later"}

TypeOK ==
    /\ hooks \in [Hooks -> {"absent", "active", "deleted"}]
    /\ issued \in 0..MaxEvents
    /\ kept \in SUBSET Events
    /\ rows \in [Deliveries -> Attempt \cup {Null}]
    /\ phase \in [Procs -> {"idle", "run", "accepted", "refused"}]
    /\ todo \in [Procs -> Seq(Job)]
    /\ writes \in [Procs -> [Deliveries -> Write \cup {Null}]]
    /\ emitted \in [Procs -> SUBSET Events]
    /\ posts \in [Deliveries -> 0..(MaxAttempts + 1)]
    /\ accepted \in SUBSET Deliveries
    /\ crashes \in 0..MaxCrashes

NoWrites == [d \in Deliveries |-> Null]

Init ==
    /\ hooks = [h \in Hooks |-> "absent"]
    /\ issued = 0
    /\ kept = {}
    /\ rows = [d \in Deliveries |-> Null]
    /\ phase = [p \in Procs |-> "idle"]
    /\ todo = [p \in Procs |-> <<>>]
    /\ writes = [p \in Procs |-> NoWrites]
    /\ emitted = [p \in Procs |-> {}]
    /\ posts = [d \in Deliveries |-> 0]
    /\ accepted = {}
    /\ crashes = 0

-------------------------------------------------------------------------------
(* One attempt *)

\* Variants with a plausible bug, for the mutation runs: the last attempt is
\* scheduled again; a batch takes rows whatever their status, or only those without a
\* time; a timeout is taken for a success; a success is not counted.
NextAttemptAlways(n) == "later"
RetriableAny(row) == row # Null
RetriableUnscheduled(row) == row # Null /\ row.status = "retry_scheduled" /\ row.next = Null
AttemptedDelivered(row, outcome) ==
    [status |-> "delivered", attempts |-> row.attempts + 1, next |-> Null]
AttemptedUncounted(row, outcome) ==
    [status |-> IF outcome = "accepted" THEN "delivered" ELSE "retry_scheduled",
     attempts |-> IF outcome = "accepted" THEN row.attempts ELSE row.attempts + 1,
     next |-> IF outcome = "accepted" THEN Null ELSE "later"]

\* _next_webhook_attempt_at
NextAttempt(n) == IF n >= MaxAttempts THEN Null ELSE "later"

\* _attempt_webhook_delivery, once the dispatcher has answered
Attempted(row, outcome) ==
    LET n == row.attempts + 1
    IN  IF outcome = "accepted"
          THEN [status |-> "delivered", attempts |-> n, next |-> Null]
          ELSE [status |-> IF NextAttempt(n) = Null THEN "failed" ELSE "retry_scheduled",
                attempts |-> n, next |-> NextAttempt(n)]

\* UPDATE sets the columns whose value differs from the loaded one.  Two times to
\* come are never equal, so next_attempt_at is left out only when both are absent.
Merged(row, w) ==
    [status   |-> IF w.now.status = w.was.status THEN row.status ELSE w.now.status,
     attempts |-> IF w.now.attempts = w.was.attempts THEN row.attempts ELSE w.now.attempts,
     next     |-> IF w.now.next = Null /\ w.was.next = Null THEN row.next ELSE w.now.next]

\* Another transaction holds the row lock of d.
Blocked(p, d) == \E q \in Procs \ {p} : writes[q][d] # Null

\* The receiver answers 2xx, or anything else, or not at all in time.
Post(p) ==
    /\ phase[p] = "run"
    /\ todo[p] # <<>>
    /\ LET d == Head(todo[p]).d
       IN  /\ d[2] \notin Raising
           /\ posts' = [posts EXCEPT ![d] = IF @ > MaxAttempts THEN @ ELSE @ + 1]
           /\ \/ /\ phase' = [phase EXCEPT ![p] = "accepted"]
                 /\ accepted' = accepted \cup {d}
              \/ /\ phase' = [phase EXCEPT ![p] = "refused"]
                 /\ UNCHANGED accepted
    /\ UNCHANGED <<hooks, issued, kept, rows, todo, writes, emitted, crashes>>

\* The flush of the attempt, which waits for the row lock.
Update(p) ==
    /\ phase[p] \in {"accepted", "refused"}
    /\ LET j == Head(todo[p])
       IN  /\ ~Blocked(p, j.d)
           /\ writes' = [writes EXCEPT ![p][j.d] =
                            [was |-> j.was, now |-> Attempted(j.was, phase[p])]]
    /\ todo' = [todo EXCEPT ![p] = Tail(@)]
    /\ phase' = [phase EXCEPT ![p] = "run"]
    /\ UNCHANGED <<hooks, issued, kept, rows, emitted, posts, accepted, crashes>>

-------------------------------------------------------------------------------
(* Transactions *)

Ends(p) ==
    /\ phase' = [phase EXCEPT ![p] = "idle"]
    /\ todo' = [todo EXCEPT ![p] = <<>>]
    /\ writes' = [writes EXCEPT ![p] = NoWrites]
    /\ emitted' = [emitted EXCEPT ![p] = {}]

\* The inserts of the emitting transaction and the updates of the others.
Commit(p) ==
    /\ phase[p] = "run"
    /\ todo[p] = <<>>
    /\ rows' = [d \in Deliveries |->
                   IF writes[p][d] = Null THEN rows[d]
                   ELSE IF rows[d] = Null THEN writes[p][d].now
                   ELSE Merged(rows[d], writes[p][d])]
    /\ kept' = kept \cup emitted[p]
    /\ Ends(p)
    /\ UNCHANGED <<hooks, issued, posts, accepted, crashes>>

RollsBack(p) ==
    /\ Ends(p)
    /\ UNCHANGED <<hooks, issued, kept, rows, posts, accepted>>

\* Variant with a plausible bug: no answer, or another than 2xx, raises.
RaiseWhenRefused(p) ==
    /\ phase[p] = "refused"
    /\ RollsBack(p)
    /\ UNCHANGED crashes

\* The dispatcher raises: json.dumps refuses the datetime of occurred_at, for every
\* subscription unless the dispatcher is stubbed; a target_url httpx cannot parse
\* raises no HTTPError either.  The exception leaves the handler, or the worker,
\* with its transaction undone.
Raise(p) ==
    /\ phase[p] = "run"
    /\ todo[p] # <<>>
    /\ Head(todo[p]).d[2] \in Raising
    /\ RollsBack(p)
    /\ UNCHANGED crashes

\* The process stops, or its connection is lost, anywhere in the transaction.  A
\* process that stops is started again.
Crash(p) ==
    /\ phase[p] # "idle"
    /\ crashes < MaxCrashes
    /\ crashes' = crashes + 1
    /\ RollsBack(p)

WaitsFor(p, q) ==
    /\ phase[p] \in {"accepted", "refused"}
    /\ writes[q][Head(todo[p]).d] # Null

\* PostgreSQL cancels a transaction of a circle that waits for itself.
CancelDeadlocked(p) ==
    /\ \E S \in SUBSET Procs :
         /\ p \in S
         /\ Cardinality(S) > 1
         /\ \A s \in S : \E t \in S \ {s} : WaitsFor(s, t)
         /\ \A t \in S : \E s \in S \ {t} : WaitsFor(s, t)
    /\ RollsBack(p)
    /\ UNCHANGED crashes

\* The variables a transaction begins with.
Begins(p, jobs) ==
    /\ phase' = [phase EXCEPT ![p] = "run"]
    /\ todo' = [todo EXCEPT ![p] = jobs]

-------------------------------------------------------------------------------
(* _emit_event, and test_webhook which posts to one subscription only *)

\* The delivery rows are inserted pending, due at once, and posted one by one.
Emission(e, targets) ==
    { [i \in 1..Cardinality(targets) |->
         [d |-> <<e, f[i]>>, was |-> [status |-> "pending", attempts |-> 0, next |-> "due"]]] :
      f \in {g \in [1..Cardinality(targets) -> targets] :
               \A i, j \in DOMAIN g : g[i] = g[j] => i = j} }

\* A mutation may emit several events before it commits.
Emit(p) ==
    /\ p \in Replicas
    /\ phase[p] = "idle" \/ (phase[p] = "run" /\ todo[p] = <<>> /\ emitted[p] # {})
    /\ issued < MaxEvents
    /\ issued' = issued + 1
    /\ emitted' = [emitted EXCEPT ![p] = @ \cup {issued'}]
    /\ \E o \in Orgs :
         LET active == {h \in Hooks : OrgOf[h] = o /\ hooks[h] = "active"}
         IN  \E targets \in SUBSET active :     \* by their event_types
               \E jobs \in Emission(issued', targets) : Begins(p, jobs)
    /\ UNCHANGED <<hooks, kept, rows, writes, posts, accepted, crashes>>

-------------------------------------------------------------------------------
(* process_webhook_deliveries and retry_webhook_delivery *)

Retriable(row) ==
    /\ row # Null
    /\ row.status \in {"pending", "retry_scheduled"}
    /\ row.next \in {Null, "due"}

DueIn(o) ==
    {d \in Deliveries :
        hooks[d[2]] = "active" /\ OrgOf[d[2]] = o /\ Retriable(rows[d])}

\* The oldest rows first, at most BatchSize of them; rows of one event are in no
\* order.
Batches(due) ==
    LET n == IF Cardinality(due) < BatchSize THEN Cardinality(due) ELSE BatchSize
    IN  {s \in [1..n -> due] :
           /\ \A i, j \in 1..n : i < j => s[i] # s[j] /\ s[i][1] <= s[j][1]
           /\ \A i \in 1..n, d \in due \ {s[j] : j \in 1..n} : s[i][1] <= d[1]}

Sweep(p, o) ==
    /\ phase[p] = "idle"
    /\ \/ p \in Workers /\ o = DefaultOrg
       \/ p \in Replicas /\ ByHand
    /\ \E s \in Batches(DueIn(o)) :
         Begins(p, [i \in DOMAIN s |-> [d |-> s[i], was |-> rows[s[i]]]])
    /\ UNCHANGED <<hooks, issued, kept, rows, writes, emitted, posts, accepted, crashes>>

\* Neither the limit of attempts nor the subscription's state is asked for.
Retry(p, d) ==
    /\ ByHand
    /\ p \in Replicas
    /\ phase[p] = "idle"
    /\ rows[d] # Null
    /\ rows[d].status # "delivered"
    /\ rows[d].attempts <= MaxAttempts      \* bound
    /\ Begins(p, <<[d |-> d, was |-> rows[d]]>>)
    /\ UNCHANGED <<hooks, issued, kept, rows, writes, emitted, posts, accepted, crashes>>

-------------------------------------------------------------------------------
(* create_webhook, delete_webhook, and time *)

CreateWebhook(h) ==
    /\ hooks[h] = "absent"
    /\ hooks' = [hooks EXCEPT ![h] = "active"]
    /\ UNCHANGED <<issued, kept, rows, phase, todo, writes, emitted, posts, accepted, crashes>>

\* The deliveries of the subscription stay.
DeleteWebhook(h) ==
    /\ hooks[h] # "absent"
    /\ hooks' = [hooks EXCEPT ![h] = "deleted"]
    /\ UNCHANGED <<issued, kept, rows, phase, todo, writes, emitted, posts, accepted, crashes>>

\* The time of the next attempt comes.
Tick(d) ==
    /\ rows[d] # Null
    /\ rows[d].next = "later"
    /\ rows' = [rows EXCEPT ![d].next = "due"]
    /\ UNCHANGED <<hooks, issued, kept, phase, todo, writes, emitted, posts, accepted, crashes>>

\* A transaction that has begun goes on.
Proceed(p) == Post(p) \/ Update(p) \/ Commit(p) \/ Raise(p) \/ CancelDeadlocked(p)

Next ==
    \/ \E p \in Procs : Proceed(p) \/ Crash(p) \/ Emit(p)
    \/ \E p \in Procs, o \in Orgs : Sweep(p, o)
    \/ \E p \in Procs, d \in Deliveries : Retry(p, d)
    \/ \E h \in Hooks : CreateWebhook(h) \/ DeleteWebhook(h)
    \/ \E d \in Deliveries : Tick(d)

\* A transaction ends, a worker sweeps again and again, time passes.
Fairness ==
    /\ \A p \in Procs : WF_vars(Proceed(p))
    /\ \A p \in Workers : WF_vars(Sweep(p, DefaultOrg))
    /\ \A d \in Deliveries : WF_vars(Tick(d))

Spec == Init /\ [][Next]_vars

FairSpec == Spec /\ Fairness

-------------------------------------------------------------------------------
(* Properties *)

\* No transaction works on d.
Quiet(d) ==
    \A p \in Procs :
        /\ writes[p][d] = Null
        /\ \A i \in 1..Len(todo[p]) : todo[p][i].d # d

\* n posts of d have been sent, as far as they are counted.
Sent(n, d) == n <= posts[d] \/ posts[d] > MaxAttempts

\* A row claims nothing that did not happen, whoever else was posting the delivery
\* and whatever was undone: one shown as delivered has been accepted by its receiver,
\* and no attempt is counted without a post of its own.
RowsClaimOnlyPosts ==
    \A d \in Deliveries : rows[d] # Null =>
        /\ rows[d].status = "delivered" => d \in accepted
        /\ Sent(rows[d].attempts, d)

\* When nothing works on a delivery its row tells what happened: whether a post was
\* accepted, the posts sent (a crash, or a post that raises, may hide some of them), and
\* a next attempt exactly when there will be one.
LedgerMatches ==
    \A d \in Deliveries : Quiet(d) =>
        /\ rows[d] # Null =>
              /\ rows[d].attempts <= posts[d]
              /\ rows[d].status = "delivered" => d \in accepted
              /\ rows[d].next # Null <=> rows[d].status = "retry_scheduled"
        /\ crashes = 0 /\ Raising = {} =>
              /\ posts[d] = IF rows[d] = Null THEN 0 ELSE rows[d].attempts
              /\ d \in accepted => rows[d] # Null /\ rows[d].status = "delivered"

\* What the rows tell, committed ones and those that do not exist yet.
Ledger == INSTANCE DeliveryLedger WITH
    ledger <- [d \in Deliveries |->
                  [state    |-> IF rows[d] = Null \/ rows[d].status = "retry_scheduled"
                                  THEN "open" ELSE rows[d].status,
                   attempts |-> IF rows[d] = Null THEN 0 ELSE rows[d].attempts]]

\* The transactions, whose posts leave before anything is committed and whose
\* commits record several attempts, keep the ledger of DeliveryLedger: no post of a
\* delivery that is delivered or failed, no attempt unrecorded but by a transaction
\* undone, no more than MaxAttempts recorded, each with a post of its own.
ImplementsLedger == Ledger!Spec

\* An event leaves its transaction only by being committed, or because the process
\* stops: delivering it does not undo the mutation it tells of.  With the dispatcher as
\* shipped it does.
EventsAreKept ==
    [][crashes' = crashes
          => \A p \in Procs : emitted[p] \subseteq emitted'[p] \cup kept']_vars

\* The transaction of p is about to make a post that raises.
AboutToRaise(p) == phase[p] = "run" /\ todo[p] # <<>> /\ Head(todo[p]).d[2] \in Raising

\* Nothing but a crash or a post that raises undoes a mutation with its events: not the
\* answer of a receiver, and not the row locks, by which the worker and the operators'
\* requests undo each other.
OnlyRaisingUndoes ==
    [][crashes' = crashes
          => \A p \in Procs : emitted[p] \subseteq emitted'[p] \cup kept' \/ AboutToRaise(p)]_vars

Waits(d) == rows[d] # Null /\ rows[d].status = "retry_scheduled"

\* A delivery that waits for a retry ends delivered or failed, unless its
\* subscription is deleted.
RetriesSettle ==
    \A d \in Deliveries : Waits(d) ~> ~Waits(d) \/ hooks[d[2]] # "active"
===============================================================================
