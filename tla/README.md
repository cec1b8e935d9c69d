# Verification of the voice agent platform

TLA+ models of the API, its webhook worker and their database
(`src/apps/api/src/voiceagent_api`), checked with TLC on small instances and,
for what matters most, proved with TLAPS for every instance. `PROJECT.json`
lists components, runs, mutants, the source lines of each definition,
findings, hazards and theorems.

## 1. The system

A FastAPI process serves `/v1`. Every handler, and the dependency that checks
the API key, is an `async def` with a synchronous body: **one process runs one
handler at a time**, from its first statement to its answer. Concurrency comes
from other processes: further API replicas (`k8s/deployment.yaml` runs two and
scales to twenty) and the webhook worker (`worker.py`). They share

- the SQL database. PostgreSQL at READ COMMITTED in production, SQLite by
  default. Nothing is locked by reading. The ORM's UPDATE sets only the columns
  whose value differs from the one loaded, holds the row from the flush to the
  commit, and an exception before the commit undoes everything;
- Valkey, when configured: cached idempotent responses and rate-limit windows;
- the receivers of webhooks, to which both post.

| component | state | operations | talks to |
|---|---|---|---|
| slot arithmetic (`store.py` 79-127, 1036-1254) | none: agent, bookings, clock in | availability; check of one slot | bookings, calls (tool `calendar.lookup_slots`) |
| bookings | `bookings` | create, update | slots, calendar adapter, events |
| idempotency | `idempotency_keys`, cache | look up, store | around every mutation but the process endpoint, the organization's PATCH, the DELETEs and billing webhooks |
| webhooks | `events`, `webhook_subscriptions`, `webhook_deliveries` | emit (inside a mutation), process, retry, create, delete, test | every mutation that emits, the worker, receivers |
| calls | `calls`, `call_turns`, `call_summaries` | create, add turn, respond, complete | runtime, slots, events |
| agents and versions | `agents`, `agent_versions` | create, instantiate template, update, publish, roll back | read by calls and slots |
| billing | `subscriptions`, `licenses`, `billing_webhook_events` | provider webhook, validate licence | Lemon Squeezy, events |
| integrations | `integrations` | connect, test | - |
| process start, API keys | `organizations`, `plans`, `templates`, `partners`, `api_keys` | seed at start, use (re-hashes), create, revoke | every request |
| organizations, partners | `organizations`, `partner_accounts` | rename, create an account | slugs shared |
| rate limiter | Valkey sorted sets | check | every request |
| runtime, STT/LLM/TTS adapters | none | respond | OpenAI |
| phone numbers, knowledge bases | one table each | create, update, add document | - |
| usage, dashboard, transcripts | none | reads | - |
| web control plane (`apps/web`) | browser state | one request per click, overlapping | API |

What makes it hard: check-then-write without locks in different processes;
network calls (posts, providers) inside open transactions; three transactions
per idempotent request and a crash between any two; merges by column; retries
by worker and by hand; expiry; provider reports repeated and out of order;
processes that seed one database at once; clocks that differ. `PROJECT.json`
names each hazard at its line and the properties that watch it.

## 2. The modules

| module | models | checked with | proved in |
|---|---|---|---|
| `Scheduling` | slot arithmetic, constant operators | through `MCBookings` | `BookingsProofs` |
| `BookingCalendar` | abstract: slots held one at a time | refined by `Bookings` | - |
| `Bookings` | create_booking, update_booking, schedule edits | `MCBookings` | `BookingsProofs` |
| `Availability` | the availability endpoint over the state of `Bookings` | `MCBookings` | `BookingsProofs` |
| `Idempotency` | lookup, mutation, store, expiry, cache, crash | `MCIdempotency` | `IdempotencyProofs` |
| `WebhookDelivery` | emission, posts, worker, endpoints, locks | `MCWebhookDelivery` | `WebhookDeliveryProofs` |
| `DeliveryLedger` | abstract: deliveries recorded attempt by attempt | refined by `WebhookDelivery` | `WebhookDeliveryProofs` |
| `Calls` | the four call handlers | `MCCalls` | `CallsProofs` |
| `AgentVersions` | configuration, publications, rollbacks | `MCAgentVersions` | `AgentVersionsProofs` |
| `ProviderRecords` | billing webhooks, licence validation, integrations | `MCProviderRecords` | `ProviderRecordsProofs` |
| `Tenancy` | seeding at start, API keys, slugs | `MCTenancy` | `TenancyProofs` |
| `RateLimiter` | the sliding window in Valkey | `MCRateLimiter` | `RateLimiterProofs` |

**How a handler becomes actions.** A handler of one process cannot be
interrupted by another of the same process, but other processes run between its
reads and its commit. So a handler is two actions, *check* (its reads and
decisions, the prepared write in `pending[r]`) and *commit*, with a rollback in
between for exceptions and crashes; a reply and the validation of a licence have a
second read between them. `Idempotency` splits at every transaction.
`WebhookDelivery` splits further, at every post and at every flush, because
there locks are held and posts leave before the commit. A handler that only
inserts a fresh row is one action. The instant of the commit stands for flush
and commit together where no lock is waited for.

**What overlapped.** Nothing in the code keeps two replicas from working on one
row at once, and some things are lost where they do. The models remember it in
history variables that no guard reads. In `Calls`, `AgentVersions`,
`ProviderRecords` and `Idempotency` a handler is *overtaken* when another one has
committed what it is about to write (in `Idempotency`: has stored the record of
its key) since it read; `late`, `mixed`, `strayed` and `doubled` are the turns,
calls, agents and providers whose last writer was. The properties say what only an
overtaken handler may leave behind, and that the next one sets it right: a row
once mixed is not given up. `disturbed` (`Idempotency`) is coarser, the windows
of a key in which handlers of the key overlapped or one stopped between its
mutation and its record, as no later request undoes a second effect, and
`request.raced` (`Tenancy`) marks the writers of slugs that met another.
Properties that hold whatever overlaps do not mention any of these.

`Scheduling`/`Bookings`. Time is in minutes and an agent has one UTC offset (no
daylight-saving change); the slot loop is the set of *cursors* (day, key, range,
index) in loop order, which decides which slots fit under the limit.
`NaiveStore = TRUE` is SQLite, which returns datetimes without their offset.
The contact fields, which no decision reads, are left out.

`Availability`. A read in a transaction of its own. The query parameters (instant,
days, length and number of slots) are any of their sets within the ranges the
endpoint accepts. Its properties are about slots to come.

`Idempotency`. `Keys` are the identities (organization, method, path, key).
`window[k]` counts the expiries of the key's record: it tells which effects
belong to the same record. `answer[r]` shows the response (which effect it
describes) beside what the request committed. The cache may be unreachable or
evict at any time. Crashes, expiries, late deletions and stale cache entries are
no excuse in `FailureMeansNoEffect`: only another request's record stored since the
lookup turns a committed request into a 409 or 500.

`WebhookDelivery`. `rows` holds committed deliveries, `writes` the flushed and
not committed ones (their row locks), `todo` what a transaction has loaded.
`Raising` are subscriptions whose post raises instead of failing; with the
dispatcher as shipped these are all of them (`webhooks_as_shipped`), with a
dispatcher that encodes `occurred_at` only those with an unparsable URL. Posts are counted up to
`MaxAttempts + 1`. `next` is only *later* or *due*; the back-off is left out. A delivery's entry in
`DeliveryLedger` is its committed row: *open* while there is none or it waits for
a retry. A commit of several rows is one recording of all of them; flushes, locks,
loads and crashes are stutters, and a transaction undone leaves posts unrecorded.

`Calls`. `create_call` looks at the agent's existence only, so the model has no
agents. A turn keeps the indices its reply was given. A reply counts the turns
(`Respond`) and reads the last of them (`Recall`) in two SELECTs, between which
other replicas may commit. Duration, recording flag and end time behave as
`outcome` does and are left out, and so is what the providers say.

`AgentVersions`. The five configuration columns are interchangeable `Fields`. The
time of a version is what the clock of its replica shows, in any order: the version
a rollback takes for the newest may not be the one published last.

`ProviderRecords`. A report is an id (its attributes), a status it may lack and an
organization it may lack; the provider may send any report at any time, again and
late. The columns taken from its attributes are one (`Row.attributes`): where two
reports overlap the code may mix them column by column, the model keeps one of the
two, and no property is about a row whose last report was overtaken. `log` holds
the `billing_webhook_events` rows and, beside them, the
`license.validated` events, in the order of commits. A validation asks the
provider first and loads the row later, a webhook loads at once. The first
insert is refused by the primary key when the row has come to exist. Integrations
have no such constraint: `Found(p)` may be any of the provider's rows. Reports of
other resource types only add a log row and are left out.

`Tenancy`. A process is down, at one of the four seeds, or serving; a seed is a
look (`missing[p]`) and a commit, which a primary key may refuse, ending the
process. The database is new or old, then with SHA-256 hashes and perhaps
without bootstrap keys that settings have got since (`added`). `keys[s]` are the
rows whose hash verifies the secret `s`. A request is found, admitted (the UPDATE
of the key), and then creates or revokes a key, creates an account, renames the
organization or does something else. A process of the worker never gets
requests; it is one that only starts. Two rows of one seed (three plans) are
always written together.

`RateLimiter`. One pair of address and path; every pair has its own window. The
pipeline is one MULTI/EXEC, so one action; stamps are taken before it, by
the clock of the replica (`Skew`), and reach Valkey up to `MaxDelay` later or
twice (`retry_on_timeout`). Valkey may be unreachable and may lose its data. In
its first call a process that cannot reach it lets the request through without
counting it (`PassUncounted`); the client is kept all the same, so later requests
are counted or end in a 500 (`Fail`). `WindowBound` bounds the counted requests and
the uncounted ones apart. A member of the set is the time itself (`str(now)`): two
requests with the same floating-point time, on two replicas or one, would be one
member; the model assumes that no two are.

## 3. The runs

Passing runs (distinct states of the last check):

| run | instance | shows |
|---|---|---|
| `bookings_one_replica` | 3 bookings, 4 instants on and off the grid, 2 schedules (UTC, UTC+2, different grids; one lists its later range first, so that order and limit matter); availability of 30 and 60 minutes over 1 and 2 days, limits 1 and 8; 22 123 | no overlap, offered slots only, events tell the row, availability offers what is free and bookable, refinement of `BookingCalendar` |
| `idempotency` | 2 replicas, 1 key, 2 payloads, 3 effects, 2 expiries, crashes, failing cache; 2 135 464 | right answers under every fault; a committed request is answered with its effect unless another one's record overtook it; outside disturbed windows at most one effect per key and record |
| `webhooks_one_worker` | 2 events, 2 subscriptions, 2 attempts, batch of 1, a crash; 245 814 | the rows are exact but for what a crash hid; the transactions implement `DeliveryLedger` (delivered and failed are final, each attempt recorded has its post); retries settle |
| `webhooks_by_hand` | process and retry endpoints, 3 subscriptions of 2 organizations, one of which raises, a crash, 1 event; 567 033 | a row claims nothing that did not happen, neither an acceptance nor an attempt, under races, deadlocks and exceptions; only a crash and the post that raises undo a mutation |
| `calls_two_replicas` | 2 replicas, 1 call, 2 outcomes (one with a status of its own), 2 texts, 3 turns, history of 1; 813 402 | turns in their places and histories whole but where overtaken, no index twice from one replica; a completion is whole but where overtaken, and the next one heals; ends together, nothing from the future |
| `agents_two_replicas` | 2 replicas with clocks of their own, 2 agents, 2 fields, 2 versions; 2 099 235 | the published version exists and is the agent's own; the event names the version unless it came from an overtaken rollback; a publication or rollback that is not overtaken sets its snapshot |
| `provider_records` | 2 replicas, a subscription with 3 reports (one without status, one without organization), a licence, a provider, 3 log entries; 2 310 224 | rows follow the log and events tell the status unless the last report was overtaken, a known status is kept, one row per integration unless a connect was overtaken |
| `tenancy` | 2 processes, 1 bootstrap key, 1 drawn key, 2 overlapping families of slugs, 1 account, 2 crashes, 1 revocation; 1 155 713 | who serves is seeded, single bootstrap keys, free slugs, final revocations, every process comes to serve |
| `rate_limiter` | 2 replicas, one clock ahead, limit 3, window 4, delay 1, 5 requests; 4 762 689 | the bound on counted requests, one uncounted per process, refusals for cause |

Violation runs, each a statement of the repository that the code does not keep
(`findings` in `PROJECT.json` quotes them):

| run | what TLC finds |
|---|---|
| `bookings_two_replicas` | both replicas check a slot, both book it |
| `bookings_short_slots` | a 15-minute slot offered inside a 30-minute booking |
| `webhooks_as_shipped` | encoding the event raises and undoes the mutation |

**Where a property stops holding.** Other disagreements met while modelling have
no run of their own. The first ones appear when a run or property is changed as
described; the hazards of `PROJECT.json` repeat them beside the property concerned.

| change | what then happens |
|---|---|
| `bookings_one_replica` with `NaiveStore = TRUE` (SQLite, the default database) | `NoDoubleBooking` fails: the stored start, read back as local time, does not conflict, for an agent off UTC |
| `AtMostOnce` in disturbed windows | a retry that reaches the other replica between mutation and record mutates again; so does one after a process stopped there; and the late deletion of an expired row, by primary key, removes the record another replica has just stored (SECURITY.md:31, "Idempotency protection for all critical POSTs") |
| `FailureMeansNoEffect` for overtaken requests | the client is told of a conflict, or gets a 500, though its mutation was committed |
| `TurnsInOrder` for the places in `late`, `CompletionIsWhole` for the calls in `mixed` | two replies of two replicas get one index; two completions leave the outcome of one with the summary of the other, until the next |
| `EventNamesTheVersion` for agents in `strayed`, `VersionSetsConfig` for overtaken handlers | the version shown and the one told of differ; the live configuration mixes snapshot and edit |
| `RowFollowsLog` when the last entry is `late` | the row mixes two reports by column |
| a report older than the one recorded | wins: no time of the provider is compared. `RowFollowsLog` says so |
| `OneIntegration` for providers in `doubled` | two rows, and later connects and tests take either |
| `RevokedForGood` for bootstrap keys | the next start of any process seeds a revoked bootstrap key again |
| `NoDoubleKeys` for `added` keys | two overlapping starts on an old database insert a key new in the settings twice |
| `webhooks_one_worker` with `MCTwoOrgs` and a subscription of the other organization | `RetriesSettle` fails: `build_worker` serves `default_organization_id` only |
| `WindowBound` with `<= Limit` for `< Limit` | says too little: one fewer than the limit passes, as the request is counted before it is compared (CHAT_HISTORY.md:42 speaks of 10 and 60 a minute) |
| Valkey away | the first request of a process passes uncounted (`PassUncounted`), each later one is a 500 (`Fail`), as the client is kept before its ping; the log (cache.py:42) says "falling back to SQL" |
| availability of a slot in progress | it may be offered over a booking that began more than a slot before the reference instant (`store.py` 1065); `OffersAreFree` is about slots to come |
| hours with 48 slots to come listed before the range of the one asked for (06:00-23:00 and 06:10-23:10, then 06:05-07:05, with bookings of 30 minutes: the slot at 06:05) | the check refuses a free slot of the agent: `CheckReaches`, which `OffersAreBookableAlways` assumes, fails |
| calls of a draft agent | `create_call` asks for no publication, against the text of `store.py` 2386 |
| edits of a published agent | live at once: readers use the row, never a version's snapshot (docs/architecture-v1.md:171 says otherwise) |

**Bounds.** Two replicas suffice for every race here: each hazard is between one
reader and one writer, or two writers of one row, and in the rate limiter between
two clocks. Two payloads tell a replay
from a conflict; two attempts have a first failure, a retry and a last failure;
a batch of one is always full, so one subscription's rows stand before
another's; three bookings are two in the way of a third; two rows of one event
are what two sweeps need to wait for each other. The instants lie on
either schedule's grid and off both. A history of one turn is shorter than two
turns and a third. Three reports are two and a repetition of either. Slugs
`acme`, `acme-2` are both names, and one numbered makes the other. A limit of
three refuses the third of five requests, in a window of four ticks of which
skew and delay leave two. `MaxWindow`, `MaxEvents`, `MaxCrashes`, `MaxTurns`,
`MaxLog`, `MaxAccounts`, `MaxRevoked`, `MaxTime`, `MaxRequests`
only cut behaviours short, in guards. No instance reaches the 48 slots of the
booking check; `LimitHidesNothing` says for which hours they hide nothing.

Every property of a passing run has a mutant in `PROJECT.json`: the operator it
names is replaced by a plausible bug (defined beside it as a variant) and TLC
finds the property violated.

**Deadlock** is checked in every run but `tenancy`: clients may always ask, so
the models never stop. In `tenancy` they may not once every key is revoked.

**Fairness.** `WebhookDelivery!Fairness`: a transaction that has begun goes on
(posts time out, PostgreSQL breaks lock circles), the worker sweeps again and
again (`run_forever`; a process that ends is restarted by its deployment), time
passes. Nothing is assumed of clients, receivers or operators. `RetriesSettle`
needs no strong fairness as long as nobody calls the endpoints by hand; with
them, endless deadlocks could starve the worker in the model and the property
is not claimed, nor is it where a subscription's post raises.
`Tenancy!Fairness`: the orchestrator restarts what has stopped, and a start goes
on to its end or its exception. `StartsSettle` follows with weak fairness because
every refused seed means that another process's was committed, and each seed is
committed once; crashes are finite (`MaxCrashes`), as no start could be promised
otherwise.

**One replica** in `bookings_one_replica` is an assumption to be read with
`bookings_two_replicas`: it holds where the deployment scales to one API process.
The proofs ask for less: it is enough that the writes about one agent come one at
a time, from check to commit (`Serial`), as a lock per agent would make them.

## 4. The proofs

For every value of the constants, from the ASSUMEs of the modules (named beside
the constants; TLC evaluates them in the runs). `TypeCorrect` is proved for every
module that has variables. Beyond it:

- `BookingsProofs`. First the arithmetic, for any hours, offset, length and
  bookings: the slots of different ranges are put in order by their cursors, an
  offered slot lies in its range and overlaps no booking inside the query's
  window, and what is outside is too far away. `CheckIsExact`: the check accepts a
  start if and only if it is a slot of the agent's day that overlaps no active
  booking, where stored offsets are kept (`OffsetsKept`) and the limit of 48 hides
  nothing (`CheckReaches`). `LimitHidesNothing` counts the slots visited before
  another: 48 are enough for agents that list their ranges in the order of the
  day, or whose ranges lie on one grid of 30 minutes or more. From these
  `OffersAreFreeAlways` and `OffersAreBookableAlways`, in every reachable state of
  any number of replicas, as races change the rows and not the reading of them.
  Then the writes. `EventsTellWhereSerial`, `NoDoubleBookingWhereSerial`,
  `ActivationOfferedWhereSerial` and `ImplementsCalendarWhereSerial` hold on any
  number of replicas for the agents whose writes come one at a time; one replica
  is a case of it (the theorems `...OneReplica` state the properties of the run).
  The invariant adds that a prepared write has a free slot *at its own check*, and
  that the rows of its agent, and the row it changes, are still those it saw; the
  writes about other agents may race. `OffsetsKept` is `~NaiveStore`, or every
  agent at UTC. `CalendarIsExclusive`: whatever implements the calendar never
  books an agent twice.
- `IdempotencyProofs`. `AnswersAreRight`: whatever carries an effect (row, cache,
  handler) carries a committed one of its key and payload. `RetriesAreSafe`, for
  any number of replicas, crashes and expiries: in an *open* (undisturbed) window at most one handler works on the key; the effect of
  the window is *guarded*, by the stored row or by that handler, and a handler
  about to mutate finds no effect in its window. Expiry opens a new window, which
  is disturbed from the start if a handler is under way; that is the step that
  makes the invariant inductive. `OncePerReplicaUndisturbed`: with neither crash
  nor expiry no *replica* mutates twice for a key, overlapping or not.
  `FailuresAreClean`, in every window: the row a handler has found free at its
  lookup, or deleted, stays free until another request stores its record, and then
  the handler is overtaken.
- `WebhookDeliveryProofs`. `RowsAreTrue` for any number of processes, under locks,
  deadlocks, exceptions and crashes: committed rows, prepared updates, loaded rows
  and a post just answered are *honest*, they say delivered only of what the
  receiver has accepted and count only attempts that were posted, while `accepted`
  and `posts` only grow; a merge by column of two honest rows is honest. For one
  worker and no operator (`OneWorker`), any number of replicas: every delivery
  worked on has one owner, the emitter whose event is not yet committed or the
  worker, which found the row due for a retry; hence a commit writes the row as its
  owner loaded it plus one attempt (`CommitWrites`), nobody waits for a row lock
  (`NobodyWaits`), and posts exceed the attempts of the row by the one under way
  (`Accounts`). `ImplementsTheLedger` follows, whatever crashes or raises: a post is
  of a delivery that is open, and a commit records one attempt of each row it
  writes, each of which has its post. `LedgerIsTruthful` and `ClosedStaysClosed` are
  proved of the ledger alone and carried over: delivered means accepted, failed
  means tried `MaxAttempts` times, and both are final. `LedgersMatch`: the row of a
  delivery nobody works on never tells too much, and exactly what was posted while
  nothing has crashed and no post raises. `OnlyRaisingLosesEvents` for any number of
  processes, by hand or not: the rows that a mutation writes are of its own events,
  which nobody else can load before the commit, so an emitter never waits for a row
  lock and is never the one a deadlock undoes. What is left is the crash and the
  post that raises.
- `AgentVersionsProofs`. `PublishedVersionIsOwn` on any number of replicas: a
  prepared write inserts its version under an unused id that no other has in
  flight, sets the status only with the version, and leaves the status alone
  only when the agent is published already, which never ends.
  `EventsNameTheVersion` and `VersionsSetTheConfig`: until it is overtaken a
  prepared write is *up to date*, its columns are those by which it differs from
  the row that is still there, so its commit leaves exactly the row it prepared,
  whatever overlapped before. A publication always writes the version column, as
  its version is new; only an overtaken rollback may leave it to another.
- `CallsProofs`. `CallsEndTogether` and `NoTurnFromTheFuture` whatever overlaps: a
  prepared completion that leaves the status alone found the call ended already,
  and a call never becomes active again; a prepared turn is numbered, and was
  given turns, from those committed, which only grow. `TurnsAreInOrder` and
  `CompletionsAreWhole`: what a handler has read fits the rows that are still there
  until it is overtaken, and a replica's next turn is numbered past its last, as
  turns only grow. The history of a reply is counted with the cardinality theorems,
  for any limit.
- `ProviderRecordsProofs`. `KnownStatusIsKept` whatever overlaps: a prepared write
  holds a status that is unknown only if it inserts, or if the row it read was
  unknown too, and then the status column is not written. `RowsFollowTheLog`,
  `EventsAreTrue` and `IntegrationsAreSingle`: until a handler is overtaken the row
  it has read is the row still there, so its update leaves the whole row it meant,
  and the log grows by the report being recorded.
- `TenancyProofs`. `ServesOnlySeeded`: a process past a seed finds its rows, as
  items are never removed and an unrevoked key stays accepted.
  `BootstrapKeysAreSingle`: a start that is about to insert a bootstrap key which
  another has inserted is also about to insert the organization, and clashes.
  `SlugsStayFree`, and `RevocationIsFinal`: the use of a key writes its hash and
  never its activity.
- `RateLimiterProofs`. `WindowIsBounded`, of counted requests: the members that a
  transaction drops or that a loss of the key's time to live removes are too old to lie in one stretch
  with a request that passes later, so the stretch up to any request that passes
  is contained in the members it counted; and a process that has let a request
  through uncounted holds a client, so it never does again. `RefusalsHaveCause`:
  the members counted are requests asked within the window and the skew. Both by cardinality, for any
  limit, window, skew and delay.

TLC checked the strengthenings as invariants, or their parts, before they were
proved.

Only model-checked: liveness (`RetriesSettle`, `StartsSettle`; the provers do not
reach fairness). Every other property of a passing run is stated by a theorem.

No module uses a RECURSIVE operator: the slot loop is a set of cursors and the
loop over numbered slugs a minimum, so that they can be proved about.

## 5. Not modelled

Daylight-saving changes; parsing of business-hour strings; signatures and bodies
of webhooks; what providers answer; scopes (a test of one row); the creation of
the tables before the seeds; reads; wiring, metrics and migrations; phone numbers
and knowledge bases, whose rows have no relation to each other beyond the
idempotency they share; the browser code. The runtime is modelled only as far as
calls see it.

## 6. What could follow

1. `IdempotentBookings`: `Idempotency` around `Bookings`, whose retries must not
   book twice.
2. `ControlPlane`: the browser's overlapping requests (an answer as it is rendered
   against the last one asked for) and its idempotency keys.
