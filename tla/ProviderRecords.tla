---------------------------- MODULE ProviderRecords ----------------------------
(***************************************************************************)
(* Rows that mirror what somebody else knows: the subscriptions and        *)
(* licences of the billing provider, told by its webhooks and by the       *)
(* validation of a licence, and the integrations an operator connects.     *)
(*                                                                         *)
(* Every handler looks a row up, then inserts it or updates the columns    *)
(* that differ from what it has read, in one transaction with its log row  *)
(* and its events.  The provider sends a report until it is answered 200,  *)
(* so any report may come again, late, and on several replicas.  A handler *)
(* is overtaken when another one has written what it is about to write     *)
(* since it read it.                                                       *)
(***************************************************************************)
EXTENDS Naturals, Sequences, FiniteSets

CONSTANTS
    Replicas,
    Subscriptions, Licenses,  \* ids the billing provider gives out
    Providers,                \* providers of integrations
    Organizations, DefaultOrganization,
    Reports,    \* what the billing provider may report
    Configs,    \* configurations of integrations
    RowIds,     \* ids of integration rows (uuid4)
    MaxLog,     \* bound: reports recorded
    Null

Resources == Subscriptions \cup Licenses

On  == {"active", "on_trial"}
Off == {"cancelled", "expired"}
Statuses == On \cup Off \cup {"past_due", "unknown"}

\* The attributes of a report, known by its id; Null where it carries none.
Report == [id : {m.id : m \in Reports}, about : Resources,
           status : (Statuses \ {"unknown"}) \cup {Null},
           organization : Organizations \cup {Null}]

\* The columns taken from a report's attributes count as one: the mixture that
\* overlapping updates can leave in them stands for one of its reports.
Row == [organization : Organizations, status : Statuses, attributes : {m.id : m \in Reports}]

\* billing_webhook_events rows, and the license.validated events beside them; late is
\* history: the handler was overtaken
Entry == [report : Reports, organization : Organizations, via : {"webhook", "validation"},
          late : BOOLEAN]

Integration == [provider : Providers, config : Configs, tested : BOOLEAN]

\* What a handler is going to commit: what it was told and the row it has read.
Pending ==
    [kind : {"webhook", "validation"}, about : Resources, report : Reports,
     organization : Organizations, loaded : BOOLEAN, read : Row \cup {Null}]
        \cup [kind : {"connect"}, about : Providers, config : Configs,
              row : RowIds \cup {Null}, read : Configs \cup {Null}]
        \cup [kind : {"test"}, about : Providers, row : RowIds]

Events == {"subscription.activated", "subscription.canceled"}

ASSUME ProviderAssumption ==
    /\ MaxLog \in Nat
    /\ DefaultOrganization \in Organizations
    /\ Reports \subseteq Report
    /\ Subscriptions \cap Licenses = {} /\ Resources \cap Providers = {}
    /\ Null \notin Row /\ Null \notin Integration /\ Null \notin Pending
    /\ Null \notin RowIds /\ Null \notin Statuses /\ Null \notin Configs
    /\ Null \notin Organizations /\ Null \notin Events

VARIABLES
    rows,          \* rows[x]: the subscriptions or licenses row
    log,           \* what was recorded, in the order of the commits
    told,          \* told[x]: the last event about subscription x
    integrations,  \* integrations[i]: the integrations row of id i
    connected,     \* connected[p]: the configuration of the last connect answered
    pending,       \* pending[r]: what replica r is about to commit
    overtaken,     \* history: the replicas overtaken since they read
    doubled,       \* history: the providers an overtaken connect has inserted a row for
    strayed        \* history: the providers whose last connect was overtaken

vars == <<rows, log, told, integrations, connected, pending, overtaken, doubled, strayed>>

TypeOK ==
    /\ rows \in [Resources -> Row \cup {Null}]
    /\ log \in Seq(Entry)
    /\ told \in [Subscriptions -> Events \cup {Null}]
    /\ integrations \in [RowIds -> Integration \cup {Null}]
    /\ connected \in [Providers -> Configs \cup {Null}]
    /\ pending \in [Replicas -> Pending \cup {Null}]
    /\ overtaken \in SUBSET Replicas
    /\ doubled \in SUBSET Providers /\ strayed \in SUBSET Providers

Init ==
    /\ rows = [x \in Resources |-> Null]
    /\ log = <<>>
    /\ told = [x \in Subscriptions |-> Null]
    /\ integrations = [i \in RowIds |-> Null]
    /\ connected = [p \in Providers |-> Null]
    /\ pending = [r \in Replicas |-> Null]
    /\ overtaken = {} /\ doubled = {} /\ strayed = {}

\* Replica r takes w up, perhaps while another one works on the same thing.
Begin(r, w) ==
    /\ pending[r] = Null
    /\ pending' = [pending EXCEPT ![r] = w]
    /\ UNCHANGED <<rows, log, told, integrations, connected, overtaken, doubled, strayed>>

End(r) ==
    /\ pending' = [pending EXCEPT ![r] = Null]
    /\ overtaken' = overtaken \ {r}

\* Replica r has written what the others that are at it may be about to write.
Overtake(r) ==
    /\ pending' = [pending EXCEPT ![r] = Null]
    /\ overtaken' = (overtaken \ {r}) \cup
          {q \in Replicas \ {r} : pending[q] # Null /\ pending[q].about = pending[r].about}

\* Variants with a plausible bug, for the mutation runs: the status is what the report
\* carries, or unknown; the whole row is written; only a cancelled subscription is
\* told of; the lookup of an integration finds nothing.
StatusAfterReported(m, read) == m.status
StatusAfterUnknown(m, read) == IF m.status # Null THEN m.status ELSE "unknown"
UpdatedAlways(read, new, current) == new
EventAfterCancelled(status) ==
    IF status \in On THEN "subscription.activated"
    ELSE IF status = "cancelled" THEN "subscription.canceled" ELSE Null
FoundNothing(p) == {}

-------------------------------------------------------------------------------
(* process_lemonsqueezy_webhook: the signature is right, the row is loaded *)

OrganizationOf(m) == IF m.organization = Null THEN DefaultOrganization ELSE m.organization

Receive(r, m) ==
    Begin(r, [kind |-> "webhook", about |-> m.about, report |-> m,
              organization |-> OrganizationOf(m), loaded |-> TRUE, read |-> rows[m.about]])

(* validate_license: the provider answers first, for a licence of any organization *)
Validate(r, m, organization) ==
    /\ m.about \in Licenses
    /\ Begin(r, [kind |-> "validation", about |-> m.about, report |-> m,
                 organization |-> organization, loaded |-> FALSE, read |-> Null])

\* Then record_license_validation loads the row.
Load(r) ==
    LET w == pending[r]
    IN  /\ w # Null /\ w.kind = "validation" /\ ~w.loaded
        /\ pending' = [pending EXCEPT ![r] =
               [kind |-> "validation", about |-> w.about, report |-> w.report,
                organization |-> w.organization, loaded |-> TRUE, read |-> rows[w.about]]]
        /\ overtaken' = overtaken \ {r}
        /\ UNCHANGED <<rows, log, told, integrations, connected, doubled, strayed>>

(* _upsert_subscription and _upsert_license *)

\* A report without a status leaves the one that was read.
StatusAfter(m, read) ==
    IF m.status # Null THEN m.status ELSE IF read = Null THEN "unknown" ELSE read.status

\* An UPDATE sets a column when its value differs from the one read.
Updated(read, new, current) == IF new # read THEN new ELSE current

Upserted(w, current) ==
    LET status == StatusAfter(w.report, w.read)
    IN  IF w.read = Null
          THEN [organization |-> w.organization, status |-> status,
                attributes |-> w.report.id]
          ELSE [organization |-> Updated(w.read.organization, w.organization, current.organization),
                status       |-> Updated(w.read.status, status, current.status),
                attributes   |-> Updated(w.read.attributes, w.report.id, current.attributes)]

\* The event a subscription's report is told by, if any.
EventAfter(status) ==
    IF status \in On THEN "subscription.activated"
    ELSE IF status \in Off THEN "subscription.canceled" ELSE Null

\* An insert is refused (500) when the row has come to exist, by Abandon.
Commit(r) ==
    LET w == pending[r]
        x == w.about
    IN  /\ w # Null /\ w.kind \in {"webhook", "validation"} /\ w.loaded
        /\ w.read = Null => rows[x] = Null
        /\ Len(log) < MaxLog
        /\ rows' = [rows EXCEPT ![x] = Upserted(w, rows[x])]
        /\ log' = Append(log, [report |-> w.report, organization |-> w.organization,
                               via |-> w.kind, late |-> r \in overtaken])
        /\ told' = IF x \in Subscriptions /\ EventAfter(w.report.status) # Null
                     THEN [told EXCEPT ![x] = EventAfter(w.report.status)] ELSE told
        /\ Overtake(r)
        /\ UNCHANGED <<integrations, connected, doubled, strayed>>

-------------------------------------------------------------------------------
(* connect_integration and test_integration *)

RowsOf(p) == {i \in RowIds : integrations[i] # Null /\ integrations[i].provider = p}

\* The rows a lookup may answer with: any one of them.
Found(p) == RowsOf(p)

Connect(r, p, config) ==
    \/ /\ Found(p) = {}
       /\ Begin(r, [kind |-> "connect", about |-> p, config |-> config,
                    row |-> Null, read |-> Null])
    \/ \E i \in Found(p) :
          Begin(r, [kind |-> "connect", about |-> p, config |-> config,
                    row |-> i, read |-> integrations[i].config])

CommitConnect(r) ==
    LET w == pending[r]
    IN  /\ w # Null /\ w.kind = "connect"
        /\ \/ /\ w.row = Null
              /\ \E i \in RowIds :
                   /\ integrations[i] = Null
                   /\ integrations' = [integrations EXCEPT ![i] =
                          [provider |-> w.about, config |-> w.config, tested |-> FALSE]]
           \/ /\ w.row # Null
              /\ integrations' = [integrations EXCEPT ![w.row] =
                     [provider |-> @.provider,
                      config   |-> Updated(w.read, w.config, @.config),
                      tested   |-> @.tested]]
        /\ connected' = [connected EXCEPT ![w.about] = w.config]
        /\ doubled' = IF w.row = Null /\ r \in overtaken THEN doubled \cup {w.about} ELSE doubled
        /\ strayed' = IF r \in overtaken THEN strayed \cup {w.about} ELSE strayed \ {w.about}
        /\ Overtake(r)
        /\ UNCHANGED <<rows, log, told>>

Test(r, p) ==
    \E i \in Found(p) : Begin(r, [kind |-> "test", about |-> p, row |-> i])

\* It writes columns that nobody else does.
CommitTest(r) ==
    LET w == pending[r]
    IN  /\ w # Null /\ w.kind = "test"
        /\ integrations' = [integrations EXCEPT ![w.row] =
               [provider |-> @.provider, config |-> @.config, tested |-> TRUE]]
        /\ End(r)
        /\ UNCHANGED <<rows, log, told, connected, doubled, strayed>>

-------------------------------------------------------------------------------
\* The provider cannot be reached (502) or knows no such licence, a primary key
\* refuses the insert, a subscription's post raises, the process stops.
Abandon(r) ==
    /\ pending[r] # Null
    /\ End(r)
    /\ UNCHANGED <<rows, log, told, integrations, connected, doubled, strayed>>

Next ==
    \E r \in Replicas :
        \/ \E m \in Reports : Receive(r, m)
        \/ \E m \in Reports, o \in Organizations : Validate(r, m, o)
        \/ \E p \in Providers, config \in Configs : Connect(r, p, config)
        \/ \E p \in Providers : Test(r, p)
        \/ Load(r) \/ Commit(r) \/ CommitConnect(r) \/ CommitTest(r) \/ Abandon(r)

Spec == Init /\ [][Next]_vars

-------------------------------------------------------------------------------
(* Properties *)

\* The entries of the log about a resource, and those of them that give a status.
About(x) == {i \in DOMAIN log : log[i].report.about = x}
Graded(x) == {i \in About(x) : log[i].report.status # Null}

\* The last of a set of entries, when its handler was not overtaken.
Settles(i, S) == i \in S /\ ~log[i].late /\ \A j \in S : j <= i

\* A subscription or licence is what its log says: organization and attributes of the
\* last report, the last status any report gave, whatever overlapped before; only a
\* report that was itself overtaken may leave something else.
RowFollowsLog ==
    \A x \in Resources :
        /\ rows[x] = Null <=> About(x) = {}
        /\ \A i \in About(x) : Settles(i, About(x)) =>
              /\ rows[x].attributes = log[i].report.id
              /\ rows[x].organization = log[i].organization
        /\ \A i \in Graded(x) : Settles(i, Graded(x)) => rows[x].status = log[i].report.status
        /\ rows[x] # Null /\ Graded(x) = {} => rows[x].status = "unknown"

\* The last event about a subscription is the one its status calls for, unless the last
\* report with a status was overtaken.
EventsTellTheStatus ==
    \A x \in Subscriptions : (\E i \in Graded(x) : Settles(i, Graded(x))) =>
        /\ rows[x].status \in On => told[x] = "subscription.activated"
        /\ rows[x].status \in Off => told[x] = "subscription.canceled"

\* A provider has one row, with the configuration the last connect was answered with,
\* unless a connect was overtaken: the configuration is then right again with the next
\* one, a second row stays.
OneIntegration ==
    \A p \in Providers :
        /\ p \notin doubled => \A i, j \in RowsOf(p) : i = j
        /\ p \notin doubled \cup strayed =>
             \A i \in RowsOf(p) : integrations[i].config = connected[p]
        /\ connected[p] # Null => RowsOf(p) # {}

\* Whatever overlaps, a known status is never lost to a report that carries none.
StatusIsKept ==
    [][\A x \in Resources :
         rows[x] # Null /\ rows[x].status # "unknown" => rows'[x].status # "unknown"]_vars
================================================================================
