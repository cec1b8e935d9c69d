------------------------- MODULE ProviderRecordsProofs -------------------------
(***************************************************************************)
(* Theorems about ProviderRecords, for any reports, replicas and length of *)
(* the log.  The argument: until a handler is overtaken, what it has read  *)
(* is still what is stored, so its column-wise update writes the whole row *)
(* it meant, whatever was left there before; a status is kept even by an   *)
(* overtaken handler, because a column that is not changed is not written. *)
(***************************************************************************)
EXTENDS ProviderRecords, TLAPS

Ids == {m.id : m \in Reports}

LEMMA PendingFields ==
    ASSUME NEW w \in Pending
    PROVE  /\ w.kind \in {"webhook", "validation", "connect", "test"}
           /\ w.kind \in {"webhook", "validation"} =>
                 /\ w.about \in Resources /\ w.report \in Reports
                 /\ w.organization \in Organizations /\ w.loaded \in BOOLEAN
                 /\ w.read \in Row \cup {Null}
           /\ w.kind = "connect" =>
                 /\ w.about \in Providers /\ w.config \in Configs
                 /\ w.row \in RowIds \cup {Null} /\ w.read \in Configs \cup {Null}
           /\ w.kind = "test" => w.about \in Providers /\ w.row \in RowIds
BY DEF Pending

LEMMA PendingAbout ==
    ASSUME NEW w \in Pending
    PROVE  /\ w # Null
           /\ w.about \in Resources \cup Providers
           /\ w.kind \in {"webhook", "validation"} <=> w.about \in Resources
BY PendingFields, ProviderAssumption

LEMMA ReportFields ==
    ASSUME NEW m \in Reports
    PROVE  /\ m.id \in Ids /\ m.about \in Resources
           /\ m.status \in (Statuses \ {"unknown"}) \cup {Null}
           /\ OrganizationOf(m) \in Organizations
BY ProviderAssumption DEF Report, OrganizationOf, Ids

LEMMA UpsertedType ==
    ASSUME NEW w \in Pending, w.kind \in {"webhook", "validation"},
           NEW current, w.read # Null => current \in Row
    PROVE  Upserted(w, current) \in Row
<1>1. /\ w.report.id \in Ids /\ w.organization \in Organizations
      /\ w.read \in Row \cup {Null}
    BY PendingFields, ReportFields
<1>2. w.read # Null => /\ w.read.status \in Statuses
                       /\ current.organization \in Organizations
                       /\ current.status \in Statuses /\ current.attributes \in Ids
    BY <1>1 DEF Row, Ids
<1>3. w.report.status \in Statuses \cup {Null}
    BY PendingFields, ReportFields
<1>4. StatusAfter(w.report, w.read) \in Statuses
    BY <1>2, <1>3 DEF StatusAfter, Statuses
<1>5. QED
    BY <1>1, <1>2, <1>4 DEF Upserted, Updated, Row, Ids

-------------------------------------------------------------------------------
(* Types: a row that a handler has found stays *)

RowsStay ==
    \A r \in Replicas :
        LET w == pending[r]
        IN  w # Null =>
              /\ w.kind = "test" \/ (w.kind = "connect" /\ w.row # Null) =>
                    integrations[w.row] # Null /\ integrations[w.row].provider = w.about
              /\ w.kind \in {"webhook", "validation"} =>
                    /\ w.report.about = w.about
                    /\ w.read # Null => rows[w.about] # Null

TypeInv == TypeOK /\ RowsStay

LEMMA TypeInit == Init => TypeInv
BY DEF Init, TypeInv, TypeOK, RowsStay

LEMMA BeginStep ==
    ASSUME TypeOK, NEW r \in Replicas, NEW w \in Pending, Begin(r, w)
    PROVE  /\ pending' \in [Replicas -> Pending \cup {Null}]
           /\ pending'[r] = w /\ \A q \in Replicas \ {r} : pending'[q] = pending[q]
           /\ UNCHANGED <<rows, log, told, integrations, connected, overtaken, doubled, strayed>>
BY DEF Begin, TypeOK

\* The end of a handler, overtaking the others or not.
LEMMA EndStep ==
    ASSUME TypeOK, NEW r \in Replicas, End(r) \/ Overtake(r)
    PROVE  /\ pending' \in [Replicas -> Pending \cup {Null}]
           /\ overtaken' \in SUBSET Replicas
           /\ pending'[r] = Null /\ \A q \in Replicas \ {r} : pending'[q] = pending[q]
BY DEF End, Overtake, TypeOK

\* What the handlers of the billing provider take up.
Told(kind, m, organization, loaded, read) ==
    [kind |-> kind, about |-> m.about, report |-> m, organization |-> organization,
     loaded |-> loaded, read |-> read]

LEMMA ToldPending ==
    ASSUME NEW kind \in {"webhook", "validation"}, NEW m \in Reports,
           NEW o \in Organizations, NEW loaded \in BOOLEAN, NEW read \in Row \cup {Null}
    PROVE  Told(kind, m, o, loaded, read) \in Pending
BY ReportFields DEF Told, Pending

\* What the handlers of integrations take up.
Wanted(p, config, row, read) ==
    [kind |-> "connect", about |-> p, config |-> config, row |-> row, read |-> read]

LEMMA WantedPending ==
    ASSUME NEW p \in Providers, NEW config \in Configs, NEW row \in RowIds \cup {Null},
           NEW read \in Configs \cup {Null}
    PROVE  Wanted(p, config, row, read) \in Pending
BY DEF Wanted, Pending

LEMMA TypeStep == TypeInv /\ [Next]_vars => TypeInv'
<1> SUFFICES ASSUME TypeInv, [Next]_vars PROVE TypeInv'
  OBVIOUS
<1>0. TypeOK /\ RowsStay
  BY DEF TypeInv
<1>a. ASSUME NEW r \in Replicas, NEW w \in Pending, Begin(r, w),
             w.kind = "test" \/ (w.kind = "connect" /\ w.row # Null) =>
                 integrations[w.row] # Null /\ integrations[w.row].provider = w.about,
             w.kind \in {"webhook", "validation"} =>
                 /\ w.report.about = w.about
                 /\ w.read # Null => rows[w.about] # Null
      PROVE  TypeInv'
  <2>1. TypeOK'
    BY <1>0, <1>a, BeginStep DEF TypeOK
  <2>2. RowsStay'
    BY <1>0, <1>a, BeginStep DEF RowsStay
  <2> QED
    BY <2>1, <2>2 DEF TypeInv
<1>1. ASSUME NEW r \in Replicas, NEW m \in Reports, Receive(r, m) PROVE TypeInv'
  <2> DEFINE w == Told("webhook", m, OrganizationOf(m), TRUE, rows[m.about])
  <2>1. w \in Pending
    BY <1>0, ToldPending, ReportFields DEF TypeOK
  <2>2. /\ w.kind = "webhook" /\ w.about = m.about /\ w.read = rows[m.about]
        /\ w.report = m
        /\ Begin(r, w)
    BY <1>1 DEF Receive, Told
  <2> HIDE DEF w
  <2> QED
    BY <1>1, <1>a, <2>1, <2>2 DEF Receive
<1>2. ASSUME NEW r \in Replicas, NEW m \in Reports, NEW o \in Organizations, Validate(r, m, o)
      PROVE  TypeInv'
  <2> DEFINE w == Told("validation", m, o, FALSE, Null)
  <2>1. w \in Pending
    BY ToldPending
  <2>2. /\ w.kind = "validation" /\ w.read = Null /\ w.report = m /\ w.about = m.about
        /\ Begin(r, w)
    BY <1>2 DEF Validate, Told
  <2> HIDE DEF w
  <2> QED
    BY <1>2, <1>a, <2>1, <2>2 DEF Validate
<1>3. ASSUME NEW r \in Replicas, NEW p \in Providers, NEW config \in Configs,
             Connect(r, p, config)
      PROVE  TypeInv'
  <2>1. CASE Begin(r, Wanted(p, config, Null, Null))
    BY <1>3, <1>a, <2>1, WantedPending DEF Connect, Wanted
  <2>2. ASSUME NEW i \in Found(p), Begin(r, Wanted(p, config, i, integrations[i].config))
        PROVE  TypeInv'
    <3>1. /\ i \in RowIds /\ integrations[i] # Null /\ integrations[i].provider = p
          /\ integrations[i].config \in Configs
      BY <1>0 DEF Found, RowsOf, TypeOK, Integration
    <3> DEFINE w == Wanted(p, config, i, integrations[i].config)
    <3>2. w \in Pending /\ w.kind = "connect" /\ w.row = i /\ w.about = p
      BY <3>1, WantedPending DEF Wanted
    <3> QED
      BY <1>3, <1>a, <2>2, <3>1, <3>2 DEF Connect
  <2> QED
    BY <1>3, <2>1, <2>2 DEF Connect, Wanted
<1>4. ASSUME NEW r \in Replicas, NEW p \in Providers, Test(r, p) PROVE TypeInv'
  <2>1. PICK i \in Found(p) : Begin(r, [kind |-> "test", about |-> p, row |-> i])
    BY <1>4 DEF Test
  <2> DEFINE w == [kind |-> "test", about |-> p, row |-> i]
  <2>2. i \in RowIds /\ integrations[i] # Null /\ integrations[i].provider = p
    BY DEF Found, RowsOf
  <2>3. w \in Pending /\ w.kind = "test" /\ w.row = i /\ w.about = p
    BY <2>2 DEF Pending
  <2> QED
    BY <1>4, <1>a, <2>1, <2>2, <2>3 DEF Test
<1>5. ASSUME NEW r \in Replicas, Load(r) PROVE TypeInv'
  <2> DEFINE old == pending[r]
             w == [kind |-> "validation", about |-> old.about, report |-> old.report,
                   organization |-> old.organization, loaded |-> TRUE,
                   read |-> rows[old.about]]
  <2>1. old \in Pending /\ old.kind = "validation"
    BY <1>0, <1>5 DEF Load, TypeOK
  <2>2. w \in Pending
    BY <1>0, <2>1, PendingFields DEF TypeOK, Pending
  <2>3. /\ w.kind = "validation" /\ w.about = old.about /\ w.read = rows[old.about]
        /\ w.report = old.report
    OBVIOUS
  <2>4. /\ pending' = [pending EXCEPT ![r] = w]
        /\ overtaken' = overtaken \ {r}
        /\ UNCHANGED <<rows, log, told, integrations, connected, doubled, strayed>>
    BY <1>5 DEF Load
  <2> HIDE DEF w
  <2>5. TypeOK'
    BY <1>0, <2>2, <2>4 DEF TypeOK
  <2>6. RowsStay'
    BY <1>0, <1>5, <2>1, <2>3, <2>4 DEF RowsStay, TypeOK, Load
  <2> QED
    BY <2>5, <2>6 DEF TypeInv
<1>b. ASSUME NEW r \in Replicas, End(r) \/ Overtake(r),
             \A i \in RowIds : integrations[i] # Null =>
                 integrations'[i] # Null /\ integrations'[i].provider = integrations[i].provider,
             \A x \in Resources : rows[x] # Null => rows'[x] # Null
      PROVE  RowsStay'
  <2> SUFFICES ASSUME NEW q \in Replicas, pending'[q] # Null
               PROVE  LET w == pending'[q] IN
                      /\ w.kind = "test" \/ (w.kind = "connect" /\ w.row # Null) =>
                            integrations'[w.row] # Null /\ integrations'[w.row].provider = w.about
                      /\ w.kind \in {"webhook", "validation"} =>
                            /\ w.report.about = w.about
                            /\ w.read # Null => rows'[w.about] # Null
    BY DEF RowsStay
  <2>1. pending'[q] = pending[q] /\ pending[q] # Null /\ pending[q] \in Pending
    BY <1>0, <1>b, EndStep DEF TypeOK
  <2>2. /\ pending[q].kind = "test" \/ (pending[q].kind = "connect" /\ pending[q].row # Null) =>
              pending[q].row \in RowIds
        /\ pending[q].kind \in {"webhook", "validation"} => pending[q].about \in Resources
    BY <2>1, PendingFields
  <2> QED
    BY <1>0, <1>b, <2>1, <2>2 DEF RowsStay
<1>6. ASSUME NEW r \in Replicas, Commit(r) PROVE TypeInv'
  <2> DEFINE w == pending[r]
             x == w.about
             entry == [report |-> w.report, organization |-> w.organization, via |-> w.kind,
                       late |-> r \in overtaken]
  <2>1. w \in Pending /\ w.kind \in {"webhook", "validation"}
    BY <1>0, <1>6 DEF Commit, TypeOK
  <2>2. x \in Resources /\ w.report \in Reports /\ w.organization \in Organizations
    BY <2>1, PendingFields
  <2>3. entry \in Entry
    BY <2>1, <2>2 DEF Entry
  <2>4. rows' = [rows EXCEPT ![x] = Upserted(w, rows[x])]
    BY <1>6 DEF Commit
  <2>5. Upserted(w, rows[x]) \in Row
    <3>1. w.read # Null => rows[x] \in Row
      BY <1>0, <1>6, <2>1, <2>2 DEF Commit, RowsStay, TypeOK
    <3> QED
      BY <2>1, <3>1, UpsertedType
  <2>6. log' \in Seq(Entry)
    BY <1>0, <1>6, <2>3 DEF Commit, TypeOK
  <2>7. told' \in [Subscriptions -> Events \cup {Null}]
    BY <1>0, <1>6 DEF Commit, TypeOK, EventAfter, Events
  <2>8. TypeOK'
    BY <1>0, <1>6, <2>2, <2>4, <2>5, <2>6, <2>7, EndStep DEF Commit, TypeOK
  <2>9. RowsStay'
    <3> HIDE DEF w
    <3>1. \A y \in Resources : rows[y] # Null => rows'[y] # Null
      BY <1>0, <2>2, <2>4, <2>5, ProviderAssumption DEF TypeOK
    <3> QED
      BY <1>6, <1>b, <3>1 DEF Commit
  <2> QED
    BY <2>8, <2>9 DEF TypeInv
<1>7. ASSUME NEW r \in Replicas, CommitConnect(r) PROVE TypeInv'
  <2> DEFINE w == pending[r]
  <2>1. w \in Pending /\ w # Null /\ w.kind = "connect" /\ w.about \in Providers /\ w.config \in Configs
    BY <1>0, <1>7, PendingFields DEF CommitConnect, TypeOK
  <2>2. connected' \in [Providers -> Configs \cup {Null}]
    BY <1>0, <1>7, <2>1 DEF CommitConnect, TypeOK
  <2>3. /\ integrations' \in [RowIds -> Integration \cup {Null}]
        /\ \A i \in RowIds : integrations[i] # Null =>
              integrations'[i] # Null /\ integrations'[i].provider = integrations[i].provider
    <3>1. CASE w.row = Null
      <4>1. PICK i \in RowIds :
              /\ integrations[i] = Null
              /\ integrations' = [integrations EXCEPT ![i] =
                     [provider |-> w.about, config |-> w.config, tested |-> FALSE]]
        BY <1>7, <3>1 DEF CommitConnect
      <4>2. [provider |-> w.about, config |-> w.config, tested |-> FALSE] \in Integration
        BY <2>1 DEF Integration
      <4> QED
        BY <1>0, <4>1, <4>2 DEF TypeOK
    <3>2. CASE w.row # Null
      <4> DEFINE row == integrations[w.row]
                 new == [provider |-> row.provider,
                         config   |-> Updated(w.read, w.config, row.config),
                         tested   |-> row.tested]
      <4>1. w.row \in RowIds /\ row \in Integration /\ row # Null
        BY <1>0, <2>1, <3>2, PendingFields DEF TypeOK, RowsStay
      <4>2. new \in Integration /\ new.provider = row.provider
        BY <2>1, <4>1 DEF Integration, Updated
      <4>3. integrations' = [integrations EXCEPT ![w.row] = new]
        BY <1>7, <3>2 DEF CommitConnect
      <4> HIDE DEF new
      <4> QED
        BY <1>0, <4>1, <4>2, <4>3, ProviderAssumption DEF TypeOK
    <3> QED
      BY <3>1, <3>2
  <2>4. TypeOK'
    BY <1>0, <1>7, <2>2, <2>3, EndStep DEF CommitConnect, TypeOK
  <2>5. RowsStay'
    BY <1>7, <1>b, <2>3 DEF CommitConnect
  <2> QED
    BY <2>4, <2>5 DEF TypeInv
<1>8. ASSUME NEW r \in Replicas, CommitTest(r) PROVE TypeInv'
  <2> DEFINE w == pending[r]
             row == integrations[w.row]
             new == [provider |-> row.provider, config |-> row.config, tested |-> TRUE]
  <2>1. w \in Pending /\ w # Null /\ w.kind = "test" /\ w.row \in RowIds
    BY <1>0, <1>8, PendingFields DEF CommitTest, TypeOK
  <2>2. row \in Integration /\ row # Null
    BY <1>0, <2>1 DEF TypeOK, RowsStay
  <2>3. new \in Integration /\ new.provider = row.provider
    BY <2>2 DEF Integration
  <2>4. integrations' = [integrations EXCEPT ![w.row] = new]
    BY <1>8 DEF CommitTest
  <2> HIDE DEF new
  <2>5. /\ integrations' \in [RowIds -> Integration \cup {Null}]
        /\ \A i \in RowIds : integrations[i] # Null =>
              integrations'[i] # Null /\ integrations'[i].provider = integrations[i].provider
    BY <1>0, <2>1, <2>2, <2>3, <2>4, ProviderAssumption DEF TypeOK
  <2>6. TypeOK'
    BY <1>0, <1>8, <2>5, EndStep DEF CommitTest, TypeOK
  <2>7. RowsStay'
    BY <1>8, <1>b, <2>5 DEF CommitTest
  <2> QED
    BY <2>6, <2>7 DEF TypeInv
<1>9. ASSUME NEW r \in Replicas, Abandon(r) PROVE TypeInv'
  <2>1. TypeOK'
    BY <1>0, <1>9, EndStep DEF Abandon, TypeOK
  <2>2. RowsStay'
    BY <1>9, <1>b DEF Abandon
  <2> QED
    BY <2>1, <2>2 DEF TypeInv
<1>10. CASE UNCHANGED vars
  BY <1>0, <1>10 DEF vars, TypeInv, TypeOK, RowsStay
<1> QED
  BY <1>1, <1>2, <1>3, <1>4, <1>5, <1>6, <1>7, <1>8, <1>9, <1>10 DEF Next

LEMMA SpecTypeInv == Spec => []TypeInv
BY TypeInit, TypeStep, PTL DEF Spec

\* Every variable keeps its type: what a handler writes is a whole row, though it may
\* update a row that others have changed since it was read.
THEOREM TypeCorrect == Spec => []TypeOK
BY SpecTypeInv, PTL DEF TypeInv

\* A report without a status never takes a known status away, whatever overlaps.
THEOREM KnownStatusIsKept == Spec => StatusIsKept
<1>1. ASSUME TypeInv, [Next]_vars, NEW x \in Resources, rows[x] # Null,
             rows[x].status # "unknown"
      PROVE  rows'[x].status # "unknown"
  <2>1. ASSUME NEW r \in Replicas, Commit(r), pending[r].about = x
        PROVE  rows'[x].status # "unknown"
    <3> DEFINE w == pending[r]
    <3>1. w \in Pending /\ w.kind \in {"webhook", "validation"} /\ w.read # Null
      BY <1>1, <2>1 DEF Commit, TypeInv, TypeOK
    <3>2. w.report.status # "unknown"
      BY <3>1, PendingFields, ReportFields, ProviderAssumption DEF Statuses
    <3>3. rows'[x] = Upserted(w, rows[x])
      BY <1>1, <2>1 DEF Commit, TypeInv, TypeOK
    <3>4. rows'[x].status
            = Updated(w.read.status, StatusAfter(w.report, w.read), rows[x].status)
      BY <3>1, <3>3 DEF Upserted
    <3> QED
      BY <1>1, <3>1, <3>2, <3>4 DEF Updated, StatusAfter
  <2>2. CASE \E r \in Replicas : Commit(r) /\ pending[r].about # x
    BY <1>1, <2>2 DEF Commit, TypeInv, TypeOK
  <2>3. CASE rows' = rows
    BY <1>1, <2>3
  <2> QED
    BY <1>1, <2>1, <2>2, <2>3
    DEF Next, vars, Begin, Receive, Validate, Load, Connect, CommitConnect, Test, CommitTest, Abandon
<1>2. TypeInv /\ [Next]_vars =>
        [\A x \in Resources :
           rows[x] # Null /\ rows[x].status # "unknown" => rows'[x].status # "unknown"]_vars
  BY <1>1
<1> QED
  BY <1>2, SpecTypeInv, PTL DEF Spec, StatusIsKept

-------------------------------------------------------------------------------
(* Until a handler is overtaken, what it has read is still so *)

ReadStands ==
    \A r \in Replicas \ overtaken :
        LET w == pending[r]
        IN  w # Null =>
              /\ w.kind \in {"webhook", "validation"} /\ w.loaded => w.read = rows[w.about]
              /\ w.kind = "connect" /\ w.row = Null => RowsOf(w.about) = {}
              /\ w.kind = "connect" /\ w.row # Null => w.read = integrations[w.row].config

Follows(x) ==
    /\ rows[x] = Null <=> About(x) = {}
    /\ \A i \in About(x) : Settles(i, About(x)) =>
          /\ rows[x].attributes = log[i].report.id
          /\ rows[x].organization = log[i].organization
    /\ \A i \in Graded(x) : Settles(i, Graded(x)) => rows[x].status = log[i].report.status
    /\ rows[x] # Null /\ Graded(x) = {} => rows[x].status = "unknown"

Tells(x) ==
    (\E i \in Graded(x) : Settles(i, Graded(x))) =>
        /\ rows[x].status \in On => told[x] = "subscription.activated"
        /\ rows[x].status \in Off => told[x] = "subscription.canceled"

Single(p) ==
    /\ p \notin doubled => \A i, j \in RowsOf(p) : i = j
    /\ p \notin doubled \cup strayed =>
         \A i \in RowsOf(p) : integrations[i].config = connected[p]
    /\ connected[p] # Null => RowsOf(p) # {}

Mirror ==
    /\ ReadStands
    /\ \A x \in Resources : Follows(x)
    /\ \A x \in Subscriptions : Tells(x)
    /\ \A p \in Providers : Single(p)

MirrorInv == TypeInv /\ Mirror

LEMMA MirrorImplies == MirrorInv => RowFollowsLog /\ EventsTellTheStatus /\ OneIntegration
<1> SUFFICES ASSUME MirrorInv PROVE RowFollowsLog /\ EventsTellTheStatus /\ OneIntegration
  OBVIOUS
<1>1. RowFollowsLog
  BY DEF MirrorInv, Mirror, RowFollowsLog, Follows
<1>2. EventsTellTheStatus
  BY DEF MirrorInv, Mirror, EventsTellTheStatus, Tells
<1>3. OneIntegration
  BY DEF MirrorInv, Mirror, OneIntegration, Single
<1> QED
  BY <1>1, <1>2, <1>3

LEMMA MirrorInit == Init => MirrorInv
<1> SUFFICES ASSUME Init PROVE MirrorInv
  OBVIOUS
<1>1. ReadStands
  BY DEF Init, ReadStands
<1>2. \A x : About(x) = {} /\ Graded(x) = {}
  BY DEF Init, About, Graded
<1>3. \A x \in Resources : Follows(x)
  BY <1>2 DEF Init, Follows
<1>4. \A x \in Subscriptions : Tells(x)
  BY <1>2 DEF Tells
<1>5. \A p \in Providers : Single(p)
  BY DEF Init, Single, RowsOf
<1> QED
  BY <1>1, <1>3, <1>4, <1>5, TypeInit DEF MirrorInv, Mirror

\* What the log, the rows and the events say is as before when they are.
LEMMA RecordsFrame ==
    ASSUME Mirror, UNCHANGED <<rows, log, told>>
    PROVE  (\A x \in Resources : Follows(x)') /\ \A x \in Subscriptions : Tells(x)'
BY DEF Mirror, Follows, About, Graded, Settles, Tells

LEMMA IntegrationsFrame ==
    ASSUME Mirror, UNCHANGED <<integrations, connected, doubled, strayed>>
    PROVE  \A p \in Providers : Single(p)'
BY DEF Mirror, Single, RowsOf

\* A handler begins; nothing is stored.
LEMMA BeginMirror ==
    ASSUME MirrorInv, NEW r \in Replicas, NEW w \in Pending, Begin(r, w),
           w.kind \in {"webhook", "validation"} /\ w.loaded => w.read = rows[w.about],
           w.kind = "connect" /\ w.row = Null => RowsOf(w.about) = {},
           w.kind = "connect" /\ w.row # Null => w.read = integrations[w.row].config
    PROVE  Mirror'
<1>1. /\ pending'[r] = w /\ \A q \in Replicas \ {r} : pending'[q] = pending[q]
      /\ UNCHANGED <<rows, log, told, integrations, connected, overtaken, doubled, strayed>>
  BY BeginStep DEF MirrorInv, TypeInv
<1>2. ReadStands'
  BY <1>1 DEF MirrorInv, Mirror, ReadStands, RowsOf
<1> QED
  BY <1>1, <1>2, RecordsFrame, IntegrationsFrame DEF MirrorInv, Mirror

\* A handler commits: those it does not overtake work on something else.
LEMMA OvertakeStands ==
    ASSUME MirrorInv, NEW r \in Replicas, Overtake(r), pending[r] # Null,
           \A x \in Resources : x # pending[r].about => rows'[x] = rows[x],
           \A i \in RowIds : integrations'[i] # integrations[i] =>
               \/ integrations[i] # Null /\ integrations[i].provider = pending[r].about
               \/ integrations[i] = Null /\ integrations'[i].provider = pending[r].about,
           \A i \in RowIds : integrations[i] # Null =>
               integrations'[i].provider = integrations[i].provider
    PROVE  ReadStands'
<1>0. TypeOK /\ RowsStay /\ ReadStands
  BY DEF MirrorInv, Mirror, TypeInv
<1> SUFFICES ASSUME NEW q \in Replicas, q \notin overtaken', pending'[q] # Null
             PROVE  LET v == pending'[q] IN
                    /\ v.kind \in {"webhook", "validation"} /\ v.loaded => v.read = rows'[v.about]
                    /\ v.kind = "connect" /\ v.row = Null =>
                         {i \in RowIds : integrations'[i] # Null
                                          /\ integrations'[i].provider = v.about} = {}
                    /\ v.kind = "connect" /\ v.row # Null => v.read = integrations'[v.row].config
  BY DEF ReadStands, RowsOf
<1> DEFINE w == pending[q]
<1>1. q # r /\ pending'[q] = w /\ w \in Pending /\ w # Null
  BY <1>0, EndStep DEF TypeOK
<1>2. q \notin overtaken /\ w.about # pending[r].about
  BY <1>1 DEF Overtake
<1>3. w.kind \in {"webhook", "validation"} /\ w.loaded => w.read = rows'[w.about]
  BY <1>0, <1>1, <1>2, PendingFields DEF ReadStands
<1>4. w.kind = "connect" /\ w.row # Null => w.read = integrations'[w.row].config
  BY <1>0, <1>1, <1>2, PendingFields DEF ReadStands, RowsStay
<1>5. w.kind = "connect" /\ w.row = Null =>
        {i \in RowIds : integrations'[i] # Null /\ integrations'[i].provider = w.about} = {}
  BY <1>0, <1>1, <1>2 DEF ReadStands, RowsOf
<1> QED
  BY <1>1, <1>3, <1>4, <1>5

\* A handler ends, having stored nothing that another one reads.
LEMMA EndStands ==
    ASSUME MirrorInv, NEW r \in Replicas, End(r), rows' = rows,
           \A i \in RowIds : /\ integrations'[i] = Null <=> integrations[i] = Null
                             /\ integrations'[i].provider = integrations[i].provider
                             /\ integrations'[i].config = integrations[i].config
    PROVE  ReadStands'
<1>0. TypeOK /\ ReadStands
  BY DEF MirrorInv, Mirror, TypeInv
<1>1. \A q \in Replicas \ overtaken' : pending'[q] # Null =>
        q \notin overtaken /\ pending'[q] = pending[q] /\ pending[q] \in Pending
  BY <1>0, EndStep DEF End, TypeOK
<1>2. \A p : RowsOf(p)' = RowsOf(p)
  BY DEF RowsOf
<1> QED
  BY <1>0, <1>1, <1>2, PendingFields DEF ReadStands

\* The log, the row and the event of a report.
LEMMA CommitMirror ==
    ASSUME MirrorInv, NEW r \in Replicas, Commit(r)
    PROVE  (\A x \in Resources : Follows(x)') /\ \A x \in Subscriptions : Tells(x)'
<1> DEFINE w == pending[r]
           n == Len(log) + 1
           entry == [report |-> w.report, organization |-> w.organization, via |-> w.kind,
                     late |-> r \in overtaken]
<1>0. TypeOK /\ RowsStay /\ ReadStands
  BY DEF MirrorInv, Mirror, TypeInv
<1>1. /\ w \in Pending /\ w # Null /\ w.kind \in {"webhook", "validation"} /\ w.loaded
      /\ w.about \in Resources /\ w.report \in Reports /\ w.read \in Row \cup {Null}
      /\ w.report.about = w.about
  BY <1>0, PendingFields DEF Commit, TypeOK, RowsStay
<1>2. /\ rows' = [rows EXCEPT ![w.about] = Upserted(w, rows[w.about])]
      /\ log' = Append(log, entry)
      /\ told' = IF w.about \in Subscriptions /\ EventAfter(w.report.status) # Null
                   THEN [told EXCEPT ![w.about] = EventAfter(w.report.status)] ELSE told
  BY DEF Commit
<1>3. /\ Len(log) \in Nat /\ DOMAIN log = 1..Len(log) /\ DOMAIN log' = 1..n
      /\ log'[n] = entry /\ \A i \in DOMAIN log : log'[i] = log[i]
  BY <1>0, <1>2 DEF TypeOK
<1>4. /\ entry.report = w.report /\ entry.organization = w.organization
      /\ entry.late <=> r \in overtaken
  OBVIOUS
<1>5. w.report.status \in (Statuses \ {"unknown"}) \cup {Null} /\ Null \notin Statuses
  BY <1>1, ReportFields, ProviderAssumption
<1>6. PICK x \in Resources : x = w.about
  BY <1>1
<1>7. /\ w.read = Null <=> rows[x] = Null
      /\ r \notin overtaken => w.read = rows[x]
  BY <1>0, <1>1, <1>6 DEF Commit, RowsStay, ReadStands
<1> HIDE DEF w, entry
<1>8. \A y : y # x => About(y)' = About(y) /\ Graded(y)' = Graded(y)
  BY <1>1, <1>3, <1>4, <1>6 DEF About, Graded
<1>9. /\ About(x) \subseteq 1..Len(log) /\ Graded(x) \subseteq About(x)
      /\ About(x)' = About(x) \cup {n}
      /\ Graded(x)' = IF w.report.status # Null THEN Graded(x) \cup {n} ELSE Graded(x)
  BY <1>1, <1>3, <1>4, <1>6 DEF About, Graded
<1>10. /\ rows'[x] = Upserted(w, rows[x])
       /\ \A y \in Resources \ {x} : rows'[y] = rows[y]
  BY <1>0, <1>2, <1>6 DEF TypeOK
<1>11. rows'[x] # Null
  <2>1. w.read # Null => rows[x] \in Row
    BY <1>0, <1>6, <1>7 DEF TypeOK
  <2>2. Upserted(w, rows[x]) \in Row
    BY <1>1, <2>1, UpsertedType
  <2> QED
    BY <1>10, <2>2, ProviderAssumption
<1>12. /\ r \notin overtaken =>
            /\ rows'[x].attributes = w.report.id
            /\ rows'[x].organization = w.organization
            /\ w.report.status # Null => rows'[x].status = w.report.status
       /\ w.report.status = Null =>
            rows'[x].status = IF rows[x] = Null THEN "unknown" ELSE rows[x].status
  BY <1>7, <1>10 DEF Upserted, Updated, StatusAfter
<1>13. ASSUME NEW y \in Resources, y # x
       PROVE  Follows(y)' /\ (y \in Subscriptions => Tells(y)')
  <2>1. rows'[y] = rows[y] /\ Follows(y) /\ About(y)' = About(y) /\ Graded(y)' = Graded(y)
    BY <1>8, <1>10, <1>13 DEF MirrorInv, Mirror
  <2>2. y \in Subscriptions => Tells(y) /\ told'[y] = told[y]
    BY <1>0, <1>2, <1>6, <1>13 DEF MirrorInv, Mirror, TypeOK
  <2>3. /\ \A i \in About(y) : log'[i] = log[i]
        /\ Graded(y) \subseteq About(y)
        /\ \A i \in About(y) : Settles(i, About(y))' <=> Settles(i, About(y))
        /\ \A i \in About(y) : Settles(i, Graded(y))' <=> Settles(i, Graded(y))
    BY <1>3, <2>1 DEF About, Graded, Settles
  <2>4. Follows(y)'
    BY <2>1, <2>3 DEF Follows
  <2>5. y \in Subscriptions => Tells(y)'
    BY <2>1, <2>2, <2>3 DEF Tells
  <2> QED
    BY <2>4, <2>5
<1>14. Follows(x) /\ (x \in Subscriptions => Tells(x))
  BY DEF MirrorInv, Mirror
<1>15. \A i : Settles(i, About(x))' => i = n /\ r \notin overtaken
  BY <1>3, <1>4, <1>9 DEF Settles
<1>16. CASE w.report.status # Null
  <2>1. \A i : Settles(i, Graded(x))' => i = n /\ r \notin overtaken
    BY <1>3, <1>4, <1>9, <1>16 DEF Settles
  <2>2. n \in Graded(x)'
    BY <1>9, <1>16
  <2>3. Follows(x)'
    BY <1>3, <1>4, <1>9, <1>11, <1>12, <1>15, <1>16, <2>1, <2>2 DEF Follows
  <2>4. ASSUME x \in Subscriptions, r \notin overtaken PROVE Tells(x)'
    <3>1. rows'[x].status = w.report.status
      BY <1>12, <1>16, <2>4
    <3>2. w.report.status \in On \cup Off => told'[x] = EventAfter(w.report.status)
      BY <1>0, <1>2, <1>6, <2>4, ProviderAssumption DEF TypeOK, EventAfter, Events
    <3> QED
      BY <3>1, <3>2 DEF Tells, EventAfter, On, Off
  <2>5. x \in Subscriptions => Tells(x)'
    BY <2>1, <2>4 DEF Tells
  <2> QED
    BY <1>13, <2>3, <2>5 DEF Resources
<1>17. CASE w.report.status = Null
  <2>1. /\ Graded(x)' = Graded(x) /\ \A i \in Graded(x) : log'[i] = log[i]
        /\ \A i : Settles(i, Graded(x))' <=> Settles(i, Graded(x))
    BY <1>3, <1>9, <1>17 DEF Settles
  <2>2. rows[x] = Null => Graded(x) = {}
    BY <1>9, <1>14 DEF Follows
  <2>3. Follows(x)'
    BY <1>3, <1>4, <1>9, <1>11, <1>12, <1>14, <1>15, <1>17, <2>1, <2>2 DEF Follows
  <2>4. told' = told
    BY <1>2, <1>5, <1>17 DEF EventAfter, On, Off, Statuses
  <2>5. x \in Subscriptions => Tells(x)'
    BY <1>12, <1>14, <1>17, <2>1, <2>2, <2>4 DEF Tells
  <2> QED
    BY <1>13, <2>3, <2>5 DEF Resources
<1> QED
  BY <1>16, <1>17

\* The rows of integrations after a connect.
LEMMA ConnectMirror ==
    ASSUME MirrorInv, NEW r \in Replicas, CommitConnect(r)
    PROVE  ReadStands' /\ \A p \in Providers : Single(p)'
<1> DEFINE w == pending[r]
<1>0. TypeOK /\ RowsStay /\ ReadStands
  BY DEF MirrorInv, Mirror, TypeInv
<1>1. /\ w \in Pending /\ w # Null /\ w.kind = "connect" /\ w.about \in Providers
      /\ w.config \in Configs /\ w.row \in RowIds \cup {Null}
      /\ Overtake(r) /\ rows' = rows
      /\ connected' = [connected EXCEPT ![w.about] = w.config]
  BY <1>0, PendingFields DEF CommitConnect, TypeOK
<1>2. /\ doubled' = IF w.row = Null /\ r \in overtaken THEN doubled \cup {w.about} ELSE doubled
      /\ strayed' = IF r \in overtaken THEN strayed \cup {w.about} ELSE strayed \ {w.about}
  BY DEF CommitConnect
<1>3. /\ w.row = Null =>
           \E i \in RowIds :
              /\ integrations[i] = Null
              /\ integrations' = [integrations EXCEPT ![i] =
                     [provider |-> w.about, config |-> w.config, tested |-> FALSE]]
      /\ w.row # Null =>
           integrations' = [integrations EXCEPT ![w.row] =
               [provider |-> integrations[w.row].provider,
                config   |-> Updated(w.read, w.config, integrations[w.row].config),
                tested   |-> integrations[w.row].tested]]
  BY DEF CommitConnect
<1>4. /\ r \notin overtaken /\ w.row = Null => RowsOf(w.about) = {}
      /\ r \notin overtaken /\ w.row # Null => w.read = integrations[w.row].config
      /\ w.row # Null => integrations[w.row] # Null /\ integrations[w.row].provider = w.about
  BY <1>0, <1>1 DEF ReadStands, RowsStay
<1>5. PICK p \in Providers : p = w.about
  BY <1>1
<1>s. ASSUME \A i \in RowIds : integrations'[i] # integrations[i] =>
                \/ integrations[i] # Null /\ integrations[i].provider = p
                \/ integrations[i] = Null /\ integrations'[i].provider = p,
             \A i \in RowIds : integrations[i] # Null =>
                integrations'[i].provider = integrations[i].provider
      PROVE  ReadStands'
  BY <1>1, <1>5, <1>s, OvertakeStands
<1> HIDE DEF w
<1>6. connected'[p] = w.config /\ \A y \in Providers \ {p} : connected'[y] = connected[y]
  BY <1>0, <1>1, <1>5 DEF TypeOK
<1>7. PICK k \in RowIds :
        /\ k = w.row \/ (w.row = Null /\ integrations[k] = Null)
        /\ integrations'[k] # Null /\ integrations'[k].provider = p
        /\ r \notin overtaken => integrations'[k].config = w.config
        /\ \A j \in RowIds \ {k} : integrations'[j] = integrations[j]
  <2>1. CASE w.row = Null
    <3> DEFINE new == [provider |-> w.about, config |-> w.config, tested |-> FALSE]
    <3>1. PICK i \in RowIds : integrations[i] = Null /\ integrations' = [integrations EXCEPT ![i] = new]
      BY <1>3, <2>1
    <3>2. new.provider = p /\ new.config = w.config /\ new # Null
      <4>1. new \in Integration
        BY <1>1 DEF Integration
      <4> QED
        BY <1>5, <4>1, ProviderAssumption
    <3> HIDE DEF new
    <3>3. integrations'[i] = new /\ \A j \in RowIds \ {i} : integrations'[j] = integrations[j]
      BY <1>0, <3>1 DEF TypeOK
    <3> QED
      BY <2>1, <3>1, <3>2, <3>3
  <2>2. CASE w.row # Null
    <3> DEFINE row == integrations[w.row]
               new == [provider |-> row.provider,
                       config   |-> Updated(w.read, w.config, row.config),
                       tested   |-> row.tested]
    <3>1. w.row \in RowIds /\ row # Null /\ row.provider = p /\ row \in Integration
      BY <1>0, <1>1, <1>4, <1>5, <2>2 DEF TypeOK
    <3>2. integrations' = [integrations EXCEPT ![w.row] = new]
      BY <1>3, <2>2
    <3>3. new.provider = p /\ (r \notin overtaken => new.config = w.config)
      BY <1>4, <2>2, <3>1 DEF Updated
    <3>4. new # Null
      <4>1. new \in Integration
        BY <1>1, <3>1 DEF Integration, Updated
      <4> QED
        BY <4>1, ProviderAssumption
    <3> HIDE DEF new
    <3>5. integrations'[w.row] = new
          /\ \A j \in RowIds \ {w.row} : integrations'[j] = integrations[j]
      BY <1>0, <3>1, <3>2 DEF TypeOK
    <3> QED
      BY <3>1, <3>3, <3>4, <3>5
  <2> QED
    BY <2>1, <2>2
<1>8. k = w.row => integrations[k] # Null /\ integrations[k].provider = p
  BY <1>1, <1>4, <1>5, <1>7, ProviderAssumption
<1>9. ReadStands'
  BY <1>s, <1>7, <1>8
<1>10. /\ RowsOf(p)' = RowsOf(p) \cup {k}
       /\ w.row # Null => k \in RowsOf(p)
  <2>1. w.row # Null => k = w.row
    BY <1>7
  <2> QED
    BY <1>7, <1>8, <2>1 DEF RowsOf
<1>11. Single(p)
  BY DEF MirrorInv, Mirror
<1>12. p \notin doubled' => \A i, j \in RowsOf(p)' : i = j
  <2>1. CASE w.row # Null
    BY <1>2, <1>10, <1>11, <2>1 DEF Single
  <2>2. CASE w.row = Null
    BY <1>2, <1>4, <1>5, <1>10, <2>2
  <2> QED
    BY <2>1, <2>2
<1>13. p \notin doubled' \cup strayed' => \A i \in RowsOf(p)' : integrations'[i].config = w.config
  <2>1. p \notin doubled' \cup strayed' => r \notin overtaken /\ \A i \in RowsOf(p)' : i = k
    BY <1>2, <1>5, <1>10, <1>12
  <2> QED
    BY <1>7, <2>1
<1>14. Single(p)'
  BY <1>6, <1>10, <1>12, <1>13 DEF Single
<1>15. ASSUME NEW y \in Providers, y # p PROVE Single(y)'
  <2>1. /\ RowsOf(y)' = RowsOf(y)
        /\ \A i \in RowsOf(y) : integrations'[i] = integrations[i]
    <3>1. k \notin RowsOf(y) /\ k \notin RowsOf(y)'
      BY <1>7, <1>8, <1>15 DEF RowsOf
    <3> QED
      BY <1>7, <3>1 DEF RowsOf
  <2>2. /\ y \in doubled' <=> y \in doubled
        /\ y \in strayed' <=> y \in strayed
        /\ connected'[y] = connected[y] /\ Single(y)
    BY <1>2, <1>5, <1>6, <1>15 DEF MirrorInv, Mirror
  <2> QED
    BY <2>1, <2>2 DEF Single
<1> QED
  BY <1>9, <1>14, <1>15

LEMMA MirrorStep == MirrorInv /\ [Next]_vars => MirrorInv'
<1> SUFFICES ASSUME MirrorInv, [Next]_vars PROVE MirrorInv'
  OBVIOUS
<1>0. TypeInv /\ TypeOK /\ RowsStay /\ Mirror /\ ReadStands /\ TypeInv'
  BY TypeStep DEF MirrorInv, Mirror, TypeInv
<1>1. ASSUME NEW r \in Replicas, NEW m \in Reports, Receive(r, m) PROVE Mirror'
  <2> DEFINE w == Told("webhook", m, OrganizationOf(m), TRUE, rows[m.about])
  <2>1. w \in Pending
    BY <1>0, ToldPending, ReportFields DEF TypeOK
  <2>2. w.kind = "webhook" /\ w.read = rows[w.about] /\ Begin(r, w)
    BY <1>1 DEF Receive, Told
  <2> HIDE DEF w
  <2> QED
    BY <2>1, <2>2, BeginMirror
<1>2. ASSUME NEW r \in Replicas, NEW m \in Reports, NEW o \in Organizations, Validate(r, m, o)
      PROVE  Mirror'
  <2> DEFINE w == Told("validation", m, o, FALSE, Null)
  <2>1. w \in Pending
    BY ToldPending
  <2>2. w.kind = "validation" /\ ~w.loaded /\ Begin(r, w)
    BY <1>2 DEF Validate, Told
  <2> HIDE DEF w
  <2> QED
    BY <2>1, <2>2, BeginMirror
<1>3. ASSUME NEW r \in Replicas, NEW p \in Providers, NEW config \in Configs,
             Connect(r, p, config)
      PROVE  Mirror'
  <2>1. CASE Found(p) = {} /\ Begin(r, Wanted(p, config, Null, Null))
    <3> DEFINE w == Wanted(p, config, Null, Null)
    <3>1. w \in Pending /\ w.kind = "connect" /\ w.row = Null /\ w.about = p
      BY WantedPending DEF Wanted
    <3>2. RowsOf(p) = {}
      BY <2>1 DEF Found
    <3> HIDE DEF w
    <3> QED
      BY <2>1, <3>1, <3>2, BeginMirror DEF w
  <2>2. ASSUME NEW i \in Found(p), Begin(r, Wanted(p, config, i, integrations[i].config))
        PROVE  Mirror'
    <3> DEFINE w == Wanted(p, config, i, integrations[i].config)
    <3>1. i \in RowIds /\ integrations[i] # Null /\ integrations[i].config \in Configs
      BY <1>0 DEF Found, RowsOf, TypeOK, Integration
    <3>2. /\ w \in Pending /\ w.kind = "connect" /\ w.row = i /\ w.row # Null
          /\ w.read = integrations[w.row].config
      BY <3>1, WantedPending, ProviderAssumption DEF Wanted
    <3> HIDE DEF w
    <3> QED
      BY <2>2, <3>2, BeginMirror DEF w
  <2> QED
    BY <1>3, <2>1, <2>2 DEF Connect, Wanted
<1>4. ASSUME NEW r \in Replicas, NEW p \in Providers, Test(r, p) PROVE Mirror'
  <2>1. PICK i \in Found(p) : Begin(r, [kind |-> "test", about |-> p, row |-> i])
    BY <1>4 DEF Test
  <2> DEFINE w == [kind |-> "test", about |-> p, row |-> i]
  <2>2. w \in Pending /\ w.kind = "test" /\ Begin(r, w)
    BY <2>1 DEF Found, RowsOf, Pending
  <2> HIDE DEF w
  <2> QED
    BY <2>2, BeginMirror
<1>5. ASSUME NEW r \in Replicas, Load(r) PROVE Mirror'
  <2> DEFINE old == pending[r]
             w == [kind |-> "validation", about |-> old.about, report |-> old.report,
                   organization |-> old.organization, loaded |-> TRUE,
                   read |-> rows[old.about]]
  <2>1. w.kind = "validation" /\ w.about = old.about /\ w.read = rows[w.about] /\ w.loaded
    OBVIOUS
  <2>2. /\ pending'[r] = w
        /\ \A q \in Replicas \ {r} : pending'[q] = pending[q]
        /\ overtaken' = overtaken \ {r}
        /\ UNCHANGED <<rows, log, told, integrations, connected, doubled, strayed>>
    BY <1>0, <1>5 DEF Load, TypeOK
  <2> HIDE DEF w
  <2>3. ReadStands'
    BY <1>0, <2>1, <2>2 DEF ReadStands, RowsOf
  <2> QED
    BY <1>0, <2>2, <2>3, RecordsFrame, IntegrationsFrame DEF Mirror
<1>6. ASSUME NEW r \in Replicas, Commit(r) PROVE Mirror'
  <2>1. \A x \in Resources : x # pending[r].about => rows'[x] = rows[x]
    BY <1>0, <1>6 DEF Commit, TypeOK
  <2>2. /\ pending[r] # Null /\ Overtake(r)
        /\ UNCHANGED <<integrations, connected, doubled, strayed>>
    BY <1>6 DEF Commit
  <2>3. ReadStands'
    BY <2>1, <2>2, OvertakeStands
  <2> QED
    BY <1>0, <1>6, <2>2, <2>3, IntegrationsFrame, CommitMirror DEF Mirror
<1>7. ASSUME NEW r \in Replicas, CommitConnect(r) PROVE Mirror'
  <2>1. UNCHANGED <<rows, log, told>>
    BY <1>7 DEF CommitConnect
  <2> QED
    BY <1>0, <1>7, <2>1, RecordsFrame, ConnectMirror DEF Mirror
<1>8. ASSUME NEW r \in Replicas, CommitTest(r) PROVE Mirror'
  <2> DEFINE w == pending[r]
             row == integrations[w.row]
             new == [provider |-> row.provider, config |-> row.config, tested |-> TRUE]
  <2>1. /\ w.row \in RowIds /\ row # Null /\ row \in Integration
        /\ End(r) /\ UNCHANGED <<rows, log, told, connected, doubled, strayed>>
        /\ integrations' = [integrations EXCEPT ![w.row] = new]
    BY <1>0, <1>8, PendingFields DEF CommitTest, TypeOK, RowsStay
  <2>2. new # Null /\ new.provider = row.provider /\ new.config = row.config
    <3>1. new \in Integration
      BY <2>1 DEF Integration
    <3> QED
      BY <3>1, ProviderAssumption
  <2> HIDE DEF new
  <2>3. \A i \in RowIds : integrations'[i] = IF i = w.row THEN new ELSE integrations[i]
    BY <1>0, <2>1 DEF TypeOK
  <2>4. \A i \in RowIds : /\ integrations'[i] = Null <=> integrations[i] = Null
                          /\ integrations'[i].provider = integrations[i].provider
                          /\ integrations'[i].config = integrations[i].config
    BY <2>1, <2>2, <2>3
  <2>5. ReadStands'
    BY <2>1, <2>4, EndStands
  <2>6. \A p \in Providers : Single(p)'
    BY <1>0, <2>1, <2>4 DEF Mirror, Single, RowsOf
  <2> QED
    BY <1>0, <2>1, <2>5, <2>6, RecordsFrame DEF Mirror
<1>9. ASSUME NEW r \in Replicas, Abandon(r) PROVE Mirror'
  <2>1. End(r) /\ UNCHANGED <<rows, log, told, integrations, connected, doubled, strayed>>
    BY <1>9 DEF Abandon
  <2>2. ReadStands'
    BY <2>1, EndStands
  <2> QED
    BY <1>0, <2>1, <2>2, RecordsFrame, IntegrationsFrame DEF Mirror
<1>10. ASSUME UNCHANGED vars PROVE Mirror'
  <2>1. ReadStands'
    BY <1>0, <1>10 DEF vars, ReadStands, RowsOf
  <2> QED
    BY <1>0, <1>10, <2>1, RecordsFrame, IntegrationsFrame DEF vars, Mirror
<1>11. Mirror'
  BY <1>1, <1>2, <1>3, <1>4, <1>5, <1>6, <1>7, <1>8, <1>9, <1>10 DEF Next
<1> QED
  BY <1>0, <1>11 DEF MirrorInv

LEMMA SpecMirrorInv == Spec => []MirrorInv
BY MirrorInit, MirrorStep, PTL DEF Spec

\* A subscription or licence is what its log says, whatever overlapped before, unless the
\* last report was itself overtaken.
THEOREM RowsFollowTheLog == Spec => []RowFollowsLog
BY SpecMirrorInv, MirrorImplies, PTL

\* The last event about a subscription is then the one its status calls for.
THEOREM EventsAreTrue == Spec => []EventsTellTheStatus
BY SpecMirrorInv, MirrorImplies, PTL

\* A provider has one row, with the configuration of the last connect that was answered,
\* unless a connect was overtaken.
THEOREM IntegrationsAreSingle == Spec => []OneIntegration
BY SpecMirrorInv, MirrorImplies, PTL
================================================================================
