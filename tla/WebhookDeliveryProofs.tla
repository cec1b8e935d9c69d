------------------------- MODULE WebhookDeliveryProofs -------------------------
(***************************************************************************)
(* Theorems about WebhookDelivery.  Whatever crashes, is cancelled, raises *)
(* or interleaves, a row claims nothing that did not happen, and a         *)
(* mutation loses its events only to a crash or to a post that raises.     *)
(* With one worker and no operator every delivery has one owner at a time: *)
(* its row tells the posts sent, and the transactions keep the ledger of   *)
(* DeliveryLedger.                                                         *)
(***************************************************************************)
EXTENDS WebhookDelivery, FiniteSetTheorems, TLAPS

\* What a row, committed or about to be, claims of a delivery has happened.
Honest(row, d) ==
    /\ row.status = "delivered" => d \in accepted
    /\ Sent(row.attempts, d)

RowsHonest == \A d \in Deliveries : rows[d] # Null => Honest(rows[d], d)

WritesHonest ==
    \A p \in Procs, d \in Deliveries :
        writes[p][d] # Null => Honest(writes[p][d].now, d)

\* What is still to be posted was loaded from an honest row.  A post whose outcome is
\* known and not yet written is the first of its list, and has been counted.
JobsHonest ==
    \A p \in Procs : \A i \in 1..Len(todo[p]) :
        Sent(todo[p][i].was.attempts, todo[p][i].d)

PostsHonest ==
    \A p \in Procs :
        /\ phase[p] \in {"accepted", "refused"} => todo[p] # <<>>
        /\ phase[p] = "accepted" => Head(todo[p]).d \in accepted
        /\ phase[p] \in {"accepted", "refused"} =>
              Sent(Head(todo[p]).was.attempts + 1, Head(todo[p]).d)

HonestInv == TypeOK /\ RowsHonest /\ WritesHonest /\ JobsHonest /\ PostsHonest

LEMMA AttemptedType ==
    ASSUME NEW row \in Row, NEW outcome
    PROVE  /\ Attempted(row, outcome) \in Attempt
           /\ Attempted(row, outcome).status = "delivered" <=> outcome = "accepted"
           /\ Attempted(row, outcome).attempts = row.attempts + 1
BY DEF Attempted, NextAttempt, Attempt, Row

LEMMA AttemptIsRow == Attempt \subseteq Row
BY DEF Attempt, Row

LEMMA MergedType ==
    ASSUME NEW row \in Attempt, NEW w \in Write
    PROVE  /\ Merged(row, w) \in Attempt
           /\ Merged(row, w).status \in {row.status, w.now.status}
           /\ Merged(row, w).attempts \in {row.attempts, w.now.attempts}
BY DEF Merged, Attempt, Write, Row

LEMMA DeliveriesFinite == IsFiniteSet(Deliveries)
<1>1. IsFiniteSet(Events)
    BY WebhookAssumption, FS_Interval DEF Events
<1>2. QED
    BY <1>1, WebhookAssumption, FS_Product DEF Deliveries

\* Posts only grow.
LEMMA SentGrows ==
    ASSUME TypeOK, NEW d \in Deliveries, NEW n \in Nat, Sent(n, d),
           posts'[d] \in Nat, posts[d] <= posts'[d]
    PROVE  Sent(n, d)'
BY WebhookAssumption DEF Sent, TypeOK

LEMMA JobType ==
    ASSUME TypeOK, NEW p \in Procs, NEW i \in 1..Len(todo[p])
    PROVE  /\ todo[p][i] \in Job
           /\ todo[p][i].d \in Deliveries /\ todo[p][i].was \in Row
<1>1. todo[p] \in Seq(Job)
    BY DEF TypeOK
<1>2. todo[p][i] \in Job
    BY <1>1
<1>3. QED
    BY <1>2 DEF Job

LEMMA HeadJob ==
    ASSUME TypeOK, NEW p \in Procs, todo[p] # <<>>
    PROVE  1 \in 1..Len(todo[p]) /\ Head(todo[p]) = todo[p][1]
BY DEF TypeOK

LEMMA HonestInit == Init => HonestInv
<1> SUFFICES ASSUME Init
             PROVE  HonestInv
    OBVIOUS
<1>1. TypeOK
    <2>1. NoWrites \in [Deliveries -> Write \cup {Null}]
        BY DEF NoWrites
    <2>2. 0 \in 0..MaxEvents /\ 0 \in 0..MaxCrashes /\ 0 \in 0..(MaxAttempts + 1)
        BY WebhookAssumption
    <2>3. <<>> \in Seq(Job)
        OBVIOUS
    <2>4. QED
        BY <2>1, <2>2, <2>3 DEF Init, TypeOK
<1>2. RowsHonest /\ WritesHonest /\ JobsHonest /\ PostsHonest
    BY DEF Init, RowsHonest, WritesHonest, JobsHonest, PostsHonest, NoWrites
<1>3. QED
    BY <1>1, <1>2 DEF HonestInv

\* A transaction that ends leaves nothing behind.
LEMMA EndsStep ==
    ASSUME HonestInv, NEW p \in Procs, Ends(p), UNCHANGED <<posts, accepted>>
    PROVE  /\ phase' \in [Procs -> {"idle", "run", "accepted", "refused"}]
           /\ todo' \in [Procs -> Seq(Job)]
           /\ writes' \in [Procs -> [Deliveries -> Write \cup {Null}]]
           /\ emitted' \in [Procs -> SUBSET Events]
           /\ WritesHonest' /\ JobsHonest' /\ PostsHonest'
<1>1. NoWrites \in [Deliveries -> Write \cup {Null}]
    BY DEF NoWrites
<1>2. <<>> \in Seq(Job)
    OBVIOUS
<1>3. /\ phase' \in [Procs -> {"idle", "run", "accepted", "refused"}]
      /\ todo' \in [Procs -> Seq(Job)]
      /\ writes' \in [Procs -> [Deliveries -> Write \cup {Null}]]
      /\ emitted' \in [Procs -> SUBSET Events]
    BY <1>1, <1>2 DEF Ends, HonestInv, TypeOK
<1>4. WritesHonest'
    BY DEF Ends, HonestInv, TypeOK, WritesHonest, NoWrites, Honest, Sent
<1>5. PostsHonest'
    BY DEF Ends, HonestInv, TypeOK, PostsHonest, Sent
<1>6. JobsHonest'
    <2> SUFFICES ASSUME NEW q \in Procs, NEW i \in 1..Len(todo'[q])
                 PROVE  Sent(todo[q][i].was.attempts, todo[q][i].d)'
        BY DEF JobsHonest
    <2>1. q # p /\ todo'[q] = todo[q]
        BY DEF Ends, HonestInv, TypeOK
    <2>2. QED
        BY <2>1 DEF HonestInv, JobsHonest, Sent
<1>7. QED
    BY <1>3, <1>4, <1>5, <1>6

\* A transaction that begins, or goes on to another event, has written nothing of
\* what it is about to post.
LEMMA BeginsStep ==
    ASSUME HonestInv, NEW p \in Procs, NEW jobs \in Seq(Job), Begins(p, jobs),
           \A i \in 1..Len(jobs) : Sent(jobs[i].was.attempts, jobs[i].d),
           UNCHANGED <<rows, writes, posts, accepted>>
    PROVE  /\ phase' \in [Procs -> {"idle", "run", "accepted", "refused"}]
           /\ todo' \in [Procs -> Seq(Job)]
           /\ RowsHonest' /\ WritesHonest' /\ JobsHonest' /\ PostsHonest'
<1>1. /\ phase' \in [Procs -> {"idle", "run", "accepted", "refused"}]
      /\ todo' \in [Procs -> Seq(Job)]
    BY DEF Begins, HonestInv, TypeOK
<1>2. RowsHonest' /\ WritesHonest'
    BY DEF HonestInv, RowsHonest, WritesHonest, Honest, Sent
<1>3. PostsHonest'
    BY DEF Begins, HonestInv, TypeOK, PostsHonest, Sent
<1>4. JobsHonest'
    <2> SUFFICES ASSUME NEW q \in Procs, NEW i \in 1..Len(todo'[q])
                 PROVE  Sent(todo[q][i].was.attempts, todo[q][i].d)'
        BY DEF JobsHonest
    <2>1. CASE q = p
        <3>1. todo'[p] = jobs
            BY DEF Begins, HonestInv, TypeOK
        <3>2. QED
            BY <2>1, <3>1 DEF Sent
    <2>2. CASE q # p
        <3>1. todo'[q] = todo[q]
            BY <2>2 DEF Begins, HonestInv, TypeOK
        <3>2. QED
            BY <3>1 DEF HonestInv, JobsHonest, Sent
    <2>3. QED
        BY <2>1, <2>2
<1>5. QED
    BY <1>1, <1>2, <1>3, <1>4

\* A step that leaves the rows, the posts and what is under way as they are.
LEMMA HonestSame ==
    ASSUME HonestInv, UNCHANGED <<rows, phase, todo, writes, posts, accepted>>
    PROVE  RowsHonest' /\ WritesHonest' /\ JobsHonest' /\ PostsHonest'
BY DEF HonestInv, RowsHonest, WritesHonest, JobsHonest, PostsHonest, Honest, Sent

LEMMA HonestStep == HonestInv /\ [Next]_vars => HonestInv'
<1> SUFFICES ASSUME HonestInv, [Next]_vars
             PROVE  HonestInv'
    OBVIOUS
<1>0. TypeOK /\ RowsHonest /\ WritesHonest /\ JobsHonest /\ PostsHonest
    BY DEF HonestInv
<1>1. ASSUME NEW p \in Procs, Post(p)
      PROVE  HonestInv'
    <2> DEFINE d == Head(todo[p]).d
    <2>1. todo[p] \in Seq(Job) /\ todo[p] # <<>> /\ Head(todo[p]) \in Job
        BY <1>0, <1>1 DEF Post, TypeOK
    <2>2. d \in Deliveries
        BY <2>1 DEF Job
    <2>3. TypeOK'
        <3>1. posts' \in [Deliveries -> 0..(MaxAttempts + 1)]
            BY <1>0, <1>1, <2>2, WebhookAssumption DEF Post, TypeOK
        <3>2. QED
            BY <1>0, <1>1, <2>2, <3>1 DEF Post, TypeOK
    <2>4. accepted \subseteq accepted' /\ UNCHANGED <<rows, writes, todo>>
        BY <1>1 DEF Post
    <2>5. \A e \in Deliveries : /\ posts[e] \in Nat /\ posts'[e] \in Nat
                               /\ posts[e] <= posts'[e]
        BY <1>0, <1>1, <2>2, <2>3, WebhookAssumption DEF Post, TypeOK
    <2>6. \A e \in Deliveries, n \in Nat : Sent(n, e) => Sent(n, e)'
        BY <1>0, <2>5, SentGrows
    <2>7. RowsHonest'
        BY <1>0, <2>4, <2>6 DEF TypeOK, Attempt, RowsHonest, Honest
    <2>8. WritesHonest'
        BY <1>0, <2>4, <2>6 DEF TypeOK, Write, Attempt, WritesHonest, Honest
    <2>9. JobsHonest'
        <3> SUFFICES ASSUME NEW q \in Procs, NEW i \in 1..Len(todo[q])
                     PROVE  Sent(todo[q][i].was.attempts, todo[q][i].d)'
            BY <2>4 DEF JobsHonest
        <3>1. PICK e \in Deliveries, n \in Nat :
                e = todo[q][i].d /\ n = todo[q][i].was.attempts
            BY <1>0, JobType DEF Row
        <3>2. Sent(n, e)'
            BY <1>0, <2>6, <3>1 DEF JobsHonest
        <3>3. QED
            BY <2>4, <3>1, <3>2 DEF Sent
    <2>10. \A q \in Procs : todo[q] # <<>> =>
             /\ Head(todo[q]).d \in Deliveries /\ Head(todo[q]).was.attempts \in Nat
             /\ Sent(Head(todo[q]).was.attempts, Head(todo[q]).d)
        BY <1>0, HeadJob, JobType DEF JobsHonest, Row
    <2>11. Sent(Head(todo[p]).was.attempts + 1, Head(todo[p]).d)'
        <3>1. PICK e \in Deliveries, n \in Nat :
                e = Head(todo[p]).d /\ n = Head(todo[p]).was.attempts /\ Sent(n, e)
            BY <2>1, <2>10
        <3>2. posts'[e] = IF posts[e] > MaxAttempts THEN posts[e] ELSE posts[e] + 1
            BY <1>0, <1>1, <3>1 DEF Post, TypeOK
        <3>3. posts[e] \in Nat /\ MaxAttempts \in Nat
            BY <2>5, WebhookAssumption
        <3>4. Sent(n + 1, e)'
            BY <3>1, <3>2, <3>3 DEF Sent
        <3>5. QED
            BY <2>4, <3>1, <3>4 DEF Sent
    <2>12. PostsHonest'
        <3> SUFFICES ASSUME NEW q \in Procs, phase'[q] \in {"accepted", "refused"}
                     PROVE  /\ todo[q] # <<>>
                            /\ phase'[q] = "accepted" => Head(todo[q]).d \in accepted'
                            /\ Sent(Head(todo[q]).was.attempts + 1, Head(todo[q]).d)'
            BY <2>4 DEF PostsHonest
        <3>1. CASE q = p
            BY <1>0, <1>1, <2>1, <2>11, <3>1 DEF Post, TypeOK
        <3>2. CASE q # p
            <4>1. phase'[q] = phase[q]
                BY <1>0, <1>1, <3>2 DEF Post, TypeOK
            <4>2. /\ todo[q] # <<>> /\ (phase[q] = "accepted" => Head(todo[q]).d \in accepted)
                  /\ Sent(Head(todo[q]).was.attempts + 1, Head(todo[q]).d)
                BY <1>0, <4>1 DEF PostsHonest
            <4>3. PICK e \in Deliveries, n \in Nat :
                    e = Head(todo[q]).d /\ n = Head(todo[q]).was.attempts + 1
                BY <2>10, <4>2
            <4>4. Sent(n, e)'
                BY <2>6, <4>2, <4>3
            <4>5. Sent(Head(todo[q]).was.attempts + 1, Head(todo[q]).d)'
                BY <2>4, <4>3, <4>4 DEF Sent
            <4>6. QED
                BY <2>4, <4>1, <4>2, <4>5
        <3>3. QED
            BY <3>1, <3>2
    <2>13. QED
        BY <2>3, <2>7, <2>8, <2>9, <2>12 DEF HonestInv
<1>2. ASSUME NEW p \in Procs, Update(p)
      PROVE  HonestInv'
    <2> DEFINE j == Head(todo[p])
               w == [was |-> j.was, now |-> Attempted(j.was, phase[p])]
    <2>1. todo[p] \in Seq(Job) /\ todo[p] # <<>> /\ j \in Job
        BY <1>0, <1>2 DEF Update, TypeOK, PostsHonest
    <2>2. /\ j.d \in Deliveries /\ j.was \in Row
          /\ w \in Write /\ w.now = Attempted(j.was, phase[p])
        BY <2>1, AttemptedType DEF Job, Write
    <2>3. /\ writes' = [writes EXCEPT ![p][j.d] = w]
          /\ todo' = [todo EXCEPT ![p] = Tail(@)]
          /\ phase' = [phase EXCEPT ![p] = "run"]
          /\ UNCHANGED <<hooks, issued, kept, rows, emitted, posts, accepted, crashes>>
        BY <1>2 DEF Update
    <2>4. Honest(w.now, j.d)
        BY <1>0, <1>2, <2>2, AttemptedType DEF Honest, PostsHonest, Update
    <2> HIDE DEF w, j
    <2>5. TypeOK'
        BY <1>0, <2>1, <2>2, <2>3 DEF TypeOK
    <2>6. RowsHonest'
        BY <1>0, <2>3 DEF RowsHonest, Honest, Sent
    <2>7. WritesHonest'
        BY <1>0, <2>2, <2>3, <2>4 DEF TypeOK, WritesHonest, Honest, Sent
    <2>8. PostsHonest'
        BY <1>0, <2>3 DEF TypeOK, PostsHonest, Sent
    <2>9. JobsHonest'
        <3> SUFFICES ASSUME NEW q \in Procs, NEW i \in 1..Len(todo'[q])
                     PROVE  Sent(todo'[q][i].was.attempts, todo'[q][i].d)
            BY <2>3 DEF JobsHonest, Sent
        <3>1. CASE q = p
            <4>1. todo'[p] = Tail(todo[p])
                BY <1>0, <2>3 DEF TypeOK
            <4>2. i + 1 \in 1..Len(todo[p]) /\ todo'[p][i] = todo[p][i + 1]
                BY <2>1, <3>1, <4>1
            <4>3. QED
                BY <1>0, <3>1, <4>2 DEF JobsHonest
        <3>2. CASE q # p
            BY <1>0, <2>3, <3>2 DEF TypeOK, JobsHonest
        <3>3. QED
            BY <3>1, <3>2
    <2>11. QED
        BY <2>5, <2>6, <2>7, <2>8, <2>9 DEF HonestInv
<1>3. ASSUME NEW p \in Procs, Commit(p)
      PROVE  HonestInv'
    <2>1. ASSUME NEW d \in Deliveries
          PROVE  /\ rows'[d] \in Attempt \cup {Null}
                 /\ rows'[d] # Null => Honest(rows'[d], d)
        <3>1. CASE writes[p][d] = Null
            BY <1>0, <1>3, <3>1 DEF Commit, TypeOK, RowsHonest
        <3>2. CASE writes[p][d] # Null
            <4>1. writes[p][d] \in Write /\ Honest(writes[p][d].now, d)
                BY <1>0, <3>2 DEF TypeOK, WritesHonest
            <4>2. CASE rows[d] = Null
                BY <1>3, <3>2, <4>1, <4>2 DEF Commit, Write
            <4>3. CASE rows[d] # Null
                <5>1. rows[d] \in Attempt /\ Honest(rows[d], d)
                    BY <1>0, <4>3 DEF TypeOK, RowsHonest
                <5>2. rows'[d] = Merged(rows[d], writes[p][d])
                    BY <1>3, <3>2, <4>3 DEF Commit
                <5>3. QED
                    BY <4>1, <5>1, <5>2, MergedType DEF Honest
            <4>4. QED
                BY <4>2, <4>3
        <3>3. QED
            BY <3>1, <3>2
    <2>2. rows' \in [Deliveries -> Attempt \cup {Null}]
        BY <1>3, <2>1 DEF Commit
    <2>3. Ends(p) /\ UNCHANGED <<hooks, issued, posts, accepted, crashes>>
          /\ kept' = kept \cup emitted[p]
        BY <1>3 DEF Commit
    <2>4. kept' \in SUBSET Events
        BY <1>0, <2>3 DEF TypeOK
    <2>5. TypeOK'
        BY <1>0, <2>2, <2>3, <2>4, EndsStep DEF TypeOK
    <2>6. RowsHonest'
        BY <2>1, <2>3 DEF RowsHonest, Honest, Sent
    <2>7. QED
        BY <2>3, <2>5, <2>6, EndsStep DEF HonestInv
<1>4. ASSUME NEW p \in Procs, RollsBack(p), crashes' \in 0..MaxCrashes
      PROVE  HonestInv'
    <2>1. TypeOK'
        BY <1>0, <1>4, EndsStep DEF RollsBack, TypeOK
    <2>2. RowsHonest'
        BY <1>0, <1>4 DEF RollsBack, RowsHonest, Honest, Sent
    <2>3. QED
        BY <1>4, <2>1, <2>2, EndsStep DEF RollsBack, HonestInv
<1>5. ASSUME NEW p \in Procs, Raise(p) \/ Crash(p) \/ CancelDeadlocked(p)
      PROVE  HonestInv'
    <2>1. crashes' \in 0..MaxCrashes
        <3>1. crashes \in 0..MaxCrashes /\ MaxCrashes \in Nat
            BY <1>0, WebhookAssumption DEF TypeOK
        <3>2. crashes' = crashes \/ (crashes < MaxCrashes /\ crashes' = crashes + 1)
            BY <1>5 DEF Raise, Crash, CancelDeadlocked
        <3>3. QED
            BY <3>1, <3>2
    <2>2. RollsBack(p)
        BY <1>5 DEF Raise, Crash, CancelDeadlocked
    <2>3. QED
        BY <1>4, <2>1, <2>2
<1>6. ASSUME NEW p \in Procs, Emit(p)
      PROVE  HonestInv'
    <2>1. PICK t \in SUBSET Hooks : \E jobs \in Emission(issued', t) : Begins(p, jobs)
        <3>1. PICK o \in Orgs :
                LET active == {h \in Hooks : OrgOf[h] = o /\ hooks[h] = "active"}
                IN  \E t \in SUBSET active :
                      \E jobs \in Emission(issued', t) : Begins(p, jobs)
            BY <1>6 DEF Emit
        <3>2. QED
            BY <3>1
    <2>2. PICK jobs \in Emission(issued', t) : Begins(p, jobs)
        BY <2>1
    <2>3. issued' \in Events /\ issued' \in 0..MaxEvents
        BY <1>0, <1>6, WebhookAssumption DEF Emit, TypeOK, Events
    <2>4. jobs \in Seq(Job)
        <3>1. Cardinality(t) \in Nat
            BY WebhookAssumption, FS_CardinalityType, FS_Subset
        <3>2. PICK f \in [1..Cardinality(t) -> t] :
                jobs = [i \in 1..Cardinality(t) |->
                          [d |-> <<issued', f[i]>>,
                           was |-> [status |-> "pending", attempts |-> 0, next |-> "due"]]]
            BY <2>2 DEF Emission
        <3>3. \A i \in 1..Cardinality(t) :
                [d |-> <<issued', f[i]>>,
                 was |-> [status |-> "pending", attempts |-> 0, next |-> "due"]] \in Job
            BY <2>3, <3>2 DEF Job, Row, Deliveries
        <3>4. QED
            BY <3>1, <3>2, <3>3
    <2>5. /\ emitted' \in [Procs -> SUBSET Events]
          /\ UNCHANGED <<hooks, kept, rows, writes, posts, accepted, crashes>>
        BY <1>0, <1>6, <2>3 DEF Emit, TypeOK
    <2>6. ASSUME NEW i \in 1..Len(jobs)
          PROVE  Sent(jobs[i].was.attempts, jobs[i].d)
        <3>1. PICK f \in [1..Cardinality(t) -> t] :
                jobs = [k \in 1..Cardinality(t) |->
                          [d |-> <<issued', f[k]>>,
                           was |-> [status |-> "pending", attempts |-> 0, next |-> "due"]]]
            BY <2>2 DEF Emission
        <3>2. i \in DOMAIN jobs /\ jobs[i] \in Job
            BY <2>4
        <3>3. jobs[i].was.attempts = 0 /\ jobs[i].d \in Deliveries
            BY <3>1, <3>2 DEF Job
        <3>4. posts[jobs[i].d] \in Nat
            BY <1>0, <3>3, WebhookAssumption DEF TypeOK
        <3>5. QED
            BY <3>3, <3>4 DEF Sent
    <2>7. QED
        BY <1>0, <2>2, <2>3, <2>4, <2>5, <2>6, BeginsStep DEF HonestInv, TypeOK
<1>7. ASSUME NEW p \in Procs, NEW o \in Orgs, Sweep(p, o)
      PROVE  HonestInv'
    <2>1. PICK s \in Batches(DueIn(o)) :
            Begins(p, [i \in DOMAIN s |-> [d |-> s[i], was |-> rows[s[i]]]])
        BY <1>7 DEF Sweep
    <2> DEFINE jobs == [i \in DOMAIN s |-> [d |-> s[i], was |-> rows[s[i]]]]
               due == DueIn(o)
               n == IF Cardinality(due) < BatchSize THEN Cardinality(due) ELSE BatchSize
    <2>2. jobs \in Seq(Job)
        <3>1. due \subseteq Deliveries
            BY DEF DueIn
        <3>2. Cardinality(due) \in Nat
            BY <3>1, DeliveriesFinite, FS_CardinalityType, FS_Subset
        <3>3. n \in Nat
            BY <3>2, WebhookAssumption
        <3>4. s \in [1..n -> due]
            BY DEF Batches
        <3>5. \A d \in due : d \in Deliveries /\ rows[d] \in Row
            BY <1>0, AttemptIsRow DEF DueIn, Retriable, TypeOK
        <3>6. \A i \in 1..n : [d |-> s[i], was |-> rows[s[i]]] \in Job
            BY <3>4, <3>5 DEF Job
        <3> HIDE DEF n, due
        <3>7. QED
            BY <3>3, <3>4, <3>6
    <2>3. \A i \in 1..Len(jobs) : Sent(jobs[i].was.attempts, jobs[i].d)
        <3> SUFFICES ASSUME NEW i \in 1..Len(jobs)
                     PROVE  Sent(jobs[i].was.attempts, jobs[i].d)
            OBVIOUS
        <3>1. i \in DOMAIN s
            BY <2>2
        <3>2. s[i] \in due
            BY <3>1 DEF Batches
        <3>3. s[i] \in Deliveries /\ rows[s[i]] # Null
            BY <3>2 DEF DueIn, Retriable
        <3>4. Sent(rows[s[i]].attempts, s[i])
            BY <1>0, <3>3 DEF RowsHonest, Honest
        <3>5. QED
            BY <3>1, <3>4
    <2>4. Begins(p, jobs) /\ UNCHANGED <<hooks, issued, kept, rows, writes, emitted, posts,
                                        accepted, crashes>>
        BY <1>7, <2>1 DEF Sweep
    <2> HIDE DEF jobs
    <2>5. QED
        BY <1>0, <2>2, <2>3, <2>4, BeginsStep DEF HonestInv, TypeOK
<1>8. ASSUME NEW p \in Procs, NEW d \in Deliveries, Retry(p, d)
      PROVE  HonestInv'
    <2>1. rows[d] \in Row
        BY <1>0, <1>8, AttemptIsRow DEF Retry, TypeOK
    <2>2. <<[d |-> d, was |-> rows[d]]>> \in Seq(Job)
        BY <2>1 DEF Job
    <2>3. Sent(rows[d].attempts, d)
        BY <1>0, <1>8 DEF Retry, RowsHonest, Honest
    <2>4. PICK jobs \in Seq(Job) :
            /\ Begins(p, jobs)
            /\ \A i \in 1..Len(jobs) : Sent(jobs[i].was.attempts, jobs[i].d)
        <3>1. PICK jobs \in Seq(Job) : jobs = <<[d |-> d, was |-> rows[d]]>>
            BY <2>2
        <3>2. Begins(p, jobs)
            BY <1>8, <3>1 DEF Retry
        <3>3. \A i \in 1..Len(jobs) : jobs[i].d = d /\ jobs[i].was = rows[d]
            BY <3>1
        <3>4. QED
            BY <2>3, <3>2, <3>3
    <2>5. UNCHANGED <<hooks, issued, kept, rows, writes, emitted, posts, accepted, crashes>>
        BY <1>8 DEF Retry
    <2>6. QED
        BY <1>0, <2>4, <2>5, BeginsStep DEF HonestInv, TypeOK
<1>9. ASSUME NEW h \in Hooks, CreateWebhook(h) \/ DeleteWebhook(h)
      PROVE  HonestInv'
    BY <1>0, <1>9, HonestSame DEF CreateWebhook, DeleteWebhook, HonestInv, TypeOK
<1>10. ASSUME NEW d \in Deliveries, Tick(d)
       PROVE  HonestInv'
    <2> DEFINE row == [rows[d] EXCEPT !.next = "due"]
    <2>1. /\ row \in Attempt /\ rows[d] # Null
          /\ row.status = rows[d].status /\ row.attempts = rows[d].attempts
        BY <1>0, <1>10 DEF Tick, TypeOK, Attempt
    <2>2. rows' = [rows EXCEPT ![d] = row]
        BY <1>10 DEF Tick
    <2> HIDE DEF row
    <2>3. TypeOK'
        BY <1>0, <1>10, <2>1, <2>2 DEF Tick, TypeOK
    <2>4. UNCHANGED <<phase, todo, writes, posts, accepted>>
        BY <1>10 DEF Tick
    <2>5. RowsHonest'
        BY <1>0, <2>1, <2>2, <2>4 DEF TypeOK, RowsHonest, Honest, Sent
    <2>6. WritesHonest' /\ JobsHonest' /\ PostsHonest'
        BY <1>0, <2>4 DEF WritesHonest, JobsHonest, PostsHonest, Honest, Sent
    <2>7. QED
        BY <2>3, <2>5, <2>6 DEF HonestInv
<1>11. CASE UNCHANGED vars
    BY <1>0, <1>11, HonestSame DEF vars, HonestInv, TypeOK
<1>12. QED
    BY <1>1, <1>2, <1>3, <1>5, <1>6, <1>7, <1>8, <1>9, <1>10, <1>11 DEF Next, Proceed

\* Every variable keeps its type: above all, no pending row is ever committed.
THEOREM TypeCorrect == Spec => []TypeOK
<1>1. HonestInv => TypeOK
    BY DEF HonestInv
<1>2. QED
    BY <1>1, HonestInit, HonestStep, PTL DEF Spec

\* With any number of replicas and workers, by hand or not, across crashes,
\* deadlocks and exceptions, a delivery shown as delivered has been accepted, and no
\* attempt is counted that was not a post of its own.
THEOREM RowsAreTrue == Spec => []RowsClaimOnlyPosts
<1>1. HonestInv => RowsClaimOnlyPosts
    BY DEF HonestInv, RowsHonest, Honest, RowsClaimOnlyPosts
<1>2. QED
    BY <1>1, HonestInit, HonestStep, PTL DEF Spec

-------------------------------------------------------------------------------
(* Mutations and row locks *)

\* An event under way is in one transaction only, and has no committed row.
EventsApart ==
    /\ \A p \in Procs : \A e \in emitted[p] : e <= issued
    /\ \A p, q \in Procs : p # q => emitted[p] \cap emitted[q] = {}
    /\ \A d \in Deliveries : rows[d] # Null =>
          d[1] <= issued /\ \A p \in Procs : d[1] \notin emitted[p]

\* Process p may work on d: a mutation on the rows of its own events, the others on
\* committed rows.
Reaches(p, d) == IF emitted[p] # {} THEN d[1] \in emitted[p] ELSE rows[d] # Null

WorkApart ==
    \A p \in Procs :
        /\ \A i \in 1..Len(todo[p]) : Reaches(p, todo[p][i].d)
        /\ \A d \in Deliveries : writes[p][d] # Null => Reaches(p, d)
        /\ phase[p] = "idle" => emitted[p] = {} /\ todo[p] = <<>> /\ writes[p] = NoWrites

ApartInv == HonestInv /\ EventsApart /\ WorkApart

LEMMA ApartInit == Init => ApartInv
<1> SUFFICES ASSUME Init
             PROVE  ApartInv
    OBVIOUS
<1>1. EventsApart /\ WorkApart
    BY DEF Init, EventsApart, WorkApart, NoWrites
<1>2. QED
    BY <1>1, HonestInit DEF ApartInv

\* A transaction ends; what it leaves committed is of its own events or was committed.
LEMMA ApartEnds ==
    ASSUME ApartInv, NEW p \in Procs, Ends(p), issued' = issued,
           \A d \in Deliveries : /\ rows[d] # Null => rows'[d] # Null
                                 /\ rows'[d] # Null => rows[d] # Null \/ d[1] \in emitted[p]
    PROVE  EventsApart' /\ WorkApart'
<1>0. TypeOK /\ EventsApart /\ WorkApart
    BY DEF ApartInv, HonestInv
<1>1. /\ emitted'[p] = {} /\ todo'[p] = <<>> /\ writes'[p] = NoWrites
      /\ \A q \in Procs \ {p} : /\ emitted'[q] = emitted[q] /\ todo'[q] = todo[q]
                                 /\ writes'[q] = writes[q] /\ phase'[q] = phase[q]
    BY <1>0 DEF Ends, TypeOK
<1>2. EventsApart'
    BY <1>0, <1>1 DEF EventsApart
<1>3. ASSUME NEW q \in Procs \ {p}, NEW d \in Deliveries, Reaches(q, d)
      PROVE  Reaches(q, d)'
    BY <1>1, <1>3 DEF Reaches
<1>4. ASSUME NEW q \in Procs
      PROVE  /\ \A i \in 1..Len(todo'[q]) : Reaches(q, todo[q][i].d)'
             /\ \A d \in Deliveries : writes'[q][d] # Null => Reaches(q, d)'
             /\ phase'[q] = "idle" =>
                   emitted'[q] = {} /\ todo'[q] = <<>> /\ writes'[q] = NoWrites
    <2>1. CASE q = p
        BY <1>1, <2>1 DEF NoWrites
    <2>2. CASE q # p
        <3>1. ASSUME NEW i \in 1..Len(todo'[q])
              PROVE  Reaches(q, todo[q][i].d)'
            BY <1>0, <1>1, <1>3, <2>2, JobType DEF WorkApart, Reaches
        <3>2. QED
            BY <1>0, <1>1, <1>3, <2>2, <3>1 DEF WorkApart
    <2>3. QED
        BY <2>1, <2>2
<1>5. QED
    BY <1>2, <1>4 DEF WorkApart

\* Process p takes up rows within its reach, for what it has emitted with them.
LEMMA ApartBegins ==
    ASSUME ApartInv, NEW p \in Procs, NEW jobs \in Seq(Job), Begins(p, jobs),
           UNCHANGED <<rows, writes>>, issued' \in Nat, issued <= issued',
           \A q \in Procs \ {p} : emitted'[q] = emitted[q],
           \A e \in emitted'[p] \ emitted[p] : e <= issued' /\ ~(e <= issued),
           emitted[p] \subseteq emitted'[p],
           emitted[p] # {} \/ phase[p] = "idle",
           \A i \in 1..Len(jobs) : Reaches(p, jobs[i].d)'
    PROVE  EventsApart' /\ WorkApart'
<1>0. TypeOK /\ EventsApart /\ WorkApart /\ issued \in Nat
    BY WebhookAssumption DEF ApartInv, HonestInv, TypeOK
<1>1. /\ todo'[p] = jobs /\ phase'[p] = "run"
      /\ \A q \in Procs \ {p} : todo'[q] = todo[q] /\ phase'[q] = phase[q]
    BY <1>0 DEF Begins, TypeOK
<1>2. EventsApart'
    <2>1. ASSUME NEW q \in Procs, NEW e \in emitted'[q]
          PROVE  e <= issued'
        <3>1. e \in emitted[q] \/ e <= issued'
            BY <2>1
        <3>2. CASE e \in emitted[q]
            <4>1. e \in Nat /\ e <= issued
                BY <1>0, <3>2 DEF EventsApart, TypeOK, Events
            <4>2. QED
                BY <1>0, <4>1
        <3>3. QED
            BY <3>1, <3>2
    <2>2. ASSUME NEW q \in Procs \ {p}
          PROVE  emitted'[p] \cap emitted'[q] = {}
        BY <1>0 DEF EventsApart
    <2>3. ASSUME NEW d \in Deliveries, rows[d] # Null
          PROVE  d[1] <= issued' /\ \A q \in Procs : d[1] \notin emitted'[q]
        <3>1. d[1] \in Nat /\ d[1] <= issued /\ \A q \in Procs : d[1] \notin emitted[q]
            BY <1>0, <2>3 DEF EventsApart, Deliveries, Events
        <3>2. QED
            BY <1>0, <3>1
    <2>4. ASSUME NEW q \in Procs, NEW r \in Procs, q # r
          PROVE  emitted'[q] \cap emitted'[r] = {}
        BY <1>0, <2>2, <2>4 DEF EventsApart
    <2>5. QED
        BY <2>1, <2>3, <2>4 DEF EventsApart
<1>3. ASSUME NEW q \in Procs
      PROVE  /\ \A i \in 1..Len(todo'[q]) : Reaches(q, todo[q][i].d)'
             /\ \A d \in Deliveries : writes'[q][d] # Null => Reaches(q, d)'
             /\ phase'[q] = "idle" =>
                   emitted'[q] = {} /\ todo'[q] = <<>> /\ writes'[q] = NoWrites
    <2>1. CASE q = p
        <3>1. \A i \in 1..Len(todo'[q]) : Reaches(q, todo[q][i].d)'
            BY <1>1, <2>1 DEF Reaches
        <3>2. ASSUME NEW d \in Deliveries, writes'[q][d] # Null
              PROVE  Reaches(q, d)'
            <4>1. phase[p] # "idle" /\ Reaches(p, d)
                BY <1>0, <2>1, <3>2 DEF WorkApart, NoWrites
            <4>2. QED
                BY <2>1, <4>1 DEF Reaches
        <3>3. QED
            BY <1>1, <2>1, <3>1, <3>2
    <2>2. CASE q # p
        BY <1>0, <1>1, <2>2 DEF WorkApart, Reaches
    <2>3. QED
        BY <2>1, <2>2
<1>4. QED
    BY <1>2, <1>3 DEF WorkApart

LEMMA ApartStep == ApartInv /\ [Next]_vars => ApartInv'
<1> SUFFICES ASSUME ApartInv, [Next]_vars
             PROVE  EventsApart' /\ WorkApart'
    BY HonestStep DEF ApartInv
<1>0. TypeOK /\ PostsHonest /\ EventsApart /\ WorkApart
    BY DEF ApartInv, HonestInv
<1>1. ASSUME NEW p \in Procs, RollsBack(p)
      PROVE  EventsApart' /\ WorkApart'
    BY <1>1, ApartEnds DEF RollsBack
<1>2. ASSUME NEW p \in Procs, Post(p)
      PROVE  EventsApart' /\ WorkApart'
    <2>1. /\ phase[p] = "run" /\ UNCHANGED <<rows, todo, writes, emitted, issued>>
          /\ \A q \in Procs : phase'[q] = "idle" => phase[q] = "idle"
        BY <1>0, <1>2 DEF Post, TypeOK
    <2>2. QED
        BY <1>0, <2>1 DEF EventsApart, WorkApart, Reaches
<1>3. ASSUME NEW p \in Procs, Update(p)
      PROVE  EventsApart' /\ WorkApart'
    <2>1. /\ UNCHANGED <<rows, emitted, issued>> /\ phase'[p] = "run"
          /\ todo'[p] = Tail(todo[p])
          /\ \A q \in Procs \ {p} : /\ todo'[q] = todo[q] /\ writes'[q] = writes[q]
                                     /\ phase'[q] = phase[q]
          /\ \A d \in Deliveries \ {Head(todo[p]).d} : writes'[p][d] = writes[p][d]
        BY <1>0, <1>3 DEF Update, TypeOK
    <2>2. todo[p] # <<>> /\ Head(todo[p]) = todo[p][1] /\ 1 \in 1..Len(todo[p])
        BY <1>0, <1>3, HeadJob DEF Update, PostsHonest
    <2>3. EventsApart'
        BY <1>0, <2>1 DEF EventsApart
    <2>4. ASSUME NEW i \in 1..Len(todo'[p])
          PROVE  Reaches(p, todo[p][i].d)'
        <3>1. todo[p] \in Seq(Job)
            BY <1>0 DEF TypeOK
        <3>2. i + 1 \in 1..Len(todo[p]) /\ todo'[p][i] = todo[p][i + 1]
            BY <2>1, <2>2, <3>1
        <3>3. QED
            BY <1>0, <2>1, <3>2 DEF WorkApart, Reaches
    <2>5. ASSUME NEW d \in Deliveries, writes'[p][d] # Null
          PROVE  Reaches(p, d)'
        BY <1>0, <2>1, <2>2, <2>5 DEF WorkApart, Reaches
    <2>6. ASSUME NEW q \in Procs \ {p}
          PROVE  /\ \A i \in 1..Len(todo'[q]) : Reaches(q, todo[q][i].d)'
                 /\ \A d \in Deliveries : writes'[q][d] # Null => Reaches(q, d)'
                 /\ phase'[q] = "idle" =>
                       emitted'[q] = {} /\ todo'[q] = <<>> /\ writes'[q] = NoWrites
        BY <1>0, <2>1 DEF WorkApart, Reaches
    <2>7. WorkApart'
        BY <2>1, <2>4, <2>5, <2>6 DEF WorkApart
    <2>8. QED
        BY <2>3, <2>7
<1>4. ASSUME NEW p \in Procs, Commit(p)
      PROVE  EventsApart' /\ WorkApart'
    <2>1. Ends(p) /\ issued' = issued
        BY <1>4 DEF Commit
    <2>2. ASSUME NEW d \in Deliveries
          PROVE  /\ rows[d] # Null => rows'[d] # Null
                 /\ rows'[d] # Null => rows[d] # Null \/ d[1] \in emitted[p]
        <3>1. CASE writes[p][d] = Null
            BY <1>4, <3>1 DEF Commit
        <3>2. CASE writes[p][d] # Null
            <4>1. writes[p][d] \in Write /\ writes[p][d].now \in Attempt
                BY <1>0, <3>2 DEF TypeOK, Write
            <4>2. rows[d] # Null => rows[d] \in Attempt
                BY <1>0 DEF TypeOK
            <4>3. rows'[d] = IF rows[d] = Null THEN writes[p][d].now
                               ELSE Merged(rows[d], writes[p][d])
                BY <1>4, <3>2 DEF Commit
            <4>4. rows'[d] \in Attempt
                BY <4>1, <4>2, <4>3, MergedType
            <4>5. rows'[d] # Null
                BY <4>4, AttemptIsRow, NullAssumption
            <4>6. Reaches(p, d)
                BY <1>0, <3>2 DEF WorkApart
            <4>7. QED
                BY <4>5, <4>6 DEF Reaches
        <3>3. QED
            BY <3>1, <3>2
    <2>3. QED
        BY <2>1, <2>2, ApartEnds
<1>5. ASSUME NEW p \in Procs, Emit(p)
      PROVE  EventsApart' /\ WorkApart'
    <2>1. PICK t \in SUBSET Hooks : \E jobs \in Emission(issued', t) : Begins(p, jobs)
        <3>1. PICK o \in Orgs :
                LET active == {h \in Hooks : OrgOf[h] = o /\ hooks[h] = "active"}
                IN  \E t \in SUBSET active :
                      \E jobs \in Emission(issued', t) : Begins(p, jobs)
            BY <1>5 DEF Emit
        <3>2. QED
            BY <3>1
    <2>2. PICK jobs \in Emission(issued', t) : Begins(p, jobs)
        BY <2>1
    <2>3. /\ issued \in Nat /\ issued' = issued + 1 /\ issued' \in Events
          /\ emitted'[p] = emitted[p] \cup {issued'}
          /\ \A q \in Procs \ {p} : emitted'[q] = emitted[q]
          /\ UNCHANGED <<rows, writes>>
          /\ emitted[p] # {} \/ phase[p] = "idle"
        BY <1>0, <1>5, WebhookAssumption DEF Emit, TypeOK, Events
    <2>4. Cardinality(t) \in Nat
        BY WebhookAssumption, FS_CardinalityType, FS_Subset
    <2>5. jobs \in Seq(Job) /\ \A i \in 1..Len(jobs) : jobs[i].d[1] = issued'
        <3>1. PICK f \in [1..Cardinality(t) -> t] :
                jobs = [i \in 1..Cardinality(t) |->
                          [d |-> <<issued', f[i]>>,
                           was |-> [status |-> "pending", attempts |-> 0, next |-> "due"]]]
            BY <2>2 DEF Emission
        <3>2. ASSUME NEW i \in 1..Cardinality(t)
              PROVE  jobs[i] \in Job /\ jobs[i].d[1] = issued'
            <4>1. <<issued', f[i]>> \in Deliveries
                BY <2>3, <3>1 DEF Deliveries
            <4>2. [status |-> "pending", attempts |-> 0, next |-> "due"] \in Row
                BY DEF Row
            <4>3. QED
                BY <3>1, <4>1, <4>2 DEF Job
        <3>3. jobs \in [1..Cardinality(t) -> Job]
            BY <3>1, <3>2
        <3>4. QED
            BY <2>4, <3>2, <3>3
    <2>6. \A i \in 1..Len(jobs) : Reaches(p, jobs[i].d)'
        BY <2>3, <2>5 DEF Reaches
    <2>7. \A e \in emitted'[p] \ emitted[p] : e <= issued' /\ ~(e <= issued)
        BY <2>3
    <2>8. QED
        BY <2>2, <2>3, <2>5, <2>6, <2>7, ApartBegins
<1>6. ASSUME NEW p \in Procs, NEW jobs \in Seq(Job), Begins(p, jobs), phase[p] = "idle",
             UNCHANGED <<rows, writes, emitted, issued>>,
             \A i \in 1..Len(jobs) : rows[jobs[i].d] # Null
      PROVE  EventsApart' /\ WorkApart'
    <2>1. \A i \in 1..Len(jobs) : Reaches(p, jobs[i].d)'
        BY <1>0, <1>6 DEF WorkApart, Reaches
    <2>2. issued \in Nat
        BY <1>0, WebhookAssumption DEF TypeOK
    <2>3. QED
        BY <1>6, <2>1, <2>2, ApartBegins
<1>7. ASSUME NEW p \in Procs, NEW o \in Orgs, Sweep(p, o)
      PROVE  EventsApart' /\ WorkApart'
    <2>1. PICK s \in Batches(DueIn(o)) :
            Begins(p, [i \in DOMAIN s |-> [d |-> s[i], was |-> rows[s[i]]]])
        BY <1>7 DEF Sweep
    <2> DEFINE jobs == [i \in DOMAIN s |-> [d |-> s[i], was |-> rows[s[i]]]]
    <2>2. PICK n \in Nat : s \in [1..n -> DueIn(o)]
        <3>1. DueIn(o) \subseteq Deliveries
            BY DEF DueIn
        <3>2. Cardinality(DueIn(o)) \in Nat
            BY <3>1, DeliveriesFinite, FS_Subset, FS_CardinalityType
        <3>3. QED
            BY <2>1, <3>2, WebhookAssumption DEF Batches
    <2>3. ASSUME NEW i \in 1..n
          PROVE  jobs[i] \in Job /\ rows[jobs[i].d] # Null
        <3>1. s[i] \in Deliveries /\ rows[s[i]] # Null
            BY <2>2 DEF DueIn, Retriable
        <3>2. rows[s[i]] \in Row
            BY <1>0, <3>1, AttemptIsRow DEF TypeOK
        <3>3. QED
            BY <2>2, <3>1, <3>2 DEF Job
    <2>4. jobs \in Seq(Job) /\ Len(jobs) = n
        <3>1. jobs \in [1..n -> Job]
            BY <2>2, <2>3
        <3>2. QED
            BY <3>1
    <2> HIDE DEF jobs
    <2>5. \A i \in 1..Len(jobs) : rows[jobs[i].d] # Null
        BY <2>3, <2>4
    <2>6. Begins(p, jobs)
        BY <2>1 DEF jobs
    <2>7. QED
        BY <1>6, <1>7, <2>4, <2>5, <2>6 DEF Sweep
<1>8. ASSUME NEW p \in Procs, NEW d \in Deliveries, Retry(p, d)
      PROVE  EventsApart' /\ WorkApart'
    <2> DEFINE jobs == <<[d |-> d, was |-> rows[d]]>>
    <2>1. rows[d] # Null /\ rows[d] \in Row
        BY <1>0, <1>8, AttemptIsRow DEF Retry, TypeOK
    <2>2. jobs \in Seq(Job) /\ \A i \in 1..Len(jobs) : rows[jobs[i].d] # Null
        BY <2>1 DEF Job
    <2>3. QED
        BY <1>6, <1>8, <2>2 DEF Retry
<1>9. ASSUME NEW d \in Deliveries, Tick(d)
      PROVE  EventsApart' /\ WorkApart'
    <2>1. UNCHANGED <<issued, phase, todo, writes, emitted>>
        BY <1>9 DEF Tick
    <2>2. \A e \in Deliveries : rows'[e] = Null <=> rows[e] = Null
        <3>1. rows[d] \in Attempt /\ rows[d] # Null
            BY <1>0, <1>9 DEF Tick, TypeOK
        <3>2. /\ rows'[d] = [rows[d] EXCEPT !.next = "due"]
              /\ \A e \in Deliveries \ {d} : rows'[e] = rows[e]
            BY <1>0, <1>9 DEF Tick, TypeOK
        <3>3. rows'[d] \in Attempt
            BY <3>1, <3>2 DEF Attempt
        <3>4. rows'[d] # Null
            BY <3>3, AttemptIsRow, NullAssumption
        <3>5. QED
            BY <3>1, <3>2, <3>4
    <2>3. QED
        BY <1>0, <2>1, <2>2, JobType DEF EventsApart, WorkApart, Reaches
<1>10. CASE UNCHANGED vars \/ \E h \in Hooks : CreateWebhook(h) \/ DeleteWebhook(h)
    <2>1. UNCHANGED <<issued, rows, phase, todo, writes, emitted>>
        BY <1>10 DEF vars, CreateWebhook, DeleteWebhook
    <2>2. QED
        BY <1>0, <2>1 DEF EventsApart, WorkApart, Reaches
<1>11. QED
    BY <1>1, <1>2, <1>3, <1>4, <1>5, <1>7, <1>8, <1>9, <1>10
    DEF Next, Proceed, Raise, CancelDeadlocked, Crash

\* A mutation waits for nobody: what it updates has no committed row, and others
\* update committed rows or their own.
LEMMA MutationsNeverWait ==
    ASSUME ApartInv, NEW p \in Procs, emitted[p] # {}
    PROVE  ~CancelDeadlocked(p)
<1>0. PostsHonest /\ EventsApart /\ WorkApart
    BY DEF ApartInv, HonestInv
<1> SUFFICES ASSUME CancelDeadlocked(p)
             PROVE  FALSE
    OBVIOUS
<1>1. PICK S \in SUBSET Procs :
        p \in S /\ \A s \in S : \E t \in S \ {s} : WaitsFor(s, t)
    BY DEF CancelDeadlocked
<1>2. PICK q \in Procs \ {p} : WaitsFor(p, q)
    BY <1>1
<1>3. todo[p] # <<>> /\ writes[q][Head(todo[p]).d] # Null
    BY <1>0, <1>2 DEF WaitsFor, PostsHonest
<1>4. /\ Head(todo[p]) = todo[p][1] /\ 1 \in 1..Len(todo[p])
      /\ todo[p][1].d \in Deliveries
    BY <1>3, HeadJob, JobType DEF ApartInv, HonestInv
<1>5. Reaches(p, todo[p][1].d) /\ Reaches(q, todo[p][1].d)
    BY <1>0, <1>2, <1>3, <1>4 DEF WorkApart
<1>6. QED
    BY <1>0, <1>2, <1>4, <1>5 DEF EventsApart, Reaches

\* Whatever races, and with any number of workers and operators, a mutation loses its
\* events only because its process stops or because one of its own posts raises.
THEOREM OnlyRaisingLosesEvents == Spec => OnlyRaisingUndoes
<1>1. ASSUME ApartInv, [Next]_vars, crashes' = crashes, NEW p \in Procs
      PROVE  emitted[p] \subseteq emitted'[p] \cup kept' \/ AboutToRaise(p)
    <2>0. TypeOK
        BY <1>1 DEF ApartInv, HonestInv
    <2>1. ASSUME NEW q \in Procs, Commit(q)
          PROVE  emitted[p] \subseteq emitted'[p] \cup kept'
        <3>1. kept' = kept \cup emitted[q] /\ (p # q => emitted'[p] = emitted[p])
            BY <2>0, <2>1 DEF Commit, Ends, TypeOK
        <3>2. QED
            BY <3>1
    <2>2. ASSUME NEW q \in Procs, Emit(q)
          PROVE  emitted[p] \subseteq emitted'[p] \cup kept'
        BY <2>0, <2>2 DEF Emit, TypeOK
    <2>3. ASSUME NEW q \in Procs, Raise(q) \/ CancelDeadlocked(q)
          PROVE  emitted[p] \subseteq emitted'[p] \/ AboutToRaise(p)
        <3>1. p # q => emitted'[p] = emitted[p]
            BY <2>0, <2>3 DEF Raise, CancelDeadlocked, RollsBack, Ends, TypeOK
        <3>2. CASE p = q /\ emitted[p] # {}
            BY <1>1, <2>3, <3>2, MutationsNeverWait DEF Raise, AboutToRaise
        <3>3. QED
            BY <3>1, <3>2
    <2>4. ASSUME NEW q \in Procs, Crash(q)
          PROVE  FALSE
        <3>1. crashes \in Nat
            BY <2>0, WebhookAssumption DEF TypeOK
        <3>2. QED
            BY <1>1, <2>4, <3>1 DEF Crash
    <2>5. ASSUME NEW q \in Procs, Post(q) \/ Update(q)
          PROVE  emitted' = emitted
        BY <2>5 DEF Post, Update
    <2>6. QED
        BY <1>1, <2>1, <2>2, <2>3, <2>4, <2>5
        DEF Next, Proceed, Sweep, Retry, CreateWebhook, DeleteWebhook, Tick, vars
<1>2. ApartInv /\ [Next]_vars =>
        [crashes' = crashes
           => \A p \in Procs :
                emitted[p] \subseteq emitted'[p] \cup kept' \/ AboutToRaise(p)]_vars
    BY <1>1
<1>3. QED
    BY <1>2, ApartInit, ApartStep, PTL DEF Spec, OnlyRaisingUndoes

-------------------------------------------------------------------------------
(* One worker and no operator *)

\* The deployment in which a delivery has one transaction at a time.
OneWorker == ~ByHand /\ \A v, w \in Workers : v = w

Fresh == [status |-> "pending", attempts |-> 0, next |-> "due"]

\* Process p works alone on d: it has just inserted it, or it is the worker and the
\* row is still as it loaded it.
Owns(p, d, was) ==
    \/ d[1] \in emitted[p] /\ was = Fresh
    \/ /\ p \in Workers
       /\ rows[d] = was
       /\ was.status = "retry_scheduled" /\ was.next = "due"

EmittedOwned ==
    \A p \in Procs :
        /\ \A e \in emitted[p] : e <= issued
        /\ \A q \in Procs \ {p} : emitted[p] \cap emitted[q] = {}

\* A committed row is that of a committed event, and has a next attempt exactly when
\* there will be one.
Planned(row) ==
    /\ row.next # Null <=> row.status = "retry_scheduled"
    /\ row.status = "retry_scheduled" => row.attempts < MaxAttempts

RowsPlanned ==
    \A d \in Deliveries : rows[d] # Null =>
        /\ Planned(rows[d])
        /\ d[1] <= issued
        /\ \A p \in Procs : d[1] \notin emitted[p]

JobsOwned(p, jobs) ==
    \A i \in 1..Len(jobs) :
        /\ Owns(p, jobs[i].d, jobs[i].was)
        /\ writes[p][jobs[i].d] = Null
        /\ \A k \in 1..Len(jobs) : k # i => jobs[k].d # jobs[i].d

TodoOwned == \A p \in Procs : JobsOwned(p, todo[p])

WritesOwned ==
    \A p \in Procs, d \in Deliveries : writes[p][d] # Null =>
        /\ Owns(p, d, writes[p][d].was)
        /\ \E o \in {"accepted", "refused"} :
             writes[p][d].now = Attempted(writes[p][d].was, o)

IdleIsEmpty ==
    \A p \in Procs : phase[p] = "idle" =>
        todo[p] = <<>> /\ writes[p] = NoWrites /\ emitted[p] = {}

Owned == EmittedOwned /\ RowsPlanned /\ TodoOwned /\ WritesOwned /\ IdleIsEmpty

\* p has posted d and not yet committed what came of it.
Posted(p, d) ==
    \/ writes[p][d] # Null
    \/ phase[p] \in {"accepted", "refused"} /\ Head(todo[p]).d = d

PostedAccepted(p, d) ==
    \/ writes[p][d] # Null /\ writes[p][d].now.status = "delivered"
    \/ phase[p] = "accepted" /\ Head(todo[p]).d = d

Attempts(d) == IF rows[d] = Null THEN 0 ELSE rows[d].attempts

\* The post under way is counted, and nothing else is while nothing has crashed,
\* where exactness is asked for.
Accounts(exact) ==
    \A d \in Deliveries :
        /\ Attempts(d) <= posts[d]
        /\ \A p \in Procs : Posted(p, d) => Attempts(d) + 1 <= posts[d]
        /\ exact /\ crashes = 0 =>
             /\ (\A p \in Procs : ~Posted(p, d)) => posts[d] = Attempts(d)
             /\ (\E p \in Procs : Posted(p, d)) => posts[d] = Attempts(d) + 1
             /\ d \in accepted =>
                  \/ rows[d] # Null /\ rows[d].status = "delivered"
                  \/ \E p \in Procs : PostedAccepted(p, d)

BaseInv == HonestInv /\ Owned

LEMMA AttemptedPlanned ==
    ASSUME NEW row \in Row, NEW o \in {"accepted", "refused"}
    PROVE  /\ Planned(Attempted(row, o))
           /\ Attempted(row, o).attempts = row.attempts + 1
BY NullAssumption, WebhookAssumption DEF Attempted, NextAttempt, Planned, Row

\* An update of a row that is still as it was loaded writes the whole row.
LEMMA MergedWhole ==
    ASSUME NEW w \in Write, w.now.attempts = w.was.attempts + 1
    PROVE  Merged(w.was, w) = w.now
BY DEF Merged, Write, Attempt, Row

\* What an owner knows of the row it works on.
LEMMA OwnerKnows ==
    ASSUME TypeOK, RowsPlanned, NEW p \in Procs, NEW d \in Deliveries, NEW was \in Row,
           Owns(p, d, was)
    PROVE  /\ Attempts(d) = was.attempts /\ was.attempts \in Nat /\ was.attempts < MaxAttempts
           /\ rows[d] # Null =>
                rows[d] = was /\ rows[d].status = "retry_scheduled" /\ rows[d].next = "due"
<1>1. was # Null /\ was.attempts \in Nat
    BY NullAssumption DEF Row
<1>2. CASE d[1] \in emitted[p] /\ was = Fresh
    BY <1>1, <1>2, WebhookAssumption DEF RowsPlanned, Attempts, Fresh
<1>3. CASE rows[d] = was /\ was.status = "retry_scheduled" /\ was.next = "due"
    BY <1>1, <1>3 DEF RowsPlanned, Planned, Attempts
<1>4. QED
    BY <1>2, <1>3 DEF Owns

LEMMA Exclusive ==
    ASSUME TypeOK, EmittedOwned, RowsPlanned, OneWorker,
           NEW p \in Procs, NEW q \in Procs, NEW d \in Deliveries,
           NEW v \in Row, NEW w \in Row, Owns(p, d, v), Owns(q, d, w)
    PROVE  p = q
<1>1. v # Null /\ w # Null
    BY NullAssumption
<1>2. CASE d[1] \in emitted[p] /\ d[1] \in emitted[q]
    BY <1>2 DEF EmittedOwned
<1>3. CASE p \in Workers /\ q \in Workers
    BY <1>3 DEF OneWorker
<1>4. CASE d[1] \in emitted[p] /\ rows[d] = w
    BY <1>1, <1>4 DEF RowsPlanned
<1>5. CASE d[1] \in emitted[q] /\ rows[d] = v
    BY <1>1, <1>5 DEF RowsPlanned
<1>6. QED
    BY <1>2, <1>3, <1>4, <1>5 DEF Owns

\* Whoever has posted a delivery, or is about to, owns it.
LEMMA PostedOwns ==
    ASSUME BaseInv, NEW p \in Procs, NEW d \in Deliveries, Posted(p, d)
    PROVE  \E was \in Row : Owns(p, d, was)
<1>0. TypeOK /\ PostsHonest /\ TodoOwned /\ WritesOwned
    BY DEF BaseInv, HonestInv, Owned
<1>1. CASE writes[p][d] # Null
    <2>1. writes[p][d] \in Write
        BY <1>0, <1>1 DEF TypeOK
    <2>2. QED
        BY <1>0, <1>1, <2>1 DEF WritesOwned, Write
<1>2. CASE phase[p] \in {"accepted", "refused"} /\ Head(todo[p]).d = d
    <2>1. todo[p] # <<>>
        BY <1>0, <1>2 DEF PostsHonest
    <2>2. 1 \in 1..Len(todo[p]) /\ todo[p][1].d = d
        BY <1>0, <1>2, <2>1, HeadJob
    <2>3. todo[p][1].was \in Row
        BY <1>0, <2>2, JobType
    <2>4. QED
        BY <1>0, <2>2, <2>3 DEF TodoOwned, JobsOwned
<1>3. QED
    BY <1>1, <1>2 DEF Posted

LEMMA OneHasPosted ==
    ASSUME BaseInv, OneWorker, NEW p \in Procs, NEW q \in Procs, NEW d \in Deliveries,
           Posted(p, d), NEW was \in Row, Owns(q, d, was)
    PROVE  p = q
<1>1. PICK v \in Row : Owns(p, d, v)
    BY PostedOwns
<1>2. QED
    BY <1>1, Exclusive DEF BaseInv, HonestInv, Owned

LEMMA OwnedInit == Init => Owned
<1> SUFFICES ASSUME Init
             PROVE  Owned
    OBVIOUS
<1>1. \A p \in Procs : Len(todo[p]) = 0
    BY DEF Init
<1>2. TodoOwned
    BY <1>1 DEF TodoOwned, JobsOwned
<1>3. EmittedOwned /\ RowsPlanned /\ WritesOwned /\ IdleIsEmpty
    BY DEF Init, EmittedOwned, RowsPlanned, WritesOwned, IdleIsEmpty, NoWrites
<1>4. QED
    BY <1>2, <1>3 DEF Owned

\* A transaction ends and leaves the rows of the others alone.
LEMMA OwnedEnds ==
    ASSUME BaseInv, NEW p \in Procs, Ends(p), issued' = issued, RowsPlanned',
           \A q \in Procs \ {p}, d \in Deliveries, was \in Row :
             Owns(q, d, was) => rows'[d] = rows[d]
    PROVE  Owned'
<1>0. TypeOK /\ EmittedOwned /\ TodoOwned /\ WritesOwned /\ IdleIsEmpty
    BY DEF BaseInv, HonestInv, Owned
<1>1. /\ phase'[p] = "idle" /\ todo'[p] = <<>> /\ writes'[p] = NoWrites /\ emitted'[p] = {}
      /\ \A q \in Procs \ {p} :
           /\ phase'[q] = phase[q] /\ todo'[q] = todo[q]
           /\ writes'[q] = writes[q] /\ emitted'[q] = emitted[q]
    BY <1>0 DEF Ends, TypeOK
<1>2. EmittedOwned'
    BY <1>0, <1>1 DEF EmittedOwned
<1>3. TodoOwned'
    <2> SUFFICES ASSUME NEW q \in Procs, NEW i \in 1..Len(todo'[q])
                 PROVE  /\ Owns(q, todo[q][i].d, todo[q][i].was)'
                        /\ writes'[q][todo'[q][i].d] = Null
                        /\ \A k \in 1..Len(todo'[q]) : k # i => todo'[q][k].d # todo'[q][i].d
        BY DEF TodoOwned, JobsOwned
    <2>1. q # p
        BY <1>1
    <2>2. i \in 1..Len(todo[q]) /\ todo'[q] = todo[q] /\ writes'[q] = writes[q]
          /\ emitted'[q] = emitted[q]
        BY <1>1, <2>1
    <2>3. /\ todo[q][i].d \in Deliveries /\ todo[q][i].was \in Row
          /\ Owns(q, todo[q][i].d, todo[q][i].was)
        BY <1>0, <2>2, JobType DEF TodoOwned, JobsOwned
    <2>4. rows'[todo[q][i].d] = rows[todo[q][i].d]
        BY <2>1, <2>3
    <2>5. Owns(q, todo[q][i].d, todo[q][i].was)'
        BY <2>2, <2>3, <2>4 DEF Owns
    <2>6. QED
        BY <1>0, <2>2, <2>5 DEF TodoOwned, JobsOwned
<1>4. WritesOwned'
    <2> SUFFICES ASSUME NEW q \in Procs, NEW d \in Deliveries, writes'[q][d] # Null
                 PROVE  /\ Owns(q, d, writes[q][d].was)'
                        /\ \E o \in {"accepted", "refused"} :
                             writes'[q][d].now = Attempted(writes'[q][d].was, o)
        BY DEF WritesOwned
    <2>1. q # p
        BY <1>1 DEF NoWrites
    <2>2. writes'[q] = writes[q] /\ emitted'[q] = emitted[q] /\ writes[q][d] \in Write
        BY <1>0, <1>1, <2>1 DEF TypeOK
    <2>3. writes[q][d].was \in Row /\ Owns(q, d, writes[q][d].was)
        BY <1>0, <2>2 DEF WritesOwned, Write
    <2>4. rows'[d] = rows[d]
        BY <2>1, <2>3
    <2>5. Owns(q, d, writes[q][d].was)'
        BY <2>2, <2>3, <2>4 DEF Owns
    <2>6. QED
        BY <1>0, <2>2, <2>5 DEF WritesOwned
<1>5. IdleIsEmpty'
    BY <1>0, <1>1 DEF IdleIsEmpty
<1>6. QED
    BY <1>2, <1>3, <1>4, <1>5 DEF Owned

\* A handler begins, or goes on, with jobs of its own.
LEMMA OwnedBegins ==
    ASSUME BaseInv, NEW p \in Procs, NEW jobs \in Seq(Job), Begins(p, jobs),
           UNCHANGED <<rows, writes>>,
           \/ UNCHANGED <<issued, emitted>>
           \/ issued' = issued + 1 /\ emitted' = [emitted EXCEPT ![p] = @ \cup {issued'}],
           JobsOwned(p, jobs)'
    PROVE  Owned'
<1>0. TypeOK /\ EmittedOwned /\ RowsPlanned /\ TodoOwned /\ WritesOwned /\ IdleIsEmpty
    BY DEF BaseInv, HonestInv, Owned
<1>1. /\ phase'[p] = "run" /\ todo'[p] = jobs
      /\ \A q \in Procs \ {p} : phase'[q] = phase[q] /\ todo'[q] = todo[q]
    BY <1>0 DEF Begins, TypeOK
<1>2. /\ issued \in Nat /\ issued' \in Nat /\ issued <= issued'
      /\ \A q \in Procs \ {p} : emitted'[q] = emitted[q]
      /\ \/ emitted'[p] = emitted[p]
         \/ issued' = issued + 1 /\ emitted'[p] = emitted[p] \cup {issued'}
    BY <1>0, WebhookAssumption DEF TypeOK
<1>3. EmittedOwned'
    <2>1. \A q \in Procs : emitted[q] \subseteq 1..issued
        BY <1>0, <1>2 DEF EmittedOwned, TypeOK, Events
    <2>2. \A q \in Procs : \A e \in emitted'[q] : e <= issued'
        BY <1>2, <2>1
    <2>3. \A q \in Procs \ {p} : \A e \in emitted'[q] : e \notin emitted'[p]
        BY <1>0, <1>2, <2>1 DEF EmittedOwned
    <2>4. \A q \in Procs : \A s \in Procs \ {q} : emitted'[q] \cap emitted'[s] = {}
        BY <1>0, <1>2, <2>3 DEF EmittedOwned
    <2>5. QED
        BY <2>2, <2>4 DEF EmittedOwned
<1>4. RowsPlanned'
    <2> SUFFICES ASSUME NEW d \in Deliveries, rows[d] # Null
                 PROVE  /\ Planned(rows[d])
                        /\ d[1] <= issued'
                        /\ \A q \in Procs : d[1] \notin emitted'[q]
        BY DEF RowsPlanned, Planned
    <2>1. Planned(rows[d]) /\ d[1] <= issued /\ \A q \in Procs : d[1] \notin emitted[q]
        BY <1>0 DEF RowsPlanned
    <2>2. d[1] \in Nat
        BY DEF Deliveries, Events
    <2>3. d[1] <= issued' /\ (issued' = issued + 1 => d[1] # issued')
        BY <1>2, <2>1, <2>2
    <2>4. QED
        BY <1>2, <2>1, <2>3
<1>5. \A q \in Procs, d \in Deliveries, was \in Row : Owns(q, d, was) => Owns(q, d, was)'
    BY <1>2 DEF Owns
<1>6. TodoOwned'
    <2> SUFFICES ASSUME NEW q \in Procs, NEW i \in 1..Len(todo'[q])
                 PROVE  /\ Owns(q, todo[q][i].d, todo[q][i].was)'
                        /\ writes'[q][todo'[q][i].d] = Null
                        /\ \A k \in 1..Len(todo'[q]) : k # i => todo'[q][k].d # todo'[q][i].d
        BY DEF TodoOwned, JobsOwned
    <2>1. CASE q = p
        BY <1>1, <2>1 DEF JobsOwned, Owns
    <2>2. CASE q # p
        <3>1. todo'[q] = todo[q] /\ i \in 1..Len(todo[q]) /\ emitted'[q] = emitted[q]
            BY <1>1, <1>2, <2>2
        <3>2. QED
            BY <1>0, <3>1 DEF TodoOwned, JobsOwned, Owns
    <2>3. QED
        BY <2>1, <2>2
<1>7. WritesOwned'
    <2> SUFFICES ASSUME NEW q \in Procs, NEW d \in Deliveries, writes'[q][d] # Null
                 PROVE  /\ Owns(q, d, writes[q][d].was)'
                        /\ \E o \in {"accepted", "refused"} :
                             writes'[q][d].now = Attempted(writes'[q][d].was, o)
        BY DEF WritesOwned
    <2>1. writes'[q][d] = writes[q][d] /\ writes[q][d] # Null
        OBVIOUS
    <2>2. Owns(q, d, writes[q][d].was)
        BY <1>0, <2>1 DEF WritesOwned
    <2>3. Owns(q, d, writes[q][d].was)'
        BY <1>2, <2>2 DEF Owns
    <2>4. QED
        BY <1>0, <2>1, <2>3 DEF WritesOwned
<1>8. IdleIsEmpty'
    <2> SUFFICES ASSUME NEW q \in Procs, phase'[q] = "idle"
                 PROVE  todo'[q] = <<>> /\ writes'[q] = NoWrites /\ emitted'[q] = {}
        BY DEF IdleIsEmpty
    <2>1. q # p
        BY <1>1
    <2>2. QED
        BY <1>0, <1>1, <1>2, <2>1 DEF IdleIsEmpty
<1>9. QED
    BY <1>3, <1>4, <1>6, <1>7, <1>8 DEF Owned

LEMMA OwnedPost ==
    ASSUME BaseInv, NEW p \in Procs, Post(p)
    PROVE  Owned'
<1>1. UNCHANGED <<issued, rows, todo, writes, emitted>>
    BY DEF Post
<1>2. phase'[p] # "idle" /\ \A q \in Procs \ {p} : phase'[q] = phase[q]
    BY DEF Post, BaseInv, HonestInv, TypeOK
<1>3. EmittedOwned' /\ RowsPlanned' /\ TodoOwned' /\ WritesOwned'
    BY <1>1 DEF BaseInv, Owned, EmittedOwned, RowsPlanned, Planned, TodoOwned, JobsOwned, WritesOwned, Owns
<1>4. IdleIsEmpty'
    BY <1>1, <1>2 DEF BaseInv, Owned, IdleIsEmpty
<1>5. QED
    BY <1>3, <1>4 DEF Owned

\* What Update does to the lists.
LEMMA UpdateMoves ==
    ASSUME BaseInv, NEW p \in Procs, Update(p)
    PROVE  LET j == todo[p][1]
               n == Len(todo[p])
           IN  /\ n \in Nat /\ n >= 1 /\ Head(todo[p]) = j
               /\ j.d \in Deliveries /\ j.was \in Row
               /\ writes[p][j.d] = Null
               /\ writes'[p][j.d] = [was |-> j.was, now |-> Attempted(j.was, phase[p])]
               /\ \A d \in Deliveries \ {j.d} : writes'[p][d] = writes[p][d]
               /\ \A q \in Procs \ {p} : /\ writes'[q] = writes[q] /\ todo'[q] = todo[q]
                                         /\ phase'[q] = phase[q]
               /\ Len(todo'[p]) = n - 1
               /\ \A i \in 1..(n - 1) : i + 1 \in 1..n /\ todo'[p][i] = todo[p][i + 1]
               /\ phase'[p] = "run"
<1>0. TypeOK /\ PostsHonest /\ TodoOwned
    BY DEF BaseInv, HonestInv, Owned
<1>1. todo[p] \in Seq(Job) /\ todo[p] # <<>>
    BY <1>0 DEF Update, PostsHonest, TypeOK
<1>2. /\ 1 \in 1..Len(todo[p]) /\ Head(todo[p]) = todo[p][1]
      /\ todo[p][1].d \in Deliveries /\ todo[p][1].was \in Row
    BY <1>0, <1>1, HeadJob, JobType
<1>3. writes[p][todo[p][1].d] = Null
    BY <1>0, <1>2 DEF TodoOwned, JobsOwned
<1>4. /\ Len(Tail(todo[p])) = Len(todo[p]) - 1 /\ Len(todo[p]) \in Nat
      /\ \A i \in 1..(Len(todo[p]) - 1) :
           i + 1 \in 1..Len(todo[p]) /\ Tail(todo[p])[i] = todo[p][i + 1]
    BY <1>1
<1>5. todo'[p] = Tail(todo[p]) /\ phase'[p] = "run"
      /\ \A q \in Procs \ {p} : todo'[q] = todo[q] /\ phase'[q] = phase[q]
    BY <1>0 DEF Update, TypeOK
<1>6. /\ writes'[p][todo[p][1].d] =
           [was |-> todo[p][1].was, now |-> Attempted(todo[p][1].was, phase[p])]
      /\ \A d \in Deliveries \ {todo[p][1].d} : writes'[p][d] = writes[p][d]
      /\ \A q \in Procs \ {p} : writes'[q] = writes[q]
    BY <1>0, <1>2 DEF Update, TypeOK
<1>7. QED
    BY <1>2, <1>3, <1>4, <1>5, <1>6

LEMMA OwnedUpdate ==
    ASSUME BaseInv, NEW p \in Procs, Update(p)
    PROVE  Owned'
<1>0. TypeOK /\ EmittedOwned /\ RowsPlanned /\ TodoOwned /\ WritesOwned /\ IdleIsEmpty
    BY DEF BaseInv, HonestInv, Owned
<1>1. UNCHANGED <<issued, rows, emitted>> /\ phase[p] \in {"accepted", "refused"}
    BY DEF Update
<1> DEFINE j == todo[p][1]
           n == Len(todo[p])
<1>2. /\ n \in Nat /\ n >= 1 /\ 1 \in 1..n
      /\ j.d \in Deliveries /\ j.was \in Row
      /\ writes'[p][j.d] = [was |-> j.was, now |-> Attempted(j.was, phase[p])]
      /\ \A d \in Deliveries \ {j.d} : writes'[p][d] = writes[p][d]
      /\ \A q \in Procs \ {p} : writes'[q] = writes[q] /\ todo'[q] = todo[q] /\ phase'[q] = phase[q]
      /\ Len(todo'[p]) = n - 1
      /\ \A i \in 1..(n - 1) : i + 1 \in 1..n /\ todo'[p][i] = todo[p][i + 1]
      /\ phase'[p] = "run"
    BY UpdateMoves
<1>3. EmittedOwned' /\ RowsPlanned'
    BY <1>0, <1>1 DEF EmittedOwned, RowsPlanned, Planned
<1>4. TodoOwned'
    <2> SUFFICES ASSUME NEW q \in Procs, NEW i \in 1..Len(todo'[q])
                 PROVE  /\ Owns(q, todo[q][i].d, todo[q][i].was)'
                        /\ writes'[q][todo'[q][i].d] = Null
                        /\ \A k \in 1..Len(todo'[q]) : k # i => todo'[q][k].d # todo'[q][i].d
        BY DEF TodoOwned, JobsOwned
    <2>1. CASE q # p
        BY <1>0, <1>1, <1>2, <2>1 DEF TodoOwned, JobsOwned, Owns
    <2>2. CASE q = p
        <3>1. i \in 1..(n - 1) /\ i + 1 \in 1..n /\ i + 1 # 1 /\ todo'[p][i] = todo[p][i + 1]
            BY <1>2, <2>2
        <3>2. /\ Owns(p, todo[p][i + 1].d, todo[p][i + 1].was)
              /\ writes[p][todo[p][i + 1].d] = Null
              /\ \A k \in 1..n : k # i + 1 => todo[p][k].d # todo[p][i + 1].d
            BY <1>0, <3>1 DEF TodoOwned, JobsOwned
        <3>3. todo[p][i + 1].d \in Deliveries /\ todo[p][i + 1].d # j.d
            BY <1>0, <1>2, <3>1, <3>2, JobType
        <3>4. writes'[p][todo'[p][i].d] = Null
            BY <1>2, <3>1, <3>2, <3>3
        <3>5. \A k \in 1..(n - 1) : k # i => todo'[p][k].d # todo'[p][i].d
            <4> SUFFICES ASSUME NEW k \in 1..(n - 1), k # i
                         PROVE  todo'[p][k].d # todo'[p][i].d
                OBVIOUS
            <4>1. k + 1 \in 1..n /\ k + 1 # i + 1 /\ todo'[p][k] = todo[p][k + 1]
                BY <1>2, <3>1
            <4>2. QED
                BY <3>1, <3>2, <4>1
        <3>6. Owns(p, todo[p][i].d, todo[p][i].was)'
            BY <1>1, <3>1, <3>2 DEF Owns
        <3>7. QED
            BY <1>2, <2>2, <3>4, <3>5, <3>6
    <2>3. QED
        BY <2>1, <2>2
<1>5. WritesOwned'
    <2> SUFFICES ASSUME NEW q \in Procs, NEW d \in Deliveries, writes'[q][d] # Null
                 PROVE  /\ Owns(q, d, writes[q][d].was)'
                        /\ \E o \in {"accepted", "refused"} :
                             writes'[q][d].now = Attempted(writes'[q][d].was, o)
        BY DEF WritesOwned
    <2>1. CASE q = p /\ d = j.d
        <3>1. Owns(p, j.d, j.was)
            BY <1>0, <1>2 DEF TodoOwned, JobsOwned
        <3>2. writes'[q][d].was = j.was /\ writes'[q][d].now = Attempted(j.was, phase[p])
            BY <1>2, <2>1
        <3>3. QED
            BY <1>1, <2>1, <3>1, <3>2 DEF Owns
    <2>2. CASE ~(q = p /\ d = j.d)
        <3>1. writes'[q][d] = writes[q][d]
            BY <1>2, <2>2
        <3>2. Owns(q, d, writes[q][d].was)
            BY <1>0, <3>1 DEF WritesOwned
        <3>3. Owns(q, d, writes[q][d].was)'
            BY <1>1, <3>1, <3>2 DEF Owns
        <3>4. QED
            BY <1>0, <3>1, <3>3 DEF WritesOwned
    <2>3. QED
        BY <2>1, <2>2
<1>6. IdleIsEmpty'
    BY <1>0, <1>1, <1>2 DEF IdleIsEmpty
<1>7. QED
    BY <1>3, <1>4, <1>5, <1>6 DEF Owned

\* A commit writes whole rows, and only rows of its own.
LEMMA CommitWrites ==
    ASSUME BaseInv, NEW p \in Procs, Commit(p), NEW d \in Deliveries
    PROVE  /\ writes[p][d] = Null => rows'[d] = rows[d]
           /\ writes[p][d] # Null =>
                /\ rows'[d] = writes[p][d].now
                /\ rows'[d].attempts = Attempts(d) + 1
                /\ Planned(rows'[d])
                /\ d[1] <= issued
                /\ \A q \in Procs \ {p} : d[1] \notin emitted[q]
<1>0. TypeOK /\ EmittedOwned /\ RowsPlanned /\ WritesOwned
    BY DEF BaseInv, HonestInv, Owned
<1>1. CASE writes[p][d] = Null
    BY <1>1 DEF Commit
<1>2. CASE writes[p][d] # Null
    <2> DEFINE w == writes[p][d]
    <2>1. w \in Write /\ w.was \in Row /\ w.now \in Attempt
        BY <1>0, <1>2 DEF TypeOK, Write
    <2>2. Owns(p, d, w.was)
        BY <1>0, <1>2 DEF WritesOwned
    <2>3. PICK o \in {"accepted", "refused"} : w.now = Attempted(w.was, o)
        BY <1>0, <1>2 DEF WritesOwned
    <2>4. Planned(w.now) /\ w.now.attempts = w.was.attempts + 1
        BY <2>1, <2>3, AttemptedPlanned
    <2>5. Attempts(d) = w.was.attempts /\ (rows[d] # Null => rows[d] = w.was)
        BY <1>0, <2>1, <2>2, OwnerKnows
    <2>6. rows'[d] = IF rows[d] = Null THEN w.now ELSE Merged(rows[d], w)
        BY <1>2 DEF Commit
    <2> HIDE DEF w
    <2>7. rows'[d] = w.now
        BY <2>1, <2>4, <2>5, <2>6, MergedWhole
    <2>8. d[1] <= issued /\ \A q \in Procs \ {p} : d[1] \notin emitted[q]
        <3>1. CASE d[1] \in emitted[p]
            BY <1>0, <3>1 DEF EmittedOwned
        <3>2. CASE rows[d] = w.was
            BY <1>0, <2>1, <3>2, NullAssumption DEF RowsPlanned
        <3>3. QED
            BY <2>2, <3>1, <3>2 DEF Owns
    <2>9. QED
        <3>1. Planned(rows'[d])
            BY <2>4, <2>7 DEF Planned
        <3>2. QED
            BY <1>2, <2>4, <2>5, <2>7, <2>8, <3>1 DEF w
<1>3. QED
    BY <1>1, <1>2

LEMMA OwnedCommit ==
    ASSUME BaseInv, OneWorker, NEW p \in Procs, Commit(p)
    PROVE  Owned'
<1>0. TypeOK /\ EmittedOwned /\ RowsPlanned /\ WritesOwned
    BY DEF BaseInv, HonestInv, Owned
<1>1. Ends(p) /\ issued' = issued
    BY DEF Commit
<1>2. emitted'[p] = {} /\ \A q \in Procs \ {p} : emitted'[q] = emitted[q]
    BY <1>0, <1>1 DEF Ends, TypeOK
<1>3. RowsPlanned'
    <2> SUFFICES ASSUME NEW d \in Deliveries, rows'[d] # Null
                 PROVE  /\ Planned(rows'[d])
                        /\ d[1] <= issued
                        /\ \A q \in Procs : d[1] \notin emitted'[q]
        BY <1>1 DEF RowsPlanned, Planned
    <2>1. CASE writes[p][d] = Null
        BY <1>0, <1>2, <2>1, CommitWrites DEF RowsPlanned
    <2>2. CASE writes[p][d] # Null
        BY <1>2, <2>2, CommitWrites
    <2>3. QED
        BY <2>1, <2>2
<1>4. ASSUME NEW q \in Procs \ {p}, NEW d \in Deliveries, NEW was \in Row, Owns(q, d, was)
      PROVE  rows'[d] = rows[d]
    <2>1. ~Posted(p, d)
        BY <1>4, OneHasPosted
    <2>2. writes[p][d] = Null
        BY <2>1 DEF Posted
    <2>3. QED
        BY <2>2, CommitWrites
<1>5. QED
    BY <1>1, <1>3, <1>4, OwnedEnds

LEMMA OwnedStep ==
    ASSUME BaseInv, OneWorker, [Next]_vars
    PROVE  Owned'
<1>0. TypeOK /\ PostsHonest /\ EmittedOwned /\ RowsPlanned /\ TodoOwned /\ WritesOwned
      /\ IdleIsEmpty
    BY DEF BaseInv, HonestInv, Owned
<1>1. ASSUME NEW p \in Procs, RollsBack(p)
      PROVE  Owned'
    <2>1. Ends(p) /\ issued' = issued /\ rows' = rows
        BY <1>1 DEF RollsBack
    <2>2. \A q \in Procs : emitted'[q] \subseteq emitted[q]
        BY <1>0, <2>1 DEF Ends, TypeOK
    <2>3. RowsPlanned'
        BY <1>0, <2>1, <2>2 DEF RowsPlanned, Planned
    <2>4. QED
        BY <2>1, <2>3, OwnedEnds
<1>2. ASSUME NEW p \in Procs, Proceed(p) \/ Crash(p)
      PROVE  Owned'
    BY <1>1, <1>2, OwnedPost, OwnedUpdate, OwnedCommit
    DEF Proceed, Raise, CancelDeadlocked, Crash
<1>3. ASSUME NEW p \in Procs, Emit(p)
      PROVE  Owned'
    <2>1. PICK t \in SUBSET Hooks : \E jobs \in Emission(issued', t) : Begins(p, jobs)
        <3>1. PICK o \in Orgs :
                LET active == {h \in Hooks : OrgOf[h] = o /\ hooks[h] = "active"}
                IN  \E t \in SUBSET active :
                      \E jobs \in Emission(issued', t) : Begins(p, jobs)
            BY <1>3 DEF Emit
        <3>2. QED
            BY <3>1
    <2>2. PICK jobs \in Emission(issued', t) : Begins(p, jobs)
        BY <2>1
    <2>3. /\ issued \in Nat /\ issued' = issued + 1 /\ issued' \in Events
          /\ emitted' = [emitted EXCEPT ![p] = @ \cup {issued'}]
          /\ UNCHANGED <<rows, writes>>
        BY <1>0, <1>3, WebhookAssumption DEF Emit, TypeOK, Events
    <2>4. Cardinality(t) \in Nat
        BY WebhookAssumption, FS_CardinalityType, FS_Subset
    <2>5. PICK f \in [1..Cardinality(t) -> t] :
            /\ \A i, k \in DOMAIN f : f[i] = f[k] => i = k
            /\ jobs = [i \in 1..Cardinality(t) |->
                         [d |-> <<issued', f[i]>>,
                          was |-> [status |-> "pending", attempts |-> 0, next |-> "due"]]]
        BY <2>2 DEF Emission
    <2>6. ASSUME NEW i \in 1..Cardinality(t)
          PROVE  /\ jobs[i] \in Job /\ jobs[i].d \in Deliveries
                 /\ jobs[i].d = <<issued', f[i]>> /\ jobs[i].d[1] = issued'
                 /\ jobs[i].was = Fresh
        <3>1. jobs[i] = [d |-> <<issued', f[i]>>, was |-> Fresh]
            BY <2>5 DEF Fresh
        <3>2. <<issued', f[i]>> \in Deliveries
            BY <2>3, <2>5 DEF Deliveries
        <3>3. Fresh \in Row
            BY DEF Fresh, Row
        <3>4. QED
            BY <3>1, <3>2, <3>3 DEF Job
    <2>7. jobs \in Seq(Job) /\ Len(jobs) = Cardinality(t)
        <3>1. jobs \in [1..Cardinality(t) -> Job]
            BY <2>5, <2>6
        <3>2. QED
            BY <2>4, <3>1
    <2>8. emitted'[p] = emitted[p] \cup {issued'} /\ \A q \in Procs \ {p} : emitted'[q] = emitted[q]
          /\ emitted' \in [Procs -> SUBSET Events]
        BY <1>0, <2>3 DEF TypeOK
    <2>9. ASSUME NEW i \in 1..Len(jobs)
          PROVE  /\ jobs[i].d[1] \in emitted'[p] /\ jobs[i].was = Fresh
                 /\ writes[p][jobs[i].d] = Null
                 /\ \A k \in 1..Len(jobs) : k # i => jobs[k].d # jobs[i].d
        <3>1. /\ jobs[i].d = <<issued', f[i]>> /\ jobs[i].d[1] = issued'
              /\ jobs[i].was = Fresh /\ jobs[i].d \in Deliveries
            BY <2>6, <2>7
        <3>2. writes[p][jobs[i].d] = Null
            <4> SUFFICES ASSUME writes[p][jobs[i].d] # Null
                         PROVE  FALSE
                OBVIOUS
            <4> DEFINE w == writes[p][jobs[i].d]
            <4>1. w \in Write /\ w.was \in Row
                BY <1>0, <3>1 DEF TypeOK, Write
            <4>2. Owns(p, jobs[i].d, w.was)
                BY <1>0, <3>1 DEF WritesOwned
            <4>3. issued' \notin emitted[p]
                BY <1>0, <2>3 DEF EmittedOwned
            <4>4. rows[jobs[i].d] = w.was
                BY <3>1, <4>2, <4>3 DEF Owns
            <4>5. issued' <= issued
                BY <1>0, <3>1, <4>1, <4>4, NullAssumption DEF RowsPlanned
            <4>6. QED
                BY <2>3, <4>5
        <3>3. \A k \in 1..Len(jobs) : k # i => jobs[k].d # jobs[i].d
            <4> SUFFICES ASSUME NEW k \in 1..Len(jobs), k # i
                         PROVE  jobs[k].d # jobs[i].d
                OBVIOUS
            <4>1. jobs[k].d = <<issued', f[k]>>
                BY <2>6, <2>7
            <4>2. f[k] # f[i]
                BY <2>5, <2>7
            <4>3. QED
                BY <3>1, <4>1, <4>2
        <3>4. QED
            BY <2>8, <3>1, <3>2, <3>3
    <2>10. JobsOwned(p, jobs)'
        BY <2>3, <2>9 DEF JobsOwned, Owns, Fresh
    <2>11. QED
        BY <2>2, <2>3, <2>7, <2>10, OwnedBegins
<1>4. ASSUME NEW p \in Procs, NEW o \in Orgs, Sweep(p, o)
      PROVE  Owned'
    <2>1. PICK s \in Batches(DueIn(o)) :
            Begins(p, [i \in DOMAIN s |-> [d |-> s[i], was |-> rows[s[i]]]])
        BY <1>4 DEF Sweep
    <2> DEFINE jobs == [i \in DOMAIN s |-> [d |-> s[i], was |-> rows[s[i]]]]
               due == DueIn(o)
               n == IF Cardinality(due) < BatchSize THEN Cardinality(due) ELSE BatchSize
    <2>2. p \in Workers /\ phase[p] = "idle"
        BY <1>4 DEF Sweep, OneWorker
    <2>3. UNCHANGED <<issued, rows, writes, emitted>>
        BY <1>4 DEF Sweep
    <2>4. n \in Nat
        <3>1. due \subseteq Deliveries
            BY DEF DueIn
        <3>2. Cardinality(due) \in Nat
            BY <3>1, DeliveriesFinite, FS_CardinalityType, FS_Subset
        <3>3. QED
            BY <3>2, WebhookAssumption
    <2>5. s \in [1..n -> due] /\ \A i, k \in 1..n : i < k => s[i] # s[k]
        BY DEF Batches
    <2>6. \A d \in due : /\ d \in Deliveries /\ rows[d] \in Row
                         /\ rows[d].status = "retry_scheduled" /\ rows[d].next = "due"
        <3> SUFFICES ASSUME NEW d \in due
                     PROVE  /\ d \in Deliveries /\ rows[d] \in Row
                            /\ rows[d].status = "retry_scheduled" /\ rows[d].next = "due"
            OBVIOUS
        <3>1. /\ d \in Deliveries /\ rows[d] # Null /\ rows[d].next \in {Null, "due"}
              /\ rows[d].status \in {"pending", "retry_scheduled"}
            BY DEF DueIn, Retriable
        <3>2. rows[d] \in Attempt
            BY <1>0, <3>1 DEF TypeOK
        <3>3. rows[d].status = "retry_scheduled"
            BY <3>1, <3>2 DEF Attempt
        <3>4. rows[d].next # Null
            BY <1>0, <3>1, <3>3 DEF RowsPlanned, Planned
        <3>5. QED
            BY <3>1, <3>2, <3>3, <3>4, AttemptIsRow
    <2> HIDE DEF n, due
    <2>7. jobs \in Seq(Job) /\ Len(jobs) = n
        <3>1. \A i \in 1..n : [d |-> s[i], was |-> rows[s[i]]] \in Job
            BY <2>5, <2>6 DEF Job
        <3>2. jobs \in [1..n -> Job]
            BY <2>5, <3>1
        <3> HIDE DEF jobs
        <3>3. QED
            BY <2>4, <3>2
    <2>8. ASSUME NEW i \in 1..n
          PROVE  /\ rows[jobs[i].d] = jobs[i].was
                 /\ jobs[i].was.status = "retry_scheduled" /\ jobs[i].was.next = "due"
                 /\ writes[p][jobs[i].d] = Null
                 /\ \A k \in 1..n : k # i => jobs[k].d # jobs[i].d
        <3>1. s[i] \in due /\ jobs[i].d = s[i] /\ jobs[i].was = rows[s[i]]
            BY <2>5
        <3>2. writes[p] = NoWrites
            BY <1>0, <2>2 DEF IdleIsEmpty
        <3>3. writes[p][s[i]] = Null
            BY <2>6, <3>1, <3>2 DEF NoWrites
        <3>4. \A k \in 1..n : k # i => s[k] # s[i]
            <4> SUFFICES ASSUME NEW k \in 1..n, k # i
                         PROVE  s[k] # s[i]
                OBVIOUS
            <4>1. i < k \/ k < i
                BY <2>4
            <4>2. QED
                BY <2>5, <4>1
        <3>5. \A k \in 1..n : jobs[k].d = s[k]
            BY <2>5
        <3>6. QED
            BY <2>6, <3>1, <3>3, <3>4, <3>5
    <2>9. PICK js \in Seq(Job) :
            /\ Begins(p, js)
            /\ \A i \in 1..Len(js) :
                 /\ rows[js[i].d] = js[i].was
                 /\ js[i].was.status = "retry_scheduled" /\ js[i].was.next = "due"
                 /\ writes[p][js[i].d] = Null
                 /\ \A k \in 1..Len(js) : k # i => js[k].d # js[i].d
        <3>1. Begins(p, jobs)
            BY <2>1
        <3> HIDE DEF jobs
        <3>2. QED
            BY <2>7, <2>8, <3>1
    <2>10. JobsOwned(p, js)'
        BY <2>2, <2>3, <2>9 DEF JobsOwned, Owns
    <2>11. QED
        BY <2>3, <2>9, <2>10, OwnedBegins
<1>5. ASSUME NEW h \in Hooks, CreateWebhook(h) \/ DeleteWebhook(h)
      PROVE  Owned'
    BY <1>0, <1>5
    DEF CreateWebhook, DeleteWebhook, Owned, EmittedOwned, RowsPlanned, Planned, TodoOwned, JobsOwned,
        WritesOwned, IdleIsEmpty, Owns
<1>6. ASSUME NEW d \in Deliveries, Tick(d)
      PROVE  Owned'
    <2>1. /\ UNCHANGED <<issued, phase, todo, writes, emitted>>
          /\ rows[d] # Null /\ rows[d] \in Attempt /\ rows[d].next = "later"
          /\ rows'[d] = [rows[d] EXCEPT !.next = "due"]
          /\ \A e \in Deliveries \ {d} : rows'[e] = rows[e]
        BY <1>0, <1>6 DEF Tick, TypeOK
    <2>2. ASSUME NEW q \in Procs, NEW e \in Deliveries, NEW was \in Row, Owns(q, e, was)
          PROVE  Owns(q, e, was)'
        <3>1. e # d \/ d[1] \in emitted[q]
            <4> SUFFICES ASSUME e = d
                         PROVE  d[1] \in emitted[q]
                OBVIOUS
            <4>1. rows[d].next = "due"
                BY <1>0, <2>1, <2>2, OwnerKnows
            <4>2. QED
                BY <2>1, <4>1
        <3>2. QED
            BY <1>0, <2>1, <2>2, <3>1 DEF Owns, RowsPlanned
    <2>3. RowsPlanned'
        <3> SUFFICES ASSUME NEW e \in Deliveries, rows'[e] # Null
                     PROVE  /\ Planned(rows'[e])
                            /\ e[1] <= issued'
                            /\ \A q \in Procs : e[1] \notin emitted'[q]
            BY DEF RowsPlanned, Planned
        <3>1. rows[e] # Null
            BY <2>1
        <3>2. Planned(rows[e]) /\ e[1] <= issued /\ \A q \in Procs : e[1] \notin emitted[q]
            BY <1>0, <3>1 DEF RowsPlanned
        <3>3. Planned(rows'[e])
            BY <2>1, <3>2, NullAssumption DEF Planned, Attempt
        <3>4. QED
            BY <2>1, <3>2, <3>3
    <2>4. TodoOwned'
        <3>1. \A q \in Procs : \A i \in 1..Len(todo[q]) :
                Owns(q, todo[q][i].d, todo[q][i].was)'
            BY <1>0, <2>1, <2>2, JobType DEF TodoOwned, JobsOwned, Owns
        <3>2. QED
            BY <1>0, <2>1, <3>1 DEF TodoOwned, JobsOwned
    <2>5. WritesOwned'
        <3>1. \A q \in Procs, e \in Deliveries : writes[q][e] # Null =>
                writes[q][e].was \in Row
            BY <1>0 DEF TypeOK, Write
        <3>2. \A q \in Procs, e \in Deliveries : writes[q][e] # Null =>
                Owns(q, e, writes[q][e].was)'
            BY <1>0, <2>1, <2>2, <3>1 DEF WritesOwned, Owns
        <3>3. QED
            BY <1>0, <2>1, <3>2 DEF WritesOwned
    <2>6. QED
        BY <1>0, <2>1, <2>3, <2>4, <2>5 DEF Owned, EmittedOwned, IdleIsEmpty
<1>7. CASE UNCHANGED vars
    BY <1>0, <1>7
    DEF vars, Owned, EmittedOwned, RowsPlanned, Planned, TodoOwned, JobsOwned, WritesOwned, IdleIsEmpty, Owns
<1>8. ~\E p \in Procs, d \in Deliveries : Retry(p, d)
    BY DEF Retry, OneWorker
<1>9. QED
    BY <1>2, <1>3, <1>4, <1>5, <1>6, <1>7, <1>8 DEF Next

\* A step that leaves the rows, the posts and what is under way as they are.
LEMMA AccountsSame ==
    ASSUME NEW exact \in BOOLEAN, Accounts(exact), UNCHANGED <<posts, accepted, crashes>>,
           \A d \in Deliveries :
             /\ rows'[d] = Null <=> rows[d] = Null
             /\ rows[d] # Null =>
                  rows'[d].attempts = rows[d].attempts /\ rows'[d].status = rows[d].status,
           \A q \in Procs, d \in Deliveries :
             Posted(q, d)' = Posted(q, d) /\ PostedAccepted(q, d)' = PostedAccepted(q, d)
    PROVE  Accounts(exact)'
<1>1. \A d \in Deliveries : Attempts(d)' = Attempts(d)
    BY DEF Attempts
<1> SUFFICES ASSUME NEW d \in Deliveries
             PROVE  /\ Attempts(d)' <= posts'[d]
                    /\ \A p \in Procs : Posted(p, d)' => Attempts(d)' + 1 <= posts'[d]
                    /\ exact /\ crashes' = 0 =>
                         /\ (\A p \in Procs : ~Posted(p, d)') => posts'[d] = Attempts(d)'
                         /\ (\E p \in Procs : Posted(p, d)') => posts'[d] = Attempts(d)' + 1
                         /\ d \in accepted' =>
                              \/ rows'[d] # Null /\ rows'[d].status = "delivered"
                              \/ \E p \in Procs : PostedAccepted(p, d)'
    BY DEF Accounts
<1>2. /\ Attempts(d) <= posts[d]
      /\ \A p \in Procs : Posted(p, d) => Attempts(d) + 1 <= posts[d]
      /\ exact /\ crashes = 0 =>
           /\ (\A p \in Procs : ~Posted(p, d)) => posts[d] = Attempts(d)
           /\ (\E p \in Procs : Posted(p, d)) => posts[d] = Attempts(d) + 1
           /\ d \in accepted =>
                \/ rows[d] # Null /\ rows[d].status = "delivered"
                \/ \E p \in Procs : PostedAccepted(p, d)
    BY DEF Accounts
<1>3. QED
    BY <1>1, <1>2

LEMMA AccountsInit ==
    ASSUME Init, NEW exact \in BOOLEAN
    PROVE  Accounts(exact)
BY DEF Init, Accounts, Attempts, Posted, NoWrites

LEMMA AccountsPost ==
    ASSUME BaseInv, OneWorker, NEW exact \in BOOLEAN, Accounts(exact), NEW p \in Procs, Post(p)
    PROVE  Accounts(exact)'
<1>0. TypeOK /\ RowsPlanned /\ TodoOwned
    BY DEF BaseInv, HonestInv, Owned
<1>1. todo[p] # <<>> /\ phase[p] = "run"
    BY DEF Post
<1>2. PICK h \in Deliveries :
        /\ 1 \in 1..Len(todo[p]) /\ todo[p][1].d = h /\ Head(todo[p]).d = h
        /\ todo[p][1].was \in Row
    BY <1>0, <1>1, HeadJob, JobType
<1>3. Owns(p, h, todo[p][1].was) /\ writes[p][h] = Null
    BY <1>0, <1>2 DEF TodoOwned, JobsOwned
<1>4. Attempts(h) \in Nat /\ Attempts(h) < MaxAttempts
    BY <1>0, <1>2, <1>3, OwnerKnows
<1>5. \A q \in Procs : ~Posted(q, h)
    <2> SUFFICES ASSUME NEW q \in Procs, Posted(q, h)
                 PROVE  FALSE
        OBVIOUS
    <2>1. q = p
        BY <1>2, <1>3, OneHasPosted
    <2>2. QED
        BY <1>1, <1>3, <2>1 DEF Posted
<1>6. UNCHANGED <<rows, writes, todo, crashes>>
    BY DEF Post
<1>7. /\ posts' = [posts EXCEPT ![h] = IF @ > MaxAttempts THEN @ ELSE @ + 1]
      /\ \/ phase' = [phase EXCEPT ![p] = "accepted"] /\ accepted' = accepted \cup {h}
         \/ phase' = [phase EXCEPT ![p] = "refused"] /\ accepted' = accepted
    BY <1>2 DEF Post
<1>8. Posted(p, h)' /\ (h \in accepted' /\ h \notin accepted => PostedAccepted(p, h)')
    BY <1>0, <1>2, <1>6, <1>7 DEF Posted, PostedAccepted, TypeOK
<1>9. \A q \in Procs, d \in Deliveries : d # h =>
         Posted(q, d)' = Posted(q, d) /\ PostedAccepted(q, d)' = PostedAccepted(q, d)
    <2> SUFFICES ASSUME NEW q \in Procs, NEW d \in Deliveries, d # h
                 PROVE  Posted(q, d)' = Posted(q, d) /\ PostedAccepted(q, d)' = PostedAccepted(q, d)
        OBVIOUS
    <2>1. CASE q = p
        BY <1>1, <1>2, <1>6, <2>1 DEF Posted, PostedAccepted
    <2>2. CASE q # p
        <3>1. phase'[q] = phase[q]
            BY <1>0, <1>7, <2>2 DEF TypeOK
        <3>2. QED
            BY <1>6, <3>1 DEF Posted, PostedAccepted
    <2>3. QED
        BY <2>1, <2>2
<1>10. \A d \in Deliveries : Attempts(d)' = Attempts(d)
    BY <1>6 DEF Attempts
<1>11. /\ posts[h] \in 0..(MaxAttempts + 1) /\ MaxAttempts \in Nat
       /\ posts'[h] = IF posts[h] > MaxAttempts THEN posts[h] ELSE posts[h] + 1
       /\ \A d \in Deliveries : d # h => posts'[d] = posts[d] /\ (d \in accepted' <=> d \in accepted)
    BY <1>0, <1>2, <1>7, WebhookAssumption DEF TypeOK
<1> SUFFICES ASSUME NEW d \in Deliveries
             PROVE  /\ Attempts(d)' <= posts'[d]
                    /\ \A q \in Procs : Posted(q, d)' => Attempts(d)' + 1 <= posts'[d]
                    /\ exact /\ crashes' = 0 =>
                         /\ (\A q \in Procs : ~Posted(q, d)') => posts'[d] = Attempts(d)'
                         /\ (\E q \in Procs : Posted(q, d)') => posts'[d] = Attempts(d)' + 1
                         /\ d \in accepted' =>
                              \/ rows'[d] # Null /\ rows'[d].status = "delivered"
                              \/ \E q \in Procs : PostedAccepted(q, d)'
    BY DEF Accounts
<1>12. /\ Attempts(d) <= posts[d]
       /\ \A q \in Procs : Posted(q, d) => Attempts(d) + 1 <= posts[d]
       /\ exact /\ crashes = 0 =>
            /\ (\A q \in Procs : ~Posted(q, d)) => posts[d] = Attempts(d)
            /\ (\E q \in Procs : Posted(q, d)) => posts[d] = Attempts(d) + 1
            /\ d \in accepted =>
                 \/ rows[d] # Null /\ rows[d].status = "delivered"
                 \/ \E q \in Procs : PostedAccepted(q, d)
    BY DEF Accounts
<1>13. CASE d # h
    BY <1>6, <1>9, <1>10, <1>11, <1>12, <1>13
<1>14. CASE d = h
    <2>1. Attempts(h)' + 1 <= posts'[h]
        BY <1>4, <1>10, <1>11, <1>12, <1>14
    <2>2. exact /\ crashes' = 0 => posts'[h] = Attempts(h)' + 1
        BY <1>4, <1>5, <1>6, <1>10, <1>11, <1>12, <1>14
    <2>3. exact /\ crashes' = 0 /\ h \in accepted =>
             rows'[h] # Null /\ rows'[h].status = "delivered"
        <3>1. \A q \in Procs : ~PostedAccepted(q, h)
            BY <1>5 DEF Posted, PostedAccepted
        <3>2. QED
            BY <1>6, <1>12, <1>14, <3>1
    <2>4. Attempts(h)' \in Nat /\ posts'[h] \in Nat
        BY <1>2, <1>4, <1>10, <1>11
    <2>5. QED
        BY <1>8, <1>14, <2>1, <2>2, <2>3, <2>4
<1>15. QED
    BY <1>13, <1>14

LEMMA AccountsUpdate ==
    ASSUME BaseInv, NEW exact \in BOOLEAN, Accounts(exact), NEW p \in Procs, Update(p)
    PROVE  Accounts(exact)'
<1>1. UNCHANGED <<rows, posts, accepted, crashes>> /\ phase[p] \in {"accepted", "refused"}
    BY DEF Update
<1>2. PICK h \in Deliveries, was \in Row :
        /\ Head(todo[p]).d = h /\ writes[p][h] = Null
        /\ writes'[p][h] = [was |-> was, now |-> Attempted(was, phase[p])]
        /\ \A d \in Deliveries \ {h} : writes'[p][d] = writes[p][d]
        /\ \A q \in Procs \ {p} :
             writes'[q] = writes[q] /\ todo'[q] = todo[q] /\ phase'[q] = phase[q]
        /\ phase'[p] = "run"
    <2> todo[p][1].d \in Deliveries /\ todo[p][1].was \in Row
        BY UpdateMoves
    <2> WITNESS todo[p][1].d \in Deliveries, todo[p][1].was \in Row
    <2> QED
        BY UpdateMoves
<1>3. /\ Attempted(was, phase[p]).status = "delivered" <=> phase[p] = "accepted"
      /\ writes'[p][h] \in Write
    BY <1>2, AttemptedType DEF Write
<1>4. writes'[p][h] # Null
    BY <1>3, NullAssumption
<1>5. \A q \in Procs, d \in Deliveries :
         Posted(q, d)' = Posted(q, d) /\ PostedAccepted(q, d)' = PostedAccepted(q, d)
    <2> SUFFICES ASSUME NEW q \in Procs, NEW d \in Deliveries
                 PROVE  Posted(q, d)' = Posted(q, d) /\ PostedAccepted(q, d)' = PostedAccepted(q, d)
        OBVIOUS
    <2>1. CASE q # p
        BY <1>2, <2>1 DEF Posted, PostedAccepted
    <2>2. CASE q = p /\ d # h
        BY <1>2, <2>2 DEF Posted, PostedAccepted
    <2>3. CASE q = p /\ d = h
        <3>1. Posted(p, h) /\ Posted(p, h)'
            BY <1>1, <1>2, <1>4 DEF Posted
        <3>2. PostedAccepted(p, h) <=> phase[p] = "accepted"
            BY <1>2 DEF PostedAccepted
        <3>3. PostedAccepted(p, h)' <=> phase[p] = "accepted"
            BY <1>2, <1>3, <1>4 DEF PostedAccepted
        <3>4. QED
            BY <2>3, <3>1, <3>2, <3>3 DEF Posted, PostedAccepted
    <2>4. QED
        BY <2>1, <2>2, <2>3
<1>6. QED
    BY <1>1, <1>5, AccountsSame

LEMMA AccountsCommit ==
    ASSUME BaseInv, OneWorker, NEW exact \in BOOLEAN, Accounts(exact), NEW p \in Procs, Commit(p)
    PROVE  Accounts(exact)'
<1>0. TypeOK /\ RowsPlanned /\ WritesOwned
    BY DEF BaseInv, HonestInv, Owned
<1>1. UNCHANGED <<posts, accepted, crashes>> /\ Ends(p) /\ phase[p] = "run"
    BY DEF Commit
<1>2. /\ phase'[p] = "idle" /\ writes'[p] = NoWrites
      /\ \A q \in Procs \ {p} : writes'[q] = writes[q] /\ todo'[q] = todo[q] /\ phase'[q] = phase[q]
    BY <1>0, <1>1 DEF Ends, TypeOK
<1>3. \A d \in Deliveries : ~Posted(p, d)' /\ ~PostedAccepted(p, d)'
    BY <1>2 DEF Posted, PostedAccepted, NoWrites
<1>4. \A q \in Procs \ {p}, d \in Deliveries :
         Posted(q, d)' = Posted(q, d) /\ PostedAccepted(q, d)' = PostedAccepted(q, d)
    BY <1>2 DEF Posted, PostedAccepted
<1>5. \A d \in Deliveries : /\ Posted(p, d) <=> writes[p][d] # Null
                            /\ PostedAccepted(p, d) <=>
                                 writes[p][d] # Null /\ writes[p][d].now.status = "delivered"
    BY <1>1 DEF Posted, PostedAccepted
<1> SUFFICES ASSUME NEW d \in Deliveries
             PROVE  /\ Attempts(d)' <= posts'[d]
                    /\ \A q \in Procs : Posted(q, d)' => Attempts(d)' + 1 <= posts'[d]
                    /\ exact /\ crashes' = 0 =>
                         /\ (\A q \in Procs : ~Posted(q, d)') => posts'[d] = Attempts(d)'
                         /\ (\E q \in Procs : Posted(q, d)') => posts'[d] = Attempts(d)' + 1
                         /\ d \in accepted' =>
                              \/ rows'[d] # Null /\ rows'[d].status = "delivered"
                              \/ \E q \in Procs : PostedAccepted(q, d)'
    BY DEF Accounts
<1>6. /\ Attempts(d) <= posts[d]
      /\ \A q \in Procs : Posted(q, d) => Attempts(d) + 1 <= posts[d]
      /\ exact /\ crashes = 0 =>
           /\ (\A q \in Procs : ~Posted(q, d)) => posts[d] = Attempts(d)
           /\ (\E q \in Procs : Posted(q, d)) => posts[d] = Attempts(d) + 1
           /\ d \in accepted =>
                \/ rows[d] # Null /\ rows[d].status = "delivered"
                \/ \E q \in Procs : PostedAccepted(q, d)
    BY DEF Accounts
<1>7. CASE writes[p][d] = Null
    <2>1. rows'[d] = rows[d]
        BY <1>7, CommitWrites
    <2>2. Attempts(d)' = Attempts(d)
        BY <2>1 DEF Attempts
    <2>3. \A q \in Procs :
             Posted(q, d)' = Posted(q, d) /\ PostedAccepted(q, d)' = PostedAccepted(q, d)
        <3>1. Posted(p, d)' = Posted(p, d) /\ PostedAccepted(p, d)' = PostedAccepted(p, d)
            BY <1>3, <1>5, <1>7 DEF Posted, PostedAccepted
        <3>2. QED
            BY <1>4, <3>1
    <2>4. QED
        BY <1>1, <1>6, <2>1, <2>2, <2>3
<1>8. CASE writes[p][d] # Null
    <2>1. rows'[d] = writes[p][d].now /\ rows'[d].attempts = Attempts(d) + 1 /\ rows'[d] # Null
        <3>1. writes[p][d].now \in Row
            BY <1>0, <1>8, AttemptIsRow DEF TypeOK, Write
        <3>2. QED
            BY <1>8, <3>1, CommitWrites, NullAssumption
    <2>2. Attempts(d)' = Attempts(d) + 1
        BY <2>1 DEF Attempts
    <2>3. PICK was \in Row : Owns(p, d, was)
        BY <1>5, <1>8, PostedOwns
    <2>4. \A q \in Procs \ {p} : ~Posted(q, d) /\ ~PostedAccepted(q, d)
        <3>1. \A q \in Procs \ {p} : ~Posted(q, d)
            BY <2>3, OneHasPosted
        <3>2. QED
            BY <3>1 DEF Posted, PostedAccepted
    <2>5. \A q \in Procs : ~Posted(q, d)'
        BY <1>3, <1>4, <2>4
    <2>6. ~(rows[d] # Null /\ rows[d].status = "delivered")
        BY <1>0, <2>3, OwnerKnows
    <2>7. exact /\ crashes = 0 /\ d \in accepted => writes[p][d].now.status = "delivered"
        BY <1>5, <1>6, <2>4, <2>6
    <2>8. Posted(p, d)
        BY <1>5, <1>8
    <2>9. QED
        BY <1>1, <1>6, <2>1, <2>2, <2>5, <2>7, <2>8
<1>9. QED
    BY <1>7, <1>8

\* A transaction undone leaves its posts unrecorded.
LEMMA AccountsRollback ==
    ASSUME BaseInv, NEW exact \in BOOLEAN, Accounts(exact), NEW p \in Procs, RollsBack(p),
           exact => crashes' # 0
    PROVE  Accounts(exact)'
<1>0. TypeOK
    BY DEF BaseInv, HonestInv
<1>1. UNCHANGED <<rows, posts>> /\ Ends(p)
    BY DEF RollsBack
<1>2. /\ phase'[p] = "idle" /\ writes'[p] = NoWrites
      /\ \A q \in Procs \ {p} : writes'[q] = writes[q] /\ todo'[q] = todo[q] /\ phase'[q] = phase[q]
    BY <1>0, <1>1 DEF Ends, TypeOK
<1>3. \A q \in Procs, d \in Deliveries : Posted(q, d)' => Posted(q, d)
    BY <1>2 DEF Posted, NoWrites
<1>4. \A d \in Deliveries : Attempts(d)' = Attempts(d) /\ posts'[d] = posts[d]
    BY <1>1 DEF Attempts
<1>5. QED
    BY <1>3, <1>4 DEF Accounts

\* Nobody waits for a row lock, so no transaction is cancelled.
LEMMA NobodyWaits ==
    ASSUME BaseInv, OneWorker, NEW p \in Procs
    PROVE  ~CancelDeadlocked(p)
<1>0. TypeOK /\ PostsHonest /\ TodoOwned
    BY DEF BaseInv, HonestInv, Owned
<1> SUFFICES ASSUME CancelDeadlocked(p)
             PROVE  FALSE
    OBVIOUS
<1>1. PICK S \in SUBSET Procs :
        p \in S /\ \A s \in S : \E t \in S \ {s} : WaitsFor(s, t)
    BY DEF CancelDeadlocked
<1>2. PICK q \in Procs \ {p} : WaitsFor(p, q)
    BY <1>1
<1>3. todo[p] # <<>> /\ writes[q][Head(todo[p]).d] # Null
    BY <1>0, <1>2 DEF WaitsFor, PostsHonest
<1>4. /\ Head(todo[p]) = todo[p][1] /\ 1 \in 1..Len(todo[p])
      /\ todo[p][1].d \in Deliveries /\ todo[p][1].was \in Row
    BY <1>0, <1>3, HeadJob, JobType
<1>5. Owns(p, todo[p][1].d, todo[p][1].was)
    BY <1>0, <1>4 DEF TodoOwned, JobsOwned
<1>6. Posted(q, todo[p][1].d)
    BY <1>3, <1>4 DEF Posted
<1>7. QED
    BY <1>2, <1>4, <1>5, <1>6, OneHasPosted

LEMMA AccountsStep ==
    ASSUME BaseInv, OneWorker, NEW exact \in BOOLEAN, exact => Raising = {},
           Accounts(exact), [Next]_vars
    PROVE  Accounts(exact)'
<1>0. TypeOK
    BY DEF BaseInv, HonestInv
<1>1. ASSUME NEW p \in Procs, Proceed(p) \/ Crash(p)
      PROVE  Accounts(exact)'
    <2>1. CASE Post(p) \/ Update(p) \/ Commit(p)
        BY <2>1, AccountsPost, AccountsUpdate, AccountsCommit
    <2>2. CASE Raise(p)
        <3>1. ~exact /\ RollsBack(p)
            BY <2>2 DEF Raise
        <3>2. QED
            BY <3>1, AccountsRollback
    <2>3. CASE Crash(p)
        <3>1. RollsBack(p) /\ crashes' # 0
            BY <1>0, <2>3, WebhookAssumption DEF Crash, TypeOK
        <3>2. QED
            BY <3>1, AccountsRollback
    <2>4. QED
        BY <1>1, <2>1, <2>2, <2>3, NobodyWaits DEF Proceed
<1>2. ASSUME NEW p \in Procs, NEW jobs, Begins(p, jobs), phase[p] \in {"idle", "run"},
             UNCHANGED <<rows, writes, posts, accepted, crashes>>
      PROVE  Accounts(exact)'
    <2>1. \A q \in Procs : /\ q # p => todo'[q] = todo[q] /\ phase'[q] = phase[q]
                           /\ q = p => phase[q] \in {"idle", "run"} /\ phase'[q] = "run"
        BY <1>0, <1>2 DEF Begins, TypeOK
    <2>2. \A q \in Procs, d \in Deliveries :
             Posted(q, d)' = Posted(q, d) /\ PostedAccepted(q, d)' = PostedAccepted(q, d)
        BY <1>2, <2>1 DEF Posted, PostedAccepted
    <2>3. QED
        BY <1>2, <2>2, AccountsSame
<1>3. ASSUME NEW p \in Procs, Emit(p)
      PROVE  Accounts(exact)'
    <2>1. /\ phase[p] \in {"idle", "run"} /\ \E jobs : Begins(p, jobs)
          /\ UNCHANGED <<rows, writes, posts, accepted, crashes>>
        BY <1>3 DEF Emit
    <2>2. QED
        BY <1>2, <2>1
<1>4. ASSUME NEW p \in Procs, NEW o \in Orgs, Sweep(p, o)
      PROVE  Accounts(exact)'
    <2>1. /\ phase[p] \in {"idle", "run"} /\ \E jobs : Begins(p, jobs)
          /\ UNCHANGED <<rows, writes, posts, accepted, crashes>>
        BY <1>4 DEF Sweep
    <2>2. QED
        BY <1>2, <2>1
<1>5. ASSUME NEW h \in Hooks, CreateWebhook(h) \/ DeleteWebhook(h)
      PROVE  Accounts(exact)'
    <2>1. UNCHANGED <<rows, phase, todo, writes, posts, accepted, crashes>>
        BY <1>5 DEF CreateWebhook, DeleteWebhook
    <2>2. QED
        BY <2>1, AccountsSame DEF Posted, PostedAccepted
<1>6. ASSUME NEW d \in Deliveries, Tick(d)
      PROVE  Accounts(exact)'
    <2>1. UNCHANGED <<phase, todo, writes, posts, accepted, crashes>>
        BY <1>6 DEF Tick
    <2>2. \A e \in Deliveries :
             /\ rows'[e] = Null <=> rows[e] = Null
             /\ rows[e] # Null =>
                  rows'[e].attempts = rows[e].attempts /\ rows'[e].status = rows[e].status
        <3>1. rows[d] \in Attempt
            BY <1>0, <1>6 DEF Tick, TypeOK
        <3>2. /\ rows'[d] = [rows[d] EXCEPT !.next = "due"]
              /\ \A e \in Deliveries \ {d} : rows'[e] = rows[e]
            BY <1>0, <1>6 DEF Tick, TypeOK
        <3>3. rows'[d] \in Attempt /\ rows'[d].attempts = rows[d].attempts
              /\ rows'[d].status = rows[d].status
            BY <3>1, <3>2 DEF Attempt
        <3>4. rows'[d] # Null /\ rows[d] # Null
            BY <3>1, <3>3, AttemptIsRow, NullAssumption
        <3>5. QED
            BY <3>2, <3>3, <3>4
    <2>3. QED
        BY <2>1, <2>2, AccountsSame DEF Posted, PostedAccepted
<1>7. CASE UNCHANGED vars
    BY <1>7, AccountsSame DEF vars, Posted, PostedAccepted
<1>8. ~\E p \in Procs, d \in Deliveries : Retry(p, d)
    BY DEF Retry, OneWorker
<1>9. QED
    BY <1>1, <1>3, <1>4, <1>5, <1>6, <1>7, <1>8 DEF Next

LEMMA SpecBaseInv ==
    ASSUME OneWorker
    PROVE  Spec => []BaseInv
<1>1. Init => BaseInv
    BY HonestInit, OwnedInit DEF BaseInv
<1>2. BaseInv /\ [Next]_vars => BaseInv'
    BY HonestStep, OwnedStep DEF BaseInv
<1>3. QED
    BY <1>1, <1>2, PTL DEF Spec

\* With one worker and no operator the row of a delivery nobody works on tells the
\* posts sent and what came of them, however many replicas emit, and exactly so
\* while nothing has crashed and no post raises.
THEOREM LedgersMatch ==
    ASSUME OneWorker
    PROVE  Spec => []LedgerMatches
<1> DEFINE exact == Raising = {}
<1>0. exact \in BOOLEAN /\ (exact => Raising = {})
    OBVIOUS
<1> HIDE DEF exact
<1>1. Init => Accounts(exact)
    BY <1>0, AccountsInit
<1>2. BaseInv /\ Accounts(exact) /\ [Next]_vars => Accounts(exact)'
    BY <1>0, AccountsStep
<1>3. BaseInv /\ Accounts(exact) => LedgerMatches
    <2> SUFFICES ASSUME BaseInv, Accounts(exact), NEW d \in Deliveries, Quiet(d)
                 PROVE  /\ rows[d] # Null =>
                             /\ rows[d].attempts <= posts[d]
                             /\ rows[d].status = "delivered" => d \in accepted
                             /\ rows[d].next # Null <=> rows[d].status = "retry_scheduled"
                        /\ crashes = 0 /\ Raising = {} =>
                             /\ posts[d] = IF rows[d] = Null THEN 0 ELSE rows[d].attempts
                             /\ d \in accepted => rows[d] # Null /\ rows[d].status = "delivered"
        BY DEF LedgerMatches
    <2>0. TypeOK /\ RowsHonest /\ PostsHonest /\ RowsPlanned
        BY DEF BaseInv, HonestInv, Owned
    <2>1. \A p \in Procs : ~Posted(p, d)
        <3> SUFFICES ASSUME NEW p \in Procs, phase[p] \in {"accepted", "refused"},
                            Head(todo[p]).d = d
                     PROVE  FALSE
            BY DEF Quiet, Posted
        <3>1. 1 \in 1..Len(todo[p]) /\ Head(todo[p]) = todo[p][1]
            BY <2>0, HeadJob DEF PostsHonest
        <3>2. QED
            BY <3>1 DEF Quiet
    <2>2. \A p \in Procs : ~PostedAccepted(p, d)
        BY <2>1 DEF Posted, PostedAccepted
    <2>3. /\ Attempts(d) <= posts[d]
          /\ crashes = 0 /\ Raising = {} =>
               /\ posts[d] = Attempts(d)
               /\ d \in accepted => rows[d] # Null /\ rows[d].status = "delivered"
        BY <2>1, <2>2 DEF Accounts, exact
    <2>4. rows[d] # Null =>
            /\ rows[d].status = "delivered" => d \in accepted
            /\ rows[d].next # Null <=> rows[d].status = "retry_scheduled"
        BY <2>0 DEF RowsHonest, Honest, RowsPlanned, Planned
    <2>5. QED
        BY <2>3, <2>4 DEF Attempts
<1>4. QED
    BY <1>1, <1>2, <1>3, SpecBaseInv, PTL DEF Spec

-------------------------------------------------------------------------------
(* The ledger *)

\* The entry of a delivery.
Entry(d) ==
    [state    |-> IF rows[d] = Null \/ rows[d].status = "retry_scheduled"
                    THEN "open" ELSE rows[d].status,
     attempts |-> IF rows[d] = Null THEN 0 ELSE rows[d].attempts]

LEMMA LedgerInit == Init => Ledger!Init
BY DEF Init, Ledger!Init

\* What a row records of an attempt of the entry it had.
LEMMA EntryRecorded ==
    ASSUME TypeOK, NEW d \in Deliveries, NEW was \in Row, NEW o \in {"accepted", "refused"},
           was.attempts < MaxAttempts,
           rows'[d] = Attempted(was, o)
    PROVE  Entry(d)' = [state |-> IF o = "accepted" THEN "delivered"
                                  ELSE IF was.attempts + 1 = MaxAttempts
                                    THEN "failed" ELSE "open",
                        attempts |-> was.attempts + 1]
<1>1. rows'[d] \in Row
    BY AttemptedType, AttemptIsRow
<1>2. rows'[d] # Null /\ was.attempts \in Nat /\ MaxAttempts \in Nat
    BY <1>1, NullAssumption, WebhookAssumption DEF Row
<1>3. CASE o = "accepted"
    BY <1>2, <1>3 DEF Entry, Attempted
<1>4. CASE o = "refused" /\ was.attempts + 1 = MaxAttempts
    BY <1>2, <1>4 DEF Entry, Attempted, NextAttempt
<1>5. CASE o = "refused" /\ was.attempts + 1 # MaxAttempts
    BY <1>2, <1>5, NullAssumption DEF Entry, Attempted, NextAttempt
<1>6. QED
    BY <1>3, <1>4, <1>5

\* A post goes to a delivery whose entry is open.
LEMMA LedgerPost ==
    ASSUME BaseInv, NEW p \in Procs, Post(p)
    PROVE  \E d \in Deliveries : Ledger!Post(d)
<1>0. TypeOK /\ RowsPlanned /\ TodoOwned
    BY DEF BaseInv, HonestInv, Owned
<1>1. todo[p] # <<>>
    BY DEF Post
<1>2. PICK h \in Deliveries, was \in Row : Head(todo[p]).d = h /\ Owns(p, h, was)
    <2>1. 1 \in 1..Len(todo[p]) /\ Head(todo[p]) = todo[p][1]
        BY <1>0, <1>1, HeadJob
    <2>2. /\ todo[p][1].d \in Deliveries /\ todo[p][1].was \in Row
          /\ Owns(p, todo[p][1].d, todo[p][1].was)
        BY <1>0, <2>1, JobType DEF TodoOwned, JobsOwned
    <2>3. QED
        BY <2>1, <2>2
<1>3. rows[h] = Null \/ rows[h].status = "retry_scheduled"
    BY <1>0, <1>2, OwnerKnows
<1>4. /\ posts' = [posts EXCEPT ![h] = IF @ > MaxAttempts THEN @ ELSE @ + 1]
      /\ accepted' \in {accepted, accepted \cup {h}}
      /\ rows' = rows
    BY <1>2 DEF Post
<1>5. Ledger!Open(h)
    BY <1>3 DEF Ledger!Open
<1>6. QED
    BY <1>4, <1>5 DEF Ledger!Post

\* A commit records the attempts of its transaction.
LEMMA LedgerCommit ==
    ASSUME BaseInv, Accounts(FALSE), NEW p \in Procs, Commit(p)
    PROVE  \E D \in SUBSET Deliveries : \E S \in SUBSET D : Ledger!Record(D, S)
<1>0. TypeOK /\ RowsPlanned /\ WritesOwned /\ WritesHonest
    BY DEF BaseInv, HonestInv, Owned
<1>1. PICK D \in SUBSET Deliveries : D = {d \in Deliveries : writes[p][d] # Null}
    OBVIOUS
<1>2. PICK S \in SUBSET D : S = {d \in D : writes[p][d].now.status = "delivered"}
    OBVIOUS
<1>3. ASSUME NEW d \in D
      PROVE  /\ rows[d] = Null \/ rows[d].status = "retry_scheduled"
             /\ Attempts(d) < posts[d]
             /\ d \in S => d \in accepted
             /\ Entry(d)' = [state |-> IF d \in S THEN "delivered"
                                      ELSE IF Attempts(d) + 1 = MaxAttempts
                                        THEN "failed" ELSE "open",
                            attempts |-> Attempts(d) + 1]
    <2>1. d \in Deliveries /\ writes[p][d] # Null
        BY <1>1
    <2>2. PICK w \in Write : w = writes[p][d]
        BY <1>0, <2>1 DEF TypeOK
    <2>3. w.was \in Row /\ Owns(p, d, w.was)
        BY <1>0, <2>1, <2>2 DEF WritesOwned, Write
    <2>4. PICK o \in {"accepted", "refused"} : w.now = Attempted(w.was, o)
        BY <1>0, <2>1, <2>2 DEF WritesOwned
    <2>5. /\ Attempts(d) = w.was.attempts /\ w.was.attempts < MaxAttempts
          /\ w.was.attempts \in Nat
          /\ rows[d] # Null => rows[d].status = "retry_scheduled"
        BY <1>0, <2>1, <2>3, OwnerKnows
    <2>6. posts[d] \in Nat /\ Attempts(d) + 1 <= posts[d]
        BY <1>0, <2>1, WebhookAssumption DEF Accounts, Posted, TypeOK
    <2>7. d \in S <=> o = "accepted"
        BY <1>2, <2>2, <2>3, <2>4, AttemptedType
    <2>8. d \in S => d \in accepted
        BY <1>0, <1>2, <2>1 DEF WritesHonest, Honest
    <2>9. rows'[d] = Attempted(w.was, o)
        BY <2>1, <2>2, <2>4, CommitWrites
    <2>10. Entry(d)' = [state |-> IF o = "accepted" THEN "delivered"
                                  ELSE IF w.was.attempts + 1 = MaxAttempts
                                    THEN "failed" ELSE "open",
                        attempts |-> w.was.attempts + 1]
        BY <1>0, <2>1, <2>3, <2>5, <2>9, EntryRecorded
    <2>11. QED
        BY <2>5, <2>6, <2>7, <2>8, <2>10
<1>4. ASSUME NEW d \in Deliveries, d \notin D
      PROVE  Entry(d)' = Entry(d)
    <2>1. rows'[d] = rows[d]
        BY <1>1, <1>4, CommitWrites
    <2>2. QED
        BY <2>1 DEF Entry
<1>5. UNCHANGED <<posts, accepted>>
    BY DEF Commit
<1>6. \A d \in D : Ledger!Open(d) /\ Entry(d).attempts < posts[d]
    BY <1>3 DEF Ledger!Open, Entry, Attempts
<1>7. [d \in Deliveries |-> Entry(d)'] =
        [d \in Deliveries |->
           IF d \notin D THEN Entry(d)
           ELSE [state |-> IF d \in S THEN "delivered"
                           ELSE IF Entry(d).attempts + 1 = MaxAttempts
                             THEN "failed" ELSE "open",
                 attempts |-> Entry(d).attempts + 1]]
    BY <1>3, <1>4 DEF Entry, Attempts
<1>8. S \subseteq D \cap accepted
    BY <1>3
<1>9. Ledger!Record(D, S)
    BY <1>5, <1>6, <1>7, <1>8 DEF Ledger!Record, Entry
<1>10. QED
    BY <1>9

\* Every other step leaves every entry as it is.
LEMMA LedgerStep ==
    ASSUME BaseInv, OneWorker, Accounts(FALSE), [Next]_vars
    PROVE  [Ledger!Next]_(Ledger!vars)
<1>0. TypeOK
    BY DEF BaseInv, HonestInv
<1>1. ASSUME UNCHANGED <<rows, posts, accepted>>
      PROVE  UNCHANGED Ledger!vars
    BY <1>1 DEF Ledger!vars
<1>2. ASSUME NEW p \in Procs, Proceed(p) \/ Crash(p) \/ Emit(p)
      PROVE  [Ledger!Next]_(Ledger!vars)
    <2>1. CASE Post(p)
        BY <2>1, LedgerPost DEF Ledger!Next
    <2>2. CASE Commit(p)
        BY <2>2, LedgerCommit DEF Ledger!Next
    <2>3. CASE Update(p) \/ Raise(p) \/ Crash(p) \/ CancelDeadlocked(p) \/ Emit(p)
        <3>1. UNCHANGED <<rows, posts, accepted>>
            BY <2>3 DEF Update, Raise, Crash, CancelDeadlocked, RollsBack, Emit
        <3>2. QED
            BY <1>1, <3>1
    <2>4. QED
        BY <1>2, <2>1, <2>2, <2>3 DEF Proceed
<1>3. ASSUME NEW d \in Deliveries, Tick(d)
      PROVE  UNCHANGED Ledger!vars
    <2>1. rows[d] # Null /\ rows[d] \in Attempt
        BY <1>0, <1>3 DEF Tick, TypeOK
    <2>2. /\ rows'[d] = [rows[d] EXCEPT !.next = "due"]
          /\ \A e \in Deliveries \ {d} : rows'[e] = rows[e]
          /\ UNCHANGED <<posts, accepted>>
        BY <1>0, <1>3 DEF Tick, TypeOK
    <2>3. /\ rows'[d] # Null /\ rows'[d].status = rows[d].status
          /\ rows'[d].attempts = rows[d].attempts
        <3>1. rows'[d] \in Attempt
            BY <2>1, <2>2 DEF Attempt
        <3>2. QED
            BY <2>1, <2>2, <3>1, AttemptIsRow, NullAssumption DEF Attempt
    <2>4. \A e \in Deliveries : Entry(e)' = Entry(e)
        BY <2>1, <2>2, <2>3 DEF Entry
    <2>5. [e \in Deliveries |-> Entry(e)'] = [e \in Deliveries |-> Entry(e)]
        BY <2>4
    <2>6. QED
        BY <2>2, <2>5 DEF Ledger!vars, Entry
<1>4. ASSUME \/ \E p \in Procs, o \in Orgs : Sweep(p, o)
             \/ \E p \in Procs, d \in Deliveries : Retry(p, d)
             \/ \E h \in Hooks : CreateWebhook(h) \/ DeleteWebhook(h)
             \/ UNCHANGED vars
      PROVE  UNCHANGED Ledger!vars
    <2>1. UNCHANGED <<rows, posts, accepted>>
        BY <1>4 DEF Sweep, Retry, CreateWebhook, DeleteWebhook, vars
    <2>2. QED
        BY <1>1, <2>1
<1>5. QED
    BY <1>2, <1>3, <1>4 DEF Next

\* With one worker and no operator the transactions keep the ledger, whatever
\* crashes, raises, or is emitted by however many replicas.
THEOREM ImplementsTheLedger ==
    ASSUME OneWorker
    PROVE  Spec => ImplementsLedger
<1>1. Init => Accounts(FALSE)
    BY AccountsInit
<1>2. BaseInv /\ Accounts(FALSE) /\ [Next]_vars => Accounts(FALSE)'
    BY AccountsStep
<1>3. BaseInv /\ Accounts(FALSE) /\ [Next]_vars => [Ledger!Next]_(Ledger!vars)
    BY LedgerStep
<1>4. QED
    BY <1>1, <1>2, <1>3, LedgerInit, SpecBaseInv, PTL
    DEF Spec, ImplementsLedger, Ledger!Spec

LEMMA EntryType ==
    ASSUME TypeOK, NEW d \in Deliveries
    PROVE  /\ Entry(d).attempts \in Nat
           /\ Entry(d).state \in {"open", "delivered", "failed"}
           /\ posts[d] \in Nat
BY WebhookAssumption DEF TypeOK, Entry, Attempt

\* What Ledger!Truthful says of one delivery.
Tells(d) ==
    /\ Entry(d).attempts <= posts[d] /\ Entry(d).attempts <= MaxAttempts
    /\ Entry(d).state = "delivered" => d \in accepted
    /\ Entry(d).state # "delivered" =>
          (Entry(d).state = "failed" <=> Entry(d).attempts = MaxAttempts)

LEMMA TruthfulMeans == Ledger!Truthful <=> \A d \in Deliveries : Tells(d)
BY DEF Ledger!Truthful, Tells, Entry

\* Steps of the ledger, entry by entry.
LEMMA EntriesKept ==
    ASSUME UNCHANGED [e \in Deliveries |-> Entry(e)], NEW d \in Deliveries
    PROVE  Entry(d)' = Entry(d)
<1>1. /\ [e \in Deliveries |-> Entry(e)'][d] = Entry(d)'
      /\ [e \in Deliveries |-> Entry(e)][d] = Entry(d)
    OBVIOUS
<1>2. [e \in Deliveries |-> Entry(e)'] = [e \in Deliveries |-> Entry(e)]
    OBVIOUS
<1>3. QED
    BY <1>1, <1>2

LEMMA EntriesRecord ==
    ASSUME NEW D \in SUBSET Deliveries, NEW S \in SUBSET D, Ledger!Record(D, S),
           NEW d \in Deliveries
    PROVE  /\ d \notin D => Entry(d)' = Entry(d)
           /\ d \in D =>
                /\ Entry(d).state = "open" /\ Entry(d).attempts < posts[d]
                /\ Entry(d)'.attempts = Entry(d).attempts + 1
                /\ Entry(d)'.state = IF d \in S THEN "delivered"
                                     ELSE IF Entry(d).attempts + 1 = MaxAttempts
                                       THEN "failed" ELSE "open"
           /\ d \in S => d \in accepted
<1>1. [e \in Deliveries |-> Entry(e)'] =
        [e \in Deliveries |->
           IF e \notin D THEN Entry(e)
           ELSE [state |-> IF e \in S THEN "delivered"
                           ELSE IF Entry(e).attempts + 1 = MaxAttempts
                             THEN "failed" ELSE "open",
                 attempts |-> Entry(e).attempts + 1]]
    BY DEF Ledger!Record, Entry
<1>2. [e \in Deliveries |-> Entry(e)'][d] = Entry(d)'
    OBVIOUS
<1>3. Entry(d)' = IF d \notin D THEN Entry(d)
                  ELSE [state |-> IF d \in S THEN "delivered"
                                  ELSE IF Entry(d).attempts + 1 = MaxAttempts
                                    THEN "failed" ELSE "open",
                        attempts |-> Entry(d).attempts + 1]
    BY <1>1, <1>2
<1>4. d \in D => Entry(d).state = "open" /\ Entry(d).attempts < posts[d]
    BY DEF Ledger!Record, Ledger!Open, Entry
<1>5. d \in S => d \in accepted
    BY DEF Ledger!Record
<1>6. QED
    BY <1>3, <1>4, <1>5

LEMMA EntriesPost ==
    ASSUME TypeOK, NEW e \in Deliveries, Ledger!Post(e), NEW d \in Deliveries
    PROVE  /\ Entry(d)' = Entry(d)
           /\ Entry(e).state = "open"
           /\ posts[d] <= posts'[d] /\ (d # e => posts'[d] = posts[d])
           /\ accepted \subseteq accepted'
<1>1. UNCHANGED [c \in Deliveries |-> Entry(c)]
    BY DEF Ledger!Post, Entry
<1>2. posts[d] \in Nat /\ posts' = [posts EXCEPT ![e] = IF @ > MaxAttempts THEN @ ELSE @ + 1]
    BY EntryType DEF Ledger!Post
<1>3. posts[d] <= posts'[d] /\ (d # e => posts'[d] = posts[d])
    BY <1>2 DEF TypeOK
<1>4. Entry(e).state = "open" /\ accepted \subseteq accepted'
    BY DEF Ledger!Post, Ledger!Open, Entry
<1>5. QED
    BY <1>1, <1>3, <1>4, EntriesKept

LEMMA TruthfulStep ==
    ASSUME TypeOK, TypeOK', Ledger!Truthful, [Ledger!Next]_(Ledger!vars)
    PROVE  Ledger!Truthful'
<1>0. MaxAttempts \in Nat
    BY WebhookAssumption
<1>1. Ledger!Truthful' <=> \A d \in Deliveries : Tells(d)'
    BY DEF Ledger!Truthful, Tells, Entry
<1> SUFFICES ASSUME NEW d \in Deliveries
             PROVE  Tells(d)'
    BY <1>1
<1>2. Tells(d)
    BY TruthfulMeans
<1>3. posts[d] \in Nat /\ posts'[d] \in Nat
    BY WebhookAssumption DEF TypeOK
<1>4. ASSUME NEW e \in Deliveries, Ledger!Post(e)
      PROVE  Tells(d)'
    BY <1>2, <1>3, <1>4, EntriesPost, EntryType DEF Tells
<1>5. ASSUME NEW D \in SUBSET Deliveries, NEW S \in SUBSET D, Ledger!Record(D, S)
      PROVE  Tells(d)'
    <2>1. UNCHANGED <<posts, accepted>>
        BY <1>5 DEF Ledger!Record
    <2>2. CASE d \notin D
        BY <1>2, <1>5, <2>1, <2>2, EntriesRecord DEF Tells
    <2>3. CASE d \in D
        <3>1. /\ Entry(d).state = "open" /\ Entry(d).attempts < posts[d]
              /\ Entry(d)'.attempts = Entry(d).attempts + 1
              /\ Entry(d)'.state = IF d \in S THEN "delivered"
                                   ELSE IF Entry(d).attempts + 1 = MaxAttempts
                                     THEN "failed" ELSE "open"
              /\ d \in S => d \in accepted
            BY <1>5, <2>3, EntriesRecord
        <3>2. Entry(d).attempts \in Nat /\ Entry(d).attempts < MaxAttempts
            BY <1>0, <1>2, <3>1, EntryType DEF Tells
        <3>3. QED
            BY <1>0, <1>3, <2>1, <3>1, <3>2 DEF Tells
    <2>4. QED
        BY <2>2, <2>3
<1>6. CASE UNCHANGED Ledger!vars
    <2>1. UNCHANGED [e \in Deliveries |-> Entry(e)] /\ UNCHANGED <<posts, accepted>>
        BY <1>6 DEF Ledger!vars, Entry
    <2>2. QED
        BY <1>2, <2>1, EntriesKept DEF Tells
<1>7. QED
    BY <1>4, <1>5, <1>6 DEF Ledger!Next

LEMMA ClosedStep ==
    ASSUME TypeOK, Ledger!Next
    PROVE  Ledger!ClosedKept
<1>1. ASSUME NEW d \in Deliveries, ~Ledger!Open(d)
      PROVE  Entry(d)' = Entry(d) /\ posts'[d] = posts[d]
    <2>0. Entry(d).state # "open"
        BY <1>1 DEF Ledger!Open, Entry
    <2>1. ASSUME NEW e \in Deliveries, Ledger!Post(e)
          PROVE  Entry(d)' = Entry(d) /\ posts'[d] = posts[d]
        BY <2>0, <2>1, EntriesPost
    <2>2. ASSUME NEW D \in SUBSET Deliveries, NEW S \in SUBSET D, Ledger!Record(D, S)
          PROVE  Entry(d)' = Entry(d) /\ posts'[d] = posts[d]
        BY <2>0, <2>2, EntriesRecord DEF Ledger!Record
    <2>3. QED
        BY <2>1, <2>2 DEF Ledger!Next
<1>2. QED
    BY <1>1 DEF Ledger!ClosedKept, Entry

\* Whatever keeps the ledger records nothing as delivered that was not accepted,
\* nothing as failed before the last attempt, and no attempt without a post.
THEOREM LedgerIsTruthful == Spec /\ ImplementsLedger => []Ledger!Truthful
<1>1. Ledger!Init => Ledger!Truthful
    BY WebhookAssumption DEF Ledger!Init, Ledger!Truthful
<1>2. QED
    BY <1>1, TruthfulStep, TypeCorrect, PTL DEF ImplementsLedger, Ledger!Spec

\* Whatever keeps the ledger never posts again, nor changes, what it has recorded as
\* delivered or failed.
THEOREM ClosedStaysClosed == Spec /\ ImplementsLedger => Ledger!ClosedForGood
<1>1. TypeOK /\ [Ledger!Next]_(Ledger!vars) => [Ledger!ClosedKept]_(Ledger!vars)
    BY ClosedStep
<1>2. QED
    BY <1>1, TypeCorrect, PTL DEF ImplementsLedger, Ledger!Spec, Ledger!ClosedForGood
================================================================================
