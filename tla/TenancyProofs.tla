----------------------------- MODULE TenancyProofs -----------------------------
(***************************************************************************)
(* Proofs about Tenancy, for any processes, keys, slugs and crashes.       *)
(*                                                                         *)
(* A start inserts what it has not found (Looked), and the organization is *)
(* inserted together with the first bootstrap keys (Founded): of several   *)
(* starts that have found neither, one commits and the others are refused. *)
(* A slug that nobody else was about to write when it was found, and since, *)
(* is still free (FreeSlugs).                                              *)
(***************************************************************************)
EXTENDS Tenancy, SequenceTheorems, TLAPS

\* A request in progress has found a row that exists.
FoundRow ==
    \A p \in Processes : request[p] # Null /\ request[p].at = "found" =>
        request[p].row \in 1 .. Len(keys[request[p].secret])

\* What a process has passed is there.
Progress ==
    \A p \in Processes :
        /\ proc[p] \in {"plans", "templates", "partner", "serving"} =>
              "organization" \in seeded /\ \A s \in Bootstrap : keys[s] # <<>>
        /\ proc[p] \in {"templates", "partner", "serving"} => "plans" \in seeded
        /\ proc[p] \in {"partner", "serving"} => "templates" \in seeded
        /\ proc[p] = "serving" => "partner" \in seeded

\* What a process has found missing is of its seed, and the rest of the seed is there.
Looked ==
    \A p \in Processes : missing[p] # Null =>
        IF proc[p] = "security"
          THEN /\ missing[p] \subseteq {"organization"} \cup Bootstrap
               /\ "organization" \in missing[p] \cup seeded
               /\ \A s \in Bootstrap : s \in missing[p] \/ keys[s] # <<>>
          ELSE missing[p] \subseteq {proc[p]} /\ proc[p] \in missing[p] \cup seeded

\* The bootstrap keys known from the start come and go with the organization.
Founded ==
    /\ home # Null <=> "organization" \in seeded
    /\ \A s \in Bootstrap \ added :
        /\ keys[s] # <<>> <=> "organization" \in seeded
        /\ NeverRevoked(s) => Len(keys[s]) <= 1
        /\ \A p \in Processes : missing[p] # Null /\ s \in missing[p] /\ NeverRevoked(s) =>
              "organization" \in missing[p]

\* A slug found while nobody else was about to write one, and since.
FreeSlugs ==
    \A p \in Processes : request[p] # Null /\ request[p].at = "account" =>
        \/ request[p].raced
        \/ /\ request[p].slug \notin Taken
           /\ \A q \in Processes \ {p} : ~WritesSlug(q)

IInv == TypeOK /\ FoundRow /\ Progress /\ Looked /\ Founded /\ FreeSlugs

-------------------------------------------------------------------------------
LEMMA RequestForms ==
    /\ \A s \in Secrets, i \in Nat : [at |-> "found", secret |-> s, row |-> i] \in Request
    /\ [at |-> "admitted"] \in Request
    /\ \A slug \in Slugs, b \in BOOLEAN : [at |-> "account", slug |-> slug, raced |-> b] \in Request
    /\ \A slug, read \in Slugs : [at |-> "rename", slug |-> slug, read |-> read] \in Request
    /\ Null \notin Request
BY TenancyAssumption DEF Request

LEMMA RequestFields ==
    ASSUME NEW w \in Request
    PROVE  /\ w.at \in {"found", "admitted", "account", "rename"}
           /\ w.at = "found" => w.secret \in Secrets /\ w.row \in Nat
           /\ w.at = "account" => w.slug \in Slugs /\ w.raced \in BOOLEAN
           /\ w.at = "rename" => w.slug \in Slugs /\ w.read \in Slugs
BY DEF Request

LEMMA SeedFacts ==
    /\ Secrets \cap Items = {} /\ Bootstrap \subseteq Secrets /\ "organization" \in Items
    /\ Bootstrap \cap Items = {} /\ Bootstrap \cap Drawn = {}
    /\ \A seed \in Seeds : After(seed) \in {"serving"} \cup Seeds /\ After(seed) # "security"
    /\ \A seed \in Seeds : seed # "security" => seed \in Items
    /\ NewKey \in Key
BY TenancyAssumption DEF Secrets, Seeds, Items, After, NewKey, Key

LEMMA InitIInv == Init => IInv
<1> SUFFICES ASSUME Init PROVE IInv
  OBVIOUS
<1>1. keys \in [Secrets -> Seq(Key)]
  <2>1. <<>> \in Seq(Key)
    OBVIOUS
  <2>2. \A hash \in {"sha256", "bcrypt"} : <<[active |-> TRUE, hash |-> hash]>> \in Seq(Key)
    BY DEF Key
  <2> QED
    BY <2>1, <2>2 DEF Init
<1>2. TypeOK
  BY <1>1, TenancyAssumption DEF Init, TypeOK, Items
<1>3. FoundRow /\ Progress /\ Looked /\ FreeSlugs
  BY DEF Init, FoundRow, Progress, Looked, FreeSlugs
<1>4. Founded
  <2>1. CASE seeded = {} /\ home = Null /\ keys = [s \in Secrets |-> <<>>]
    BY <2>1, SeedFacts DEF Init, Founded, NeverRevoked
  <2>2. CASE /\ seeded = Items /\ home = HomeSlug
             /\ \E hash \in {"sha256", "bcrypt"} :
                  keys = [s \in Secrets |-> IF s \in Bootstrap \ added
                            THEN <<[active |-> TRUE, hash |-> hash]>> ELSE <<>>]
    <3>1. \A s \in Bootstrap \ added : Len(keys[s]) = 1 /\ keys[s] # <<>>
      BY <2>2, SeedFacts
    <3> QED
      BY <2>2, <3>1, SeedFacts, TenancyAssumption DEF Init, Founded
  <2> QED
    BY <2>1, <2>2 DEF Init
<1> QED
  BY <1>2, <1>3, <1>4 DEF IInv

-------------------------------------------------------------------------------
(* How the rows of a key change. *)

\* No row is made active; rows stay.
Weakened(old, new) ==
    Len(new) = Len(old) /\ \A i \in 1 .. Len(old) : new[i].active => old[i].active

LEMMA KeysStep ==
    ASSUME TypeOK, FoundRow, [Next]_vars
    PROVE  /\ keys' \in [Secrets -> Seq(Key)]
           /\ \A s \in Secrets :
                \/ Weakened(keys[s], keys'[s])
                \/ \E p \in Processes :
                      Seed(p) /\ s \in missing[p] /\ keys'[s] = Append(keys[s], NewKey)
                \/ s \in Drawn /\ keys[s] = <<>> /\ keys'[s] = <<NewKey>>
<1> DEFINE Q == /\ keys' \in [Secrets -> Seq(Key)]
                /\ \A s \in Secrets :
                     \/ Weakened(keys[s], keys'[s])
                     \/ \E p \in Processes :
                           Seed(p) /\ s \in missing[p] /\ keys'[s] = Append(keys[s], NewKey)
                     \/ s \in Drawn /\ keys[s] = <<>> /\ keys'[s] = <<NewKey>>
<1>a. keys \in [Secrets -> Seq(Key)]
  BY DEF TypeOK
<1>b. \A s \in Secrets : keys[s] \in Seq(Key) /\ Len(keys[s]) \in Nat /\ Weakened(keys[s], keys[s])
  BY <1>a DEF Weakened
<1>1. CASE keys' = keys
  BY <1>1, <1>a, <1>b
<1>2. ASSUME NEW p \in Processes, Seed(p) PROVE Q
  <2>1. \A s \in Secrets : Append(keys[s], NewKey) \in Seq(Key)
    BY <1>a, SeedFacts
  <2> QED
    BY <1>2, <1>a, <1>b, <2>1 DEF Seed
\* one row of s is replaced
<1>3. ASSUME NEW s \in Secrets, NEW i \in 1 .. Len(keys[s]), NEW k \in Key,
             k.active => keys[s][i].active,
             keys' = [keys EXCEPT ![s] = [keys[s] EXCEPT ![i] = k]]
      PROVE  Q
  <2>1. keys[s] \in Seq(Key) /\ Len(keys[s]) \in Nat
    BY <1>b
  <2>2. /\ [keys[s] EXCEPT ![i] = k] \in Seq(Key)
        /\ Len([keys[s] EXCEPT ![i] = k]) = Len(keys[s])
        /\ \A j \in 1 .. Len(keys[s]) :
              [keys[s] EXCEPT ![i] = k][j] = IF j = i THEN k ELSE keys[s][j]
    BY <2>1, <1>3
  <2>3. Weakened(keys[s], [keys[s] EXCEPT ![i] = k])
    BY <1>3, <2>1, <2>2 DEF Weakened
  <2> QED
    BY <1>3, <1>a, <1>b, <2>2, <2>3
<1>4. ASSUME NEW p \in Processes, Admit(p) PROVE Q
  <2> DEFINE s == request[p].secret
             i == request[p].row
  <2>1. /\ request[p] \in Request /\ request[p].at = "found" /\ s \in Secrets
        /\ i \in 1 .. Len(keys[s])
    BY <1>4, RequestFields DEF Admit, TypeOK, FoundRow
  <2>2. keys[s][i] \in Key
    BY <1>a, <2>1
  <2>3. Used(keys[s][i]) \in Key /\ (Used(keys[s][i]).active => keys[s][i].active)
    BY <2>2 DEF Used, Key
  <2>4. keys' = [keys EXCEPT ![s] = [keys[s] EXCEPT ![i] = Used(keys[s][i])]]
    BY <1>4 DEF Admit, Replace
  <2> HIDE DEF s, i
  <2> QED
    BY <1>3, <2>1, <2>3, <2>4
<1>5. ASSUME NEW p \in Processes, NEW s \in Secrets, CreateKey(p, s) PROVE Q
  <2>1. <<NewKey>> \in Seq(Key)
    BY SeedFacts
  <2> QED
    BY <1>5, <1>a, <1>b, <2>1 DEF CreateKey
<1>6. ASSUME NEW p \in Processes, NEW s \in Secrets, DeleteKey(p, s) PROVE Q
  <2>1. PICK i \in DOMAIN keys[s] :
          keys' = [keys EXCEPT ![s] = [keys[s] EXCEPT ![i] =
                       [active |-> FALSE, hash |-> keys[s][i].hash]]]
    BY <1>6 DEF DeleteKey, Replace
  <2> DEFINE k == [active |-> FALSE, hash |-> keys[s][i].hash]
  <2>2. i \in 1 .. Len(keys[s]) /\ keys[s][i] \in Key
    BY <1>a, <1>b, <2>1
  <2>3. k \in Key /\ ~k.active
    BY <2>2 DEF Key
  <2>4. keys' = [keys EXCEPT ![s] = [keys[s] EXCEPT ![i] = k]]
    BY <2>1
  <2> HIDE DEF k
  <2> QED
    BY <1>3, <2>2, <2>3, <2>4
<1> HIDE DEF Q
<1>7. Q
  BY <1>1, <1>2, <1>4, <1>5, <1>6
     DEF Next, vars, Start, Look, Fail, Crash, Find, Answer, CreateAccount, Rename, ReadSlug,
         ReadOrganization, Q
<1> QED
  BY <1>7 DEF Q

\* Rows are never deleted, and a row once revoked stays so.
LEMMA KeysGrow ==
    ASSUME TypeOK, FoundRow, [Next]_vars, NEW s \in Secrets
    PROVE  /\ Len(keys[s]) \in Nat /\ Len(keys'[s]) \in Nat
           /\ Len(keys[s]) <= Len(keys'[s])
           /\ keys[s] # <<>> => keys'[s] # <<>>
           /\ NeverRevoked(s)' => NeverRevoked(s)
<1>1. keys[s] \in Seq(Key) /\ keys'[s] \in Seq(Key)
  BY KeysStep DEF TypeOK
<1>2. Len(keys[s]) \in Nat /\ Len(keys'[s]) \in Nat
      /\ DOMAIN keys[s] = 1 .. Len(keys[s]) /\ DOMAIN keys'[s] = 1 .. Len(keys'[s])
  BY <1>1
<1>3. CASE Weakened(keys[s], keys'[s])
  BY <1>1, <1>2, <1>3 DEF Weakened, NeverRevoked
<1>4. CASE keys'[s] = Append(keys[s], NewKey)
  <2>1. /\ Len(keys'[s]) = Len(keys[s]) + 1
        /\ \A i \in 1 .. Len(keys[s]) : keys'[s][i] = keys[s][i]
    BY <1>1, <1>2, <1>4
  <2> QED
    BY <1>1, <1>2, <1>4, <2>1 DEF NeverRevoked
<1>5. CASE keys[s] = <<>> /\ keys'[s] = <<NewKey>>
  BY <1>1, <1>2, <1>5 DEF NeverRevoked
<1> QED
  BY <1>3, <1>4, <1>5, KeysStep

-------------------------------------------------------------------------------
(* Every step keeps the parts of IInv. *)

LEMMA TypeStep == ASSUME TypeOK, FoundRow, [Next]_vars PROVE TypeOK'
<1>a. keys' \in [Secrets -> Seq(Key)]
  BY KeysStep
<1> HIDE DEF TypeOK
<1>b. Null \notin Slugs /\ MaxCrashes \in Nat /\ HomeSlug \in Slugs
  BY TenancyAssumption
\* a request ends, or takes a form of its own, and the rest of a process stays
<1>c. ASSUME NEW p \in Processes, NEW w \in Request \cup {Null}, request[p] # Null \/ proc[p] = "serving",
             request' = [request EXCEPT ![p] = w], UNCHANGED <<proc, missing>>
      PROVE  /\ request' \in [Processes -> Request \cup {Null}]
             /\ \A q \in Processes : request'[q] # Null => proc'[q] = "serving"
  BY <1>c DEF TypeOK
<1>d. ASSUME NEW p \in Processes, NEW w \in Request, request[p] # Null, Overlapping(p, w),
             UNCHANGED <<proc, missing>>
      PROVE  /\ request' \in [Processes -> Request \cup {Null}]
             /\ \A q \in Processes : request'[q] # Null => proc'[q] = "serving"
  <2>1. ASSUME NEW q \in Processes
        PROVE  /\ request'[q] \in Request \cup {Null}
               /\ request'[q] # Null => request[q] # Null
    <3>1. CASE q = p
      BY <1>d, <3>1 DEF Overlapping
    <3>2. CASE q # p /\ request[q] # Null /\ request[q].at = "account"
      <4>1. request[q].slug \in Slugs
        BY <3>2, RequestFields DEF TypeOK
      <4> QED
        BY <1>d, <3>2, <4>1, RequestForms DEF Overlapping
    <3>3. CASE q # p /\ ~(request[q] # Null /\ request[q].at = "account")
      BY <1>d, <3>3 DEF Overlapping, TypeOK
    <3> QED
      BY <3>1, <3>2, <3>3
  <2>2. request' \in [Processes -> Request \cup {Null}]
    BY <1>d, <2>1 DEF Overlapping
  <2> QED
    BY <1>d, <2>1, <2>2 DEF TypeOK
<1>e. ASSUME NEW p \in Processes, Down(p)
      PROVE  /\ proc' \in [Processes -> {"down", "serving"} \cup Seeds]
             /\ missing' \in [Processes -> (SUBSET (Items \cup Bootstrap)) \cup {Null}]
             /\ request' \in [Processes -> Request \cup {Null}]
             /\ \A q \in Processes : request'[q] # Null => proc'[q] = "serving"
             /\ \A q \in Processes : missing'[q] # Null => proc'[q] \in Seeds
  BY <1>e DEF Down, TypeOK
<1>1. ASSUME NEW p \in Processes, Start(p) PROVE TypeOK'
  BY <1>1, <1>a DEF Start, TypeOK, Seeds
<1>2. ASSUME NEW p \in Processes, Look(p) PROVE TypeOK'
  <2>1. Missing(proc[p]) \in SUBSET (Items \cup Bootstrap)
    BY <1>2, SeedFacts DEF Look, Missing
  <2> QED
    BY <1>2, <1>a, <2>1 DEF Look, TypeOK
<1>3. ASSUME NEW p \in Processes, Seed(p) PROVE TypeOK'
  <2>1. proc[p] \in Seeds /\ After(proc[p]) \in {"serving"} \cup Seeds /\ request[p] = Null
    BY <1>3, SeedFacts DEF Seed, TypeOK, Seeds
  <2>2. home' \in Slugs \cup {Null} /\ seeded' \in SUBSET Items
    BY <1>3, <1>b DEF Seed, TypeOK
  <2>3. proc' \in [Processes -> {"down", "serving"} \cup Seeds]
    BY <1>3, <2>1 DEF Seed, TypeOK
  <2>4. missing' \in [Processes -> (SUBSET (Items \cup Bootstrap)) \cup {Null}]
    BY <1>3 DEF Seed, TypeOK
  <2>5. /\ \A q \in Processes : request'[q] # Null => proc'[q] = "serving"
        /\ \A q \in Processes : missing'[q] # Null => proc'[q] \in Seeds
    BY <1>3, <2>1 DEF Seed, TypeOK
  <2> QED
    BY <1>3, <1>a, <2>2, <2>3, <2>4, <2>5 DEF Seed, TypeOK
<1>4. ASSUME NEW p \in Processes, Fail(p) PROVE TypeOK'
  <2>1. Down(p) /\ UNCHANGED <<seeded, home, accounts, crashes, added>>
    BY <1>4 DEF Fail
  <2> QED
    BY <1>a, <1>e, <2>1 DEF TypeOK
<1>5. ASSUME NEW p \in Processes, Crash(p) PROVE TypeOK'
  <2>1. Down(p) /\ UNCHANGED <<seeded, home, accounts, added>> /\ crashes' \in 0 .. MaxCrashes
    BY <1>5, <1>b DEF Crash, TypeOK
  <2> QED
    BY <1>a, <1>e, <2>1 DEF TypeOK
<1>6. ASSUME NEW p \in Processes, NEW s \in Secrets, Find(p, s) PROVE TypeOK'
  <2>1. PICK i \in ActiveRows(s) :
          request' = [request EXCEPT ![p] = [at |-> "found", secret |-> s, row |-> i]]
    BY <1>6 DEF Find
  <2>2. i \in Nat
    BY <2>1 DEF ActiveRows, TypeOK
  <2>3. [at |-> "found", secret |-> s, row |-> i] \in Request
    BY <2>2, RequestForms
  <2>4. /\ request' \in [Processes -> Request \cup {Null}]
        /\ \A q \in Processes : request'[q] # Null => proc'[q] = "serving"
    BY <1>6, <1>c, <2>1, <2>3 DEF Find
  <2> QED
    BY <1>6, <1>a, <2>4 DEF Find, TypeOK
<1>7. ASSUME NEW p \in Processes, NEW s \in Secrets, CreateKey(p, s) \/ DeleteKey(p, s) PROVE TypeOK'
  <2>1. /\ request' \in [Processes -> Request \cup {Null}]
        /\ \A q \in Processes : request'[q] # Null => proc'[q] = "serving"
    BY <1>7, <1>c DEF CreateKey, DeleteKey, End, Admitted
  <2> QED
    BY <1>7, <1>a, <2>1 DEF CreateKey, DeleteKey, TypeOK
<1>8. ASSUME NEW p \in Processes, Admit(p) PROVE TypeOK'
  <2>1. /\ request' \in [Processes -> Request \cup {Null}]
        /\ \A q \in Processes : request'[q] # Null => proc'[q] = "serving"
    BY <1>8, <1>c, RequestForms DEF Admit
  <2> QED
    BY <1>8, <1>a, <2>1 DEF Admit, TypeOK
<1>9. ASSUME NEW p \in Processes, Answer(p) \/ CreateAccount(p) \/ Rename(p) PROVE TypeOK'
  <2>1. /\ request' \in [Processes -> Request \cup {Null}]
        /\ \A q \in Processes : request'[q] # Null => proc'[q] = "serving"
    BY <1>9, <1>c DEF Answer, CreateAccount, Rename, End
  <2>2. accounts' \in SUBSET Slugs /\ home' \in Slugs \cup {Null}
    <3>1. request[p] \in Request
      BY <1>9 DEF Answer, CreateAccount, Rename, TypeOK
    <3> QED
      BY <1>9, <3>1, RequestFields DEF Answer, CreateAccount, Rename, TypeOK
  <2> QED
    BY <1>9, <1>a, <2>1, <2>2 DEF Answer, CreateAccount, Rename, TypeOK
<1>10. ASSUME NEW p \in Processes, NEW b \in Bases, ReadSlug(p, b) PROVE TypeOK'
  <2>1. PICK slug \in FirstFree(b) :
          Overlapping(p, [at |-> "account", slug |-> slug,
                          raced |-> \E q \in Processes \ {p} : WritesSlug(q)])
    BY <1>10 DEF ReadSlug
  <2> DEFINE raced == \E q \in Processes \ {p} : WritesSlug(q)
  <2>2. slug \in Slugs
    BY <2>1, TenancyAssumption DEF FirstFree
  <2>3. raced \in BOOLEAN
    OBVIOUS
  <2> HIDE DEF raced
  <2>4. [at |-> "account", slug |-> slug, raced |-> raced] \in Request
    BY <2>2, <2>3, RequestForms
  <2>5. Overlapping(p, [at |-> "account", slug |-> slug, raced |-> raced])
    BY <2>1 DEF raced
  <2>6. /\ request' \in [Processes -> Request \cup {Null}]
        /\ \A q \in Processes : request'[q] # Null => proc'[q] = "serving"
    BY <1>10, <1>d, <2>4, <2>5 DEF ReadSlug, Admitted
  <2> QED
    BY <1>10, <1>a, <2>6 DEF ReadSlug, TypeOK
<1>11. ASSUME NEW p \in Processes, NEW slug \in Slugs, ReadOrganization(p, slug) PROVE TypeOK'
  <2>1. home \in Slugs
    BY <1>11 DEF ReadOrganization, TypeOK
  <2>2. [at |-> "rename", slug |-> slug, read |-> home] \in Request
    BY <2>1, RequestForms
  <2>3. /\ request' \in [Processes -> Request \cup {Null}]
        /\ \A q \in Processes : request'[q] # Null => proc'[q] = "serving"
    BY <1>11, <1>d, <2>2 DEF ReadOrganization, Admitted
  <2> QED
    BY <1>11, <1>a, <2>3 DEF ReadOrganization, TypeOK
<1>12. CASE UNCHANGED vars
  BY <1>12 DEF vars, TypeOK
<1> QED
  BY <1>1, <1>2, <1>3, <1>4, <1>5, <1>6, <1>7, <1>8, <1>9, <1>10, <1>11, <1>12 DEF Next

LEMMA FoundRowStep == ASSUME TypeOK, FoundRow, [Next]_vars PROVE FoundRow'
<1>a. TypeOK'
  BY TypeStep
<1> SUFFICES ASSUME NEW p \in Processes, request'[p] # Null, request'[p].at = "found"
             PROVE  request'[p].row \in 1 .. Len(keys'[request'[p].secret])
  BY DEF FoundRow
<1> DEFINE s == request'[p].secret
           i == request'[p].row
<1>b. s \in Secrets /\ i \in Nat
  BY <1>a, RequestFields DEF TypeOK
<1>c. Len(keys[s]) \in Nat /\ Len(keys'[s]) \in Nat /\ Len(keys[s]) <= Len(keys'[s])
  BY <1>b, KeysGrow
<1>1. CASE request'[p] = request[p]
  <2>1. i \in 1 .. Len(keys[s])
    BY <1>1 DEF FoundRow
  <2> HIDE DEF s, i
  <2>2. i \in 1 .. Len(keys'[s])
    BY <1>b, <1>c, <2>1
  <2> QED
    BY <2>2 DEF s, i
<1>2. ASSUME NEW r \in Secrets, Find(p, r) PROVE i \in 1 .. Len(keys'[s])
  <2>1. PICK j \in ActiveRows(r) :
          request' = [request EXCEPT ![p] = [at |-> "found", secret |-> r, row |-> j]]
    BY <1>2 DEF Find
  <2>2. s = r /\ i = j
    BY <2>1 DEF TypeOK
  <2>3. j \in 1 .. Len(keys[r]) /\ keys' = keys
    BY <1>2, <2>1 DEF Find, ActiveRows, TypeOK
  <2> QED
    BY <2>2, <2>3
<1> HIDE DEF s, i
<1>3. ASSUME NEW q \in Processes, NEW w, Overlapping(q, w), w.at # "found" PROVE request'[p] = request[p]
  BY <1>3 DEF Overlapping
<1>4. request'[p] = request[p] \/ \E r \in Secrets : Find(p, r)
  <2>1. CASE UNCHANGED request
    BY <2>1
  <2>2. ASSUME NEW q \in Processes, NEW w, request' = [request EXCEPT ![q] = w],
               w = Null \/ w.at # "found"
        PROVE  request'[p] = request[p]
    BY <2>2 DEF TypeOK
  <2>3. ASSUME NEW q \in Processes, Fail(q) \/ Crash(q) PROVE request'[p] = request[p]
    BY <2>2, <2>3 DEF Fail, Crash, Down
  <2>4. ASSUME NEW q \in Processes,
               \/ \E r \in Secrets : CreateKey(q, r) \/ DeleteKey(q, r)
               \/ Answer(q) \/ CreateAccount(q) \/ Rename(q)
        PROVE  request'[p] = request[p]
    BY <2>2, <2>4 DEF CreateKey, DeleteKey, Answer, CreateAccount, Rename, End
  <2>5. ASSUME NEW q \in Processes, Admit(q) PROVE request'[p] = request[p]
    <3>1. [at |-> "admitted"].at # "found"
      OBVIOUS
    <3> QED
      BY <2>2, <2>5, <3>1 DEF Admit
  <2>6. ASSUME NEW q \in Processes, NEW r \in Secrets, Find(q, r), q # p
        PROVE  request'[p] = request[p]
    BY <2>6 DEF Find, TypeOK
  <2>7. ASSUME NEW q \in Processes, NEW b \in Bases, ReadSlug(q, b) PROVE request'[p] = request[p]
    <3>1. PICK w : w.at = "account" /\ Overlapping(q, w)
      BY <2>7 DEF ReadSlug
    <3> QED
      BY <1>3, <3>1
  <2>8. ASSUME NEW q \in Processes, NEW slug \in Slugs, ReadOrganization(q, slug)
        PROVE  request'[p] = request[p]
    <3>1. PICK w : w.at = "rename" /\ Overlapping(q, w)
      BY <2>8 DEF ReadOrganization
    <3> QED
      BY <1>3, <3>1
  <2> QED
    BY <2>1, <2>3, <2>4, <2>5, <2>6, <2>7, <2>8 DEF Next, vars, Start, Look, Seed
<1> QED
  BY <1>1, <1>2, <1>4 DEF s, i

\* What a step does to the starts, for the lemmas about them.
LEMMA StartStep ==
    ASSUME TypeOK, [Next]_vars
    PROVE  /\ seeded \subseteq seeded'
           /\ \A q \in Processes :
                \/ proc'[q] = proc[q] /\ missing'[q] = missing[q]
                \/ proc'[q] \in {"down", "security"} /\ missing'[q] = Null
                \/ Look(q)
                \/ Seed(q)
<1>1. CASE UNCHANGED <<proc, missing, seeded>>
  BY <1>1
<1>2. ASSUME NEW p \in Processes, Start(p)
      PROVE  /\ seeded' = seeded /\ proc'[p] = "security" /\ missing'[p] = Null
             /\ \A q \in Processes \ {p} : proc'[q] = proc[q] /\ missing'[q] = missing[q]
  <2>1. missing[p] = Null
    BY <1>2 DEF Start, TypeOK, Seeds
  <2> QED
    BY <1>2, <2>1 DEF Start, TypeOK
<1>3. ASSUME NEW p \in Processes, Look(p) \/ Seed(p)
      PROVE  /\ seeded \subseteq seeded'
             /\ \A q \in Processes \ {p} : proc'[q] = proc[q] /\ missing'[q] = missing[q]
  BY <1>3 DEF Look, Seed, TypeOK
<1>4. ASSUME NEW p \in Processes, Fail(p) \/ Crash(p)
      PROVE  /\ seeded' = seeded /\ proc'[p] = "down" /\ missing'[p] = Null
             /\ \A q \in Processes \ {p} : proc'[q] = proc[q] /\ missing'[q] = missing[q]
  BY <1>4 DEF Fail, Crash, Down, TypeOK
<1>5. \/ UNCHANGED <<proc, missing, seeded>>
      \/ \E p \in Processes : Start(p) \/ Look(p) \/ Seed(p) \/ Fail(p) \/ Crash(p)
  BY DEF Next, vars, Find, CreateKey, DeleteKey, Admit, Answer, CreateAccount, Rename, ReadSlug,
         ReadOrganization
<1> QED
  BY <1>1, <1>2, <1>3, <1>4, <1>5

LEMMA ProgressStep ==
    ASSUME TypeOK, FoundRow, Progress, Looked, [Next]_vars
    PROVE  Progress'
<1>a. seeded \subseteq seeded' /\ \A s \in Bootstrap : keys[s] # <<>> => keys'[s] # <<>>
  BY StartStep, KeysGrow, SeedFacts
<1> SUFFICES ASSUME NEW p \in Processes
             PROVE  /\ proc'[p] \in {"plans", "templates", "partner", "serving"} =>
                          "organization" \in seeded' /\ \A s \in Bootstrap : keys'[s] # <<>>
                    /\ proc'[p] \in {"templates", "partner", "serving"} => "plans" \in seeded'
                    /\ proc'[p] \in {"partner", "serving"} => "templates" \in seeded'
                    /\ proc'[p] = "serving" => "partner" \in seeded'
  BY DEF Progress
<1>1. CASE proc'[p] = proc[p]
  BY <1>1, <1>a DEF Progress
<1>2. CASE proc'[p] \in {"down", "security"}
  BY <1>2
<1>3. CASE Look(p)
  BY <1>3, <1>a DEF Look, Progress
<1>4. CASE Seed(p)
  <2>1. /\ proc[p] \in Seeds /\ missing[p] # Null /\ proc'[p] = After(proc[p])
        /\ seeded' = seeded \cup (missing[p] \cap Items)
    BY <1>4 DEF Seed, TypeOK
  <2>2. CASE proc[p] = "security"
    <3>1. proc'[p] = "plans" /\ "organization" \in seeded'
      BY <2>1, <2>2, SeedFacts DEF After, Looked
    <3>2. ASSUME NEW s \in Bootstrap PROVE keys'[s] # <<>>
      <4>1. CASE s \in missing[p]
        <5>1. keys'[s] = Append(keys[s], NewKey) /\ keys[s] \in Seq(Key)
          BY <1>4, <4>1, SeedFacts DEF Seed, TypeOK
        <5>2. Len(keys'[s]) = Len(keys[s]) + 1 /\ Len(keys[s]) \in Nat
          BY <5>1, SeedFacts
        <5> QED
          BY <5>2
      <4>2. CASE s \notin missing[p]
        BY <1>a, <2>1, <2>2, <4>2 DEF Looked
      <4> QED
        BY <4>1, <4>2
    <3> QED
      BY <3>1, <3>2
  <2>3. CASE proc[p] # "security"
    <3>1. proc[p] \in seeded' /\ proc[p] \in {"plans", "templates", "partner"}
      BY <2>1, <2>3, SeedFacts DEF Looked, Seeds
    <3> QED
      BY <1>a, <2>1, <3>1 DEF After, Progress
  <2> QED
    BY <2>2, <2>3
<1> QED
  BY <1>1, <1>2, <1>3, <1>4, StartStep

LEMMA LookedStep == ASSUME TypeOK, FoundRow, Looked, [Next]_vars PROVE Looked'
<1>a. seeded \subseteq seeded' /\ \A s \in Bootstrap : keys[s] # <<>> => keys'[s] # <<>>
  BY StartStep, KeysGrow, SeedFacts
<1> SUFFICES ASSUME NEW p \in Processes, missing'[p] # Null
             PROVE  IF proc'[p] = "security"
                      THEN /\ missing'[p] \subseteq {"organization"} \cup Bootstrap
                           /\ "organization" \in missing'[p] \cup seeded'
                           /\ \A s \in Bootstrap : s \in missing'[p] \/ keys'[s] # <<>>
                      ELSE missing'[p] \subseteq {proc'[p]} /\ proc'[p] \in missing'[p] \cup seeded'
  BY DEF Looked
<1>1. CASE proc'[p] = proc[p] /\ missing'[p] = missing[p]
  BY <1>1, <1>a DEF Looked
<1>2. CASE Look(p)
  <2>1. missing'[p] = Missing(proc[p]) /\ proc' = proc /\ seeded' = seeded /\ keys' = keys
    BY <1>2 DEF Look, TypeOK
  <2>2. \A s \in Bootstrap : Accepted(s) => keys[s] # <<>>
    BY DEF Accepted, ActiveRows
  <2> QED
    BY <2>1, <2>2 DEF Missing
<1>3. CASE Seed(p)
  BY <1>3 DEF Seed, TypeOK
<1> QED
  BY <1>1, <1>2, <1>3, StartStep

LEMMA FoundedStep ==
    ASSUME TypeOK, FoundRow, Progress, Looked, Founded, [Next]_vars
    PROVE  Founded'
<1>a. seeded \subseteq seeded'
  BY StartStep
<1>b. added' = added
  BY DEF Next, vars, Start, Look, Seed, Fail, Crash, Find, CreateKey, DeleteKey, Admit, Answer,
         CreateAccount, Rename, ReadSlug, ReadOrganization
\* a seed that inserts the organization or a bootstrap key is the first one
<1>c. ASSUME NEW p \in Processes, Seed(p)
      PROVE  /\ "organization" \in missing[p] => "organization" \notin seeded
             /\ \A s \in Bootstrap : s \in missing[p] => "organization" \in seeded'
             /\ "organization" \in missing[p] =>
                    \A s \in Bootstrap : s \in missing[p] \/ keys[s] # <<>>
  <2>1. /\ missing[p] # Null /\ proc[p] \in Seeds /\ missing[p] \cap seeded = {}
        /\ seeded' = seeded \cup (missing[p] \cap Items)
    BY <1>c DEF Seed, Clashes, TypeOK
  <2>2. CASE proc[p] = "security"
    BY <2>1, <2>2, SeedFacts DEF Looked
  <2>3. CASE proc[p] # "security"
    <3>1. missing[p] \subseteq {proc[p]} /\ proc[p] \in Items /\ proc[p] # "organization"
      BY <2>1, <2>3, SeedFacts DEF Looked, Seeds
    <3> QED
      BY <2>1, <3>1, SeedFacts
  <2> QED
    BY <2>2, <2>3
<1>1. home' # Null <=> "organization" \in seeded'
  <2>1. CASE UNCHANGED <<home, seeded>>
    BY <2>1 DEF Founded
  <2>2. ASSUME NEW p \in Processes, Seed(p) PROVE home' # Null <=> "organization" \in seeded'
    BY <2>2, <1>c, SeedFacts, TenancyAssumption DEF Seed, Founded
  <2>3. ASSUME NEW p \in Processes, Rename(p) PROVE home' # Null <=> "organization" \in seeded'
    <3>1. request[p] \in Request /\ request[p].at = "rename" /\ proc[p] = "serving"
      BY <2>3 DEF Rename, TypeOK
    <3>2. request[p].slug # Null
      BY <3>1, RequestFields, TenancyAssumption
    <3>3. "organization" \in seeded /\ home # Null /\ seeded' = seeded
      BY <2>3, <3>1 DEF Rename, Progress, Founded
    <3> QED
      BY <2>3, <3>2, <3>3 DEF Rename
  <2> QED
    BY <2>1, <2>2, <2>3
       DEF Next, vars, Start, Look, Fail, Crash, Find, CreateKey, DeleteKey, Admit, Answer,
           CreateAccount, ReadSlug, ReadOrganization
<1>2. ASSUME NEW s \in Bootstrap \ added
      PROVE  /\ keys'[s] # <<>> <=> "organization" \in seeded'
             /\ NeverRevoked(s)' => Len(keys'[s]) <= 1
             /\ \A p \in Processes : missing'[p] # Null /\ s \in missing'[p] /\ NeverRevoked(s)' =>
                   "organization" \in missing'[p]
  <2>a. s \in Secrets /\ s \notin Items /\ s \notin Drawn /\ s \in Bootstrap
    BY SeedFacts
  <2>b. /\ Len(keys[s]) \in Nat /\ Len(keys'[s]) \in Nat
        /\ keys[s] # <<>> => keys'[s] # <<>>
        /\ NeverRevoked(s)' => NeverRevoked(s)
    BY <2>a, KeysGrow
  <2>c. keys[s] \in Seq(Key) /\ keys'[s] \in Seq(Key)
    BY <2>a, KeysStep DEF TypeOK
  <2>d. /\ keys[s] # <<>> <=> "organization" \in seeded
        /\ NeverRevoked(s) => Len(keys[s]) <= 1
        /\ \A p \in Processes : missing[p] # Null /\ s \in missing[p] /\ NeverRevoked(s) =>
              "organization" \in missing[p]
    BY DEF Founded
  <2>e. \/ Weakened(keys[s], keys'[s])
        \/ \E p \in Processes :
              Seed(p) /\ s \in missing[p] /\ keys'[s] = Append(keys[s], NewKey)
    BY <2>a, KeysStep
  <2>1. ASSUME keys'[s] # <<>>, keys[s] = <<>> PROVE "organization" \in seeded'
    <3>1. ~Weakened(keys[s], keys'[s])
      BY <2>1, <2>c DEF Weakened
    <3> QED
      BY <2>a, <2>e, <3>1, <1>c
  <2>2. ASSUME "organization" \in seeded', "organization" \notin seeded PROVE keys'[s] # <<>>
    <3>1. PICK p \in Processes : Seed(p) /\ "organization" \in missing[p]
      BY <2>2 DEF Next, vars, Start, Look, Seed, Fail, Crash, Find, CreateKey, DeleteKey, Admit,
         Answer, CreateAccount, Rename, ReadSlug, ReadOrganization
    <3>2. CASE s \in missing[p]
      <4>1. keys'[s] = Append(keys[s], NewKey)
        BY <2>a, <3>1, <3>2 DEF Seed
      <4>2. Len(keys'[s]) = Len(keys[s]) + 1
        BY <2>c, <4>1, SeedFacts
      <4> QED
        BY <2>b, <4>2
    <3>3. CASE keys[s] # <<>>
      BY <2>b, <3>3
    <3> QED
      BY <1>c, <2>a, <3>1, <3>2, <3>3
  <2>3. ASSUME NeverRevoked(s)' PROVE Len(keys'[s]) <= 1
    <3>1. CASE Weakened(keys[s], keys'[s])
      BY <2>3, <2>b, <2>d, <3>1 DEF Weakened
    <3>2. ASSUME NEW p \in Processes, Seed(p), s \in missing[p], keys'[s] = Append(keys[s], NewKey)
          PROVE  Len(keys'[s]) <= 1
      <4>1. missing[p] # Null
        BY <3>2 DEF Seed
      <4>2. "organization" \notin seeded
        BY <1>c, <2>3, <2>b, <2>d, <3>2, <4>1
      <4>3. keys[s] = <<>>
        BY <2>d, <4>2
      <4>4. Len(keys'[s]) = Len(keys[s]) + 1
        BY <2>c, <3>2, SeedFacts
      <4> QED
        BY <4>3, <4>4
    <3> QED
      BY <2>e, <3>1, <3>2
  <2>4. ASSUME NEW p \in Processes, missing'[p] # Null, s \in missing'[p], NeverRevoked(s)'
        PROVE  "organization" \in missing'[p]
    <3>1. CASE missing'[p] = missing[p]
      BY <2>4, <2>b, <2>d, <3>1
    <3>2. CASE Look(p)
      <4>1. /\ missing'[p] = Missing(proc[p]) /\ proc[p] \in Seeds /\ seeded' = seeded
            /\ keys' = keys
        BY <3>2 DEF Look, TypeOK
      <4>2. proc[p] = "security" /\ ~Accepted(s)
        BY <2>4, <2>a, <4>1, SeedFacts DEF Missing
      <4>3. keys[s] = <<>>
        <5>1. DOMAIN keys[s] = 1 .. Len(keys[s])
          BY <2>c
        <5>2. NeverRevoked(s)
          BY <2>4, <2>b
        <5>3. 1 \notin DOMAIN keys[s]
          BY <4>2, <5>2 DEF NeverRevoked, Accepted, ActiveRows
        <5>4. Len(keys[s]) = 0
          BY <2>b, <5>1, <5>3
        <5> QED
          BY <2>c, <5>4
      <4> QED
        BY <2>d, <4>1, <4>2, <4>3 DEF Missing
    <3>3. CASE Seed(p)
      BY <2>4, <3>3 DEF Seed, TypeOK
    <3> QED
      BY <2>4, <3>1, <3>2, <3>3, StartStep
  <2> QED
    BY <1>a, <2>b, <2>d, <2>1, <2>2, <2>3, <2>4
<1> QED
  BY <1>1, <1>2, <1>b DEF Founded

LEMMA FreeSlugsStep ==
    ASSUME TypeOK, FoundRow, Progress, Founded, FreeSlugs, [Next]_vars
    PROVE  FreeSlugs'
<1>a. TypeOK'
  BY TypeStep
<1> SUFFICES ASSUME NEW p \in Processes, request'[p] # Null, request'[p].at = "account",
                    ~request'[p].raced
             PROVE  /\ request'[p].slug \notin Taken'
                    /\ \A q \in Processes \ {p} : ~WritesSlug(q)'
  BY DEF FreeSlugs
\* a step that gives nobody a slug to write, and takes none
<1>1. ASSUME request'[p] = request[p], Taken' = Taken,
             \A q \in Processes : WritesSlug(q)' => WritesSlug(q)
      PROVE  /\ request'[p].slug \notin Taken'
             /\ \A q \in Processes \ {p} : ~WritesSlug(q)'
  BY <1>1 DEF FreeSlugs
<1> DEFINE Goal == /\ request'[p].slug \notin Taken'
                   /\ \A q \in Processes \ {p} : ~WritesSlug(q)'
<1>2. ASSUME NEW q \in Processes, NEW w, request' = [request EXCEPT ![q] = w],
             w = Null \/ w.at \in {"found", "admitted"}, UNCHANGED <<home, accounts>>
      PROVE  Goal
  <2>1. request'[p] = request[p]
    BY <1>2 DEF TypeOK
  <2>2. \A r \in Processes : WritesSlug(r)' => WritesSlug(r)
    BY <1>2 DEF TypeOK, WritesSlug
  <2>3. Taken' = Taken
    BY <1>2 DEF Taken
  <2> QED
    BY <1>1, <2>1, <2>2, <2>3
<1>3. ASSUME UNCHANGED <<request, home, accounts>> PROVE Goal
  BY <1>1, <1>3 DEF Taken, WritesSlug
<1>4. ASSUME NEW q \in Processes, Seed(q) PROVE Goal
  <2>1. request[p] # Null /\ proc[p] = "serving"
    BY <1>4 DEF Seed, TypeOK
  <2>2. "organization" \notin missing[q]
    BY <1>4, <2>1 DEF Seed, Clashes, Progress
  <2> QED
    BY <1>1, <1>4, <2>2 DEF Seed, Taken, WritesSlug
<1>5. ASSUME NEW q \in Processes, Fail(q) \/ Crash(q) PROVE Goal
  BY <1>2, <1>5 DEF Fail, Crash, Down
<1>6. ASSUME NEW q \in Processes, NEW s \in Secrets,
             Find(q, s) \/ CreateKey(q, s) \/ DeleteKey(q, s)
      PROVE  Goal
  <2>1. CASE Find(q, s)
    <3>1. PICK i : request' = [request EXCEPT ![q] = [at |-> "found", secret |-> s, row |-> i]]
      BY <2>1 DEF Find
    <3>2. [at |-> "found", secret |-> s, row |-> i].at = "found"
      OBVIOUS
    <3>3. UNCHANGED <<home, accounts>>
      BY <2>1 DEF Find
    <3> QED
      BY <1>2, <3>1, <3>2, <3>3
  <2>2. CASE CreateKey(q, s) \/ DeleteKey(q, s)
    BY <1>2, <2>2 DEF CreateKey, DeleteKey, End
  <2> QED
    BY <1>6, <2>1, <2>2
<1>7. ASSUME NEW q \in Processes, Admit(q) PROVE Goal
  <2>1. [at |-> "admitted"].at = "admitted"
    OBVIOUS
  <2> QED
    BY <1>2, <1>7, <2>1 DEF Admit
<1>8. ASSUME NEW q \in Processes, Answer(q) PROVE Goal
  BY <1>2, <1>8 DEF Answer, End
<1>9. ASSUME NEW q \in Processes, CreateAccount(q) \/ Rename(q) PROVE Goal
  <2>1. WritesSlug(q) /\ request'[q] = Null
    BY <1>9 DEF CreateAccount, Rename, End, WritesSlug, TypeOK
  <2>2. q # p /\ request'[p] = request[p]
    BY <1>9, <2>1 DEF CreateAccount, Rename, End, TypeOK
  <2> QED
    BY <2>1, <2>2 DEF FreeSlugs
\* the request of q that has read a slug, and the others that are marked
<1>10. ASSUME NEW q \in Processes, NEW w, Overlapping(q, w), p # q PROVE FALSE
  <2>1. \/ request'[p] = [at |-> "account", slug |-> request[p].slug, raced |-> TRUE]
        \/ request'[p] = request[p] /\ ~(request[p] # Null /\ request[p].at = "account")
    BY <1>10 DEF Overlapping
  <2> QED
    BY <2>1
<1>11. ASSUME NEW q \in Processes, NEW b \in Bases, ReadSlug(q, b) PROVE Goal
  <2>1. PICK slug \in FirstFree(b) :
          Overlapping(q, [at |-> "account", slug |-> slug,
                          raced |-> \E r \in Processes \ {q} : WritesSlug(r)])
    BY <1>11 DEF ReadSlug
  <2>2. p = q
    BY <1>10, <2>1
  <2>3. request'[p] = [at |-> "account", slug |-> slug,
                       raced |-> \E r \in Processes \ {q} : WritesSlug(r)]
    BY <2>1, <2>2 DEF Overlapping
  <2>4. slug \notin Taken /\ Taken' = Taken
    BY <1>11, <2>1 DEF FirstFree, ReadSlug, Taken
  <2>5. \A r \in Processes \ {q} : ~WritesSlug(r)
    BY <2>3
  <2>6. \A r \in Processes \ {q} : request'[r] = request[r]
    BY <2>1, <2>5 DEF Overlapping, WritesSlug
  <2> QED
    BY <2>2, <2>3, <2>4, <2>5, <2>6 DEF WritesSlug
<1>12. ASSUME NEW q \in Processes, NEW slug \in Slugs, ReadOrganization(q, slug) PROVE Goal
  <2>1. Overlapping(q, [at |-> "rename", slug |-> slug, read |-> home])
    BY <1>12 DEF ReadOrganization
  <2>2. request'[q] = [at |-> "rename", slug |-> slug, read |-> home]
    BY <2>1 DEF Overlapping
  <2> QED
    BY <1>10, <2>1, <2>2
<1> HIDE DEF Goal
<1>13. ASSUME NEW q \in Processes, Start(q) \/ Look(q) PROVE Goal
  BY <1>3, <1>13 DEF Start, Look
<1>14. ASSUME UNCHANGED vars PROVE Goal
  BY <1>3, <1>14 DEF vars
<1>15. ASSUME NEW q \in Processes,
              \/ Start(q) \/ Look(q) \/ Seed(q) \/ Fail(q) \/ Crash(q) \/ Admit(q) \/ Answer(q)
              \/ CreateAccount(q) \/ Rename(q)
              \/ \E s \in Secrets : Find(q, s) \/ CreateKey(q, s) \/ DeleteKey(q, s)
              \/ \E b \in Bases : ReadSlug(q, b)
              \/ \E slug \in Slugs : ReadOrganization(q, slug)
       PROVE  Goal
  BY <1>4, <1>5, <1>6, <1>7, <1>8, <1>9, <1>11, <1>12, <1>13, <1>15
<1>16. Goal
  BY <1>14, <1>15 DEF Next
<1> QED
  BY <1>16 DEF Goal

LEMMA IInvStep == IInv /\ [Next]_vars => IInv'
BY TypeStep, FoundRowStep, ProgressStep, LookedStep, FoundedStep, FreeSlugsStep DEF IInv

-------------------------------------------------------------------------------
LEMMA SpecIInv == Spec => []IInv
BY InitIInv, IInvStep, PTL DEF Spec

\* The states of processes, keys and organizations are those TypeOK lists.
THEOREM TypeCorrect == Spec => []TypeOK
<1>1. IInv => TypeOK
  BY DEF IInv
<1> QED
  BY SpecIInv, <1>1, PTL

\* However many processes start, crash and refuse each other, one that serves finds the
\* seeds complete and every bootstrap key nobody has revoked accepted.
THEOREM ServesOnlySeeded == Spec => []ServingMeansSeeded
<1>1. IInv => ServingMeansSeeded
  <2> SUFFICES ASSUME IInv, NEW p \in Processes, proc[p] = "serving"
               PROVE  /\ seeded = Items /\ home # Null
                      /\ \A s \in Bootstrap : NeverRevoked(s) => Accepted(s)
    BY DEF ServingMeansSeeded
  <2>1. seeded = Items /\ home # Null
    BY DEF IInv, TypeOK, Progress, Founded, Items
  <2>2. ASSUME NEW s \in Bootstrap, NeverRevoked(s) PROVE Accepted(s)
    <3>1. keys[s] # <<>> /\ keys[s] \in Seq(Key)
      BY SeedFacts DEF IInv, TypeOK, Progress
    <3>2. 1 \in DOMAIN keys[s]
      BY <3>1
    <3> QED
      BY <2>2, <3>2 DEF NeverRevoked, Accepted, ActiveRows
  <2> QED
    BY <2>1, <2>2
<1> QED
  BY SpecIInv, <1>1, PTL

\* Any number of starts at once give a bootstrap key one row, until one is revoked.
THEOREM BootstrapKeysAreSingle == Spec => []NoDoubleKeys
<1>1. IInv => NoDoubleKeys
  BY DEF IInv, Founded, NoDoubleKeys
<1> QED
  BY SpecIInv, <1>1, PTL

\* A slug found free stays free unless another request that writes slugs overlaps.
THEOREM SlugsStayFree == Spec => []SlugStillFree
<1>1. IInv => SlugStillFree
  BY DEF IInv, FreeSlugs, SlugStillFree
<1> QED
  BY SpecIInv, <1>1, PTL

\* A key that the API has given out and revoked is never accepted again.
THEOREM RevocationIsFinal == Spec => RevokedForGood
<1>1. ASSUME TypeOK, FoundRow, Looked, [Next]_vars, NEW s \in Drawn, keys[s] # <<>>, ~Accepted(s)
      PROVE  ~Accepted(s)'
  <2>a. s \in Secrets /\ s \notin Bootstrap /\ s \notin Items
    BY TenancyAssumption DEF Secrets
  <2>b. keys[s] \in Seq(Key) /\ keys'[s] \in Seq(Key) /\ Len(keys[s]) \in Nat
    BY <1>1, <2>a, KeysStep DEF TypeOK
  <2>1. \A p \in Processes : ~(Seed(p) /\ s \in missing[p])
    BY <1>1, <2>a DEF Seed, TypeOK
  <2>2. Weakened(keys[s], keys'[s])
    BY <1>1, <2>a, <2>1, KeysStep
  <2>3. ActiveRows(s)' \subseteq ActiveRows(s)
    BY <2>b, <2>2 DEF Weakened, ActiveRows
  <2> QED
    BY <1>1, <2>3 DEF Accepted
<1>2. IInv /\ [Next]_vars =>
          [\A s \in Drawn : keys[s] # <<>> /\ ~Accepted(s) => ~Accepted(s)']_vars
  BY <1>1 DEF IInv
<1> QED
  BY SpecIInv, <1>2, PTL DEF Spec, RevokedForGood
================================================================================
