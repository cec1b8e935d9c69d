-------------------------------- MODULE Tenancy --------------------------------
(***************************************************************************)
(* What a process needs before it can serve, and who it then serves: the   *)
(* organization, plans, templates and partner that every start seeds, the  *)
(* API keys, and the slugs of the organizations.                           *)
(*                                                                         *)
(* The API replicas and the webhook worker are started at once and again   *)
(* after every stop.  Each start runs the seeds of AgentStore.__init__,    *)
(* each in a transaction of its own: it looks what is missing and inserts  *)
(* it.  A process is single threaded; between its read and its commit the  *)
(* others run.                                                             *)
(***************************************************************************)
EXTENDS Naturals, Sequences, FiniteSets

CONSTANTS
    Processes,
    Bootstrap,   \* the secrets of settings.bootstrap_api_keys
    Drawn,       \* secrets that create_api_key may draw
    Slugs, Bases,
    Numbered,    \* Numbered[b][n]: b, b-2, b-3, ... as create_partner_account tries them
    HomeSlug,    \* the slug of settings.default_organization_name
    MaxAccounts, MaxCrashes, MaxRevoked,   \* bounds
    Null

Secrets == Bootstrap \cup Drawn

\* The seeds in the order of their transactions, and the rows only one start can insert.
Seeds == {"security", "plans", "templates", "partner"}
Items == {"organization", "plans", "templates", "partner"}

Key == [active : BOOLEAN, hash : {"sha256", "bcrypt"}]

\* A request: its key is found, it is admitted, it has read what it will write from.
Request ==
    [at : {"found"}, secret : Secrets, row : Nat] \cup [at : {"admitted"}]
        \cup [at : {"account"}, slug : Slugs, raced : BOOLEAN]
        \cup [at : {"rename"}, slug : Slugs, read : Slugs]

ASSUME TenancyAssumption ==
    /\ MaxAccounts \in Nat /\ MaxCrashes \in Nat /\ MaxRevoked \in Nat
    /\ Bootstrap \cap Drawn = {} /\ Secrets \cap Items = {}
    /\ Bases \subseteq Slugs /\ HomeSlug \in Slugs
    /\ Numbered \in [Bases -> [1 .. MaxAccounts + 2 -> Slugs]]
    /\ \A b \in Bases : Numbered[b][1] = b
    /\ Null \notin Slugs /\ Null \notin Request /\ \A S \in SUBSET (Items \cup Bootstrap) : S # Null

VARIABLES
    proc,      \* proc[p]: "down", the seed it is at, or "serving"
    missing,   \* missing[p]: what the seed of p has not found, before its commit
    seeded,    \* the items there are
    keys,      \* keys[s]: the api_keys rows whose hash verifies s, oldest first
    home,      \* the slug of the default organization, Null before there is one
    accounts,  \* the slugs of the organizations of partner accounts
    request,   \* request[p]: the request p is at
    crashes,
    added      \* history: the bootstrap keys the settings have got since the database was made

vars == <<proc, missing, seeded, keys, home, accounts, request, crashes, added>>

TypeOK ==
    /\ proc \in [Processes -> {"down", "serving"} \cup Seeds]
    /\ missing \in [Processes -> (SUBSET (Items \cup Bootstrap)) \cup {Null}]
    /\ seeded \in SUBSET Items
    /\ keys \in [Secrets -> Seq(Key)]
    /\ home \in Slugs \cup {Null}
    /\ accounts \in SUBSET Slugs
    /\ request \in [Processes -> Request \cup {Null}]
    /\ crashes \in 0 .. MaxCrashes
    /\ added \in SUBSET Bootstrap
    \* only a process that serves is at a request, only one that seeds has looked
    /\ \A p \in Processes : request[p] # Null => proc[p] = "serving"
    /\ \A p \in Processes : missing[p] # Null => proc[p] \in Seeds

NewKey == [active |-> TRUE, hash |-> "bcrypt"]

\* A new database, or an older one whose keys may still be SHA-256.
Init ==
    /\ proc = [p \in Processes |-> "down"]
    /\ missing = [p \in Processes |-> Null]
    /\ \/ /\ seeded = {} /\ home = Null /\ added = {}
          /\ keys = [s \in Secrets |-> <<>>]
       \/ /\ seeded = Items /\ home = HomeSlug
          /\ added \in SUBSET Bootstrap
          /\ \E hash \in {"sha256", "bcrypt"} :
               keys = [s \in Secrets |-> IF s \in Bootstrap \ added
                         THEN <<[active |-> TRUE, hash |-> hash]>> ELSE <<>>]
    /\ accounts = {}
    /\ request = [p \in Processes |-> Null]
    /\ crashes = 0

\* Whether find_api_key_model finds a row for s.
ActiveRows(s) == {i \in DOMAIN keys[s] : keys[s][i].active}
Accepted(s) == ActiveRows(s) # {}

Taken == accounts \cup ({home} \ {Null})

-------------------------------------------------------------------------------
(* Variants with a plausible bug, for the mutation runs. *)

\* Bootstrap keys are seeded with the organization only; what is there is not looked for.
MissingOnFirstStart(seed) ==
    IF seed # "security" THEN {seed} \ seeded
    ELSE IF "organization" \in seeded THEN {} ELSE {"organization"} \cup Bootstrap
MissingAlways(seed) ==
    IF seed # "security" THEN {seed}
    ELSE {"organization"} \cup {s \in Bootstrap : ~Accepted(s)}
\* An insert of a row that exists is skipped.
ClashesNever(p) == FALSE
\* The use of a key writes its whole row.
UsedWhole(key) == [active |-> TRUE, hash |-> "bcrypt"]
\* The slug with a number is not looked for.
FirstFreeUnchecked(b) == {IF b \in Taken THEN Numbered[b][2] ELSE b}
\* A process that stops keeps its request.
DownKeeping(p) ==
    /\ proc' = [proc EXCEPT ![p] = "down"]
    /\ missing' = [missing EXCEPT ![p] = Null]
    /\ UNCHANGED request

-------------------------------------------------------------------------------
(* AgentStore.__init__ *)

Start(p) ==
    /\ proc[p] = "down"
    /\ proc' = [proc EXCEPT ![p] = "security"]
    /\ UNCHANGED <<missing, seeded, keys, home, accounts, request, crashes, added>>

After(seed) ==
    CASE seed = "security" -> "plans" [] seed = "plans" -> "templates"
      [] seed = "templates" -> "partner" [] seed = "partner" -> "serving"

\* What a seed would insert.  The plans, and the templates, are always inserted together.
Missing(seed) ==
    IF seed # "security" THEN {seed} \ seeded
    ELSE ({"organization"} \ seeded) \cup {s \in Bootstrap : ~Accepted(s)}

Look(p) ==
    /\ proc[p] \in Seeds /\ missing[p] = Null
    /\ missing' = [missing EXCEPT ![p] = Missing(proc[p])]
    /\ UNCHANGED <<proc, seeded, keys, home, accounts, request, crashes, added>>

\* A primary key refuses the transaction.  No two bcrypt hashes of a secret are equal.
Clashes(p) == missing[p] \cap seeded # {}

Seed(p) ==
    /\ missing[p] # Null /\ ~Clashes(p)
    /\ seeded' = seeded \cup (missing[p] \cap Items)
    /\ home' = IF "organization" \in missing[p] THEN HomeSlug ELSE home
    /\ keys' = [s \in Secrets |-> IF s \in missing[p] THEN Append(keys[s], NewKey) ELSE keys[s]]
    /\ proc' = [proc EXCEPT ![p] = After(@)]
    /\ missing' = [missing EXCEPT ![p] = Null]
    /\ UNCHANGED <<accounts, request, crashes, added>>

Down(p) ==
    /\ proc' = [proc EXCEPT ![p] = "down"]
    /\ missing' = [missing EXCEPT ![p] = Null]
    /\ request' = [request EXCEPT ![p] = Null]

\* The exception of a refused seed ends the process.
Fail(p) ==
    /\ missing[p] # Null /\ Clashes(p)
    /\ Down(p)
    /\ UNCHANGED <<seeded, keys, home, accounts, crashes, added>>

Crash(p) ==
    /\ proc[p] # "down" /\ crashes < MaxCrashes
    /\ crashes' = crashes + 1
    /\ Down(p)
    /\ UNCHANGED <<seeded, keys, home, accounts, added>>

-------------------------------------------------------------------------------
(* require_scope *)

\* A SHA-256 row is found first, else any row that verifies.
Find(p, s) ==
    /\ proc[p] = "serving" /\ request[p] = Null
    /\ \E i \in ActiveRows(s) :
         /\ keys[s][i].hash = "sha256" \/ \A j \in ActiveRows(s) : keys[s][j].hash = "bcrypt"
         /\ request' = [request EXCEPT ![p] = [at |-> "found", secret |-> s, row |-> i]]
    /\ UNCHANGED <<proc, missing, seeded, keys, home, accounts, crashes, added>>

\* Row i of s becomes key.
Replace(s, i, key) == keys' = [keys EXCEPT ![s] = [keys[s] EXCEPT ![i] = key]]

\* The UPDATE sets the new hash and the time of the use, whatever else has changed.
Used(key) == [active |-> key.active, hash |-> "bcrypt"]

Admit(p) ==
    LET w == request[p]
    IN  /\ w # Null /\ w.at = "found"
        /\ Replace(w.secret, w.row, Used(keys[w.secret][w.row]))
        /\ request' = [request EXCEPT ![p] = [at |-> "admitted"]]
        /\ UNCHANGED <<proc, missing, seeded, home, accounts, crashes, added>>

Admitted(p) == request[p] # Null /\ request[p].at = "admitted"

\* The request is answered: read only, refused (404, 409, 422) or done.
End(p) == request' = [request EXCEPT ![p] = Null]

Answer(p) ==
    /\ request[p] # Null /\ request[p].at # "found"
    /\ End(p)
    /\ UNCHANGED <<proc, missing, seeded, keys, home, accounts, crashes, added>>

(* create_api_key and delete_api_key: every key is the default organization's *)

CreateKey(p, s) ==
    /\ Admitted(p) /\ s \in Drawn /\ keys[s] = <<>>
    /\ keys' = [keys EXCEPT ![s] = <<NewKey>>]
    /\ End(p)
    /\ UNCHANGED <<proc, missing, seeded, home, accounts, crashes, added>>

Revoked == {row \in UNION {{s} \X DOMAIN keys[s] : s \in Secrets} : ~keys[row[1]][row[2]].active}

DeleteKey(p, s) ==
    /\ Admitted(p) /\ Cardinality(Revoked) < MaxRevoked
    /\ \E i \in DOMAIN keys[s] :
         Replace(s, i, [active |-> FALSE, hash |-> keys[s][i].hash])
    /\ End(p)
    /\ UNCHANGED <<proc, missing, seeded, home, accounts, crashes, added>>

(* create_partner_account and update_organization *)

\* _generate_unique_slug: b, b-2, b-3, ... until one is found that no organization has.
FirstFree(b) ==
    {Numbered[b][n] : n \in {n \in DOMAIN Numbered[b] :
        Numbered[b][n] \notin Taken /\ \A m \in 1 .. n - 1 : Numbered[b][m] \in Taken}}

\* The others that are about to write a slug learn of w, and w of them.
Overlapping(p, w) ==
    request' = [q \in Processes |->
        IF q = p THEN w
        ELSE IF request[q] # Null /\ request[q].at = "account"
               THEN [at |-> "account", slug |-> request[q].slug, raced |-> TRUE]
               ELSE request[q]]

WritesSlug(q) == request[q] # Null /\ request[q].at \in {"account", "rename"}

ReadSlug(p, b) ==
    /\ Admitted(p) /\ "partner" \in seeded
    /\ \E slug \in FirstFree(b) :
         Overlapping(p, [at |-> "account", slug |-> slug,
                         raced |-> \E q \in Processes \ {p} : WritesSlug(q)])
    /\ UNCHANGED <<proc, missing, seeded, keys, home, accounts, crashes, added>>

\* Refused by the unique slug (500) when it has been taken: then only Answer.
CreateAccount(p) ==
    LET w == request[p]
    IN  /\ w # Null /\ w.at = "account" /\ w.slug \notin Taken
        /\ Cardinality(accounts) < MaxAccounts
        /\ accounts' = accounts \cup {w.slug}
        /\ End(p)
        /\ UNCHANGED <<proc, missing, seeded, keys, home, crashes, added>>

ReadOrganization(p, slug) ==
    /\ Admitted(p) /\ home # Null
    /\ Overlapping(p, [at |-> "rename", slug |-> slug, read |-> home])
    /\ UNCHANGED <<proc, missing, seeded, keys, home, accounts, crashes, added>>

\* No other slug is looked for; the column is written when it differs from the one read.
Rename(p) ==
    LET w == request[p]
    IN  /\ w # Null /\ w.at = "rename"
        /\ (w.slug # w.read => w.slug \notin accounts)
        /\ home' = IF w.slug # w.read THEN w.slug ELSE home
        /\ End(p)
        /\ UNCHANGED <<proc, missing, seeded, keys, accounts, crashes, added>>

-------------------------------------------------------------------------------
Next ==
    \E p \in Processes :
        \/ Start(p) \/ Look(p) \/ Seed(p) \/ Fail(p) \/ Crash(p)
        \/ \E s \in Secrets : Find(p, s) \/ CreateKey(p, s) \/ DeleteKey(p, s)
        \/ Admit(p) \/ Answer(p) \/ CreateAccount(p) \/ Rename(p)
        \/ \E b \in Bases : ReadSlug(p, b)
        \/ \E slug \in Slugs : ReadOrganization(p, slug)

\* The orchestrator restarts what has stopped, and a start runs to its end.
Fairness ==
    \A p \in Processes :
        WF_vars(Start(p)) /\ WF_vars(Look(p)) /\ WF_vars(Seed(p)) /\ WF_vars(Fail(p))

Spec == Init /\ [][Next]_vars /\ Fairness

-------------------------------------------------------------------------------
(* Properties *)

NeverRevoked(s) == \A i \in DOMAIN keys[s] : keys[s][i].active

\* A process that serves finds all it needs: the four items, and every bootstrap key
\* that nobody has revoked is accepted, also when others start or settings have grown.
ServingMeansSeeded ==
    \A p \in Processes : proc[p] = "serving" =>
        /\ seeded = Items /\ home # Null
        /\ \A s \in Bootstrap : NeverRevoked(s) => Accepted(s)

\* However many processes start at once, a bootstrap key has one row until a row of it
\* is revoked: the organization in the same transaction lets one start win.  A key added
\* to the settings later has no such guard.
NoDoubleKeys ==
    \A s \in Bootstrap \ added : NeverRevoked(s) => Len(keys[s]) <= 1

\* A slug found free is still free at the commit when no other request that writes slugs
\* overlaps, also where the number added to one name makes another.
SlugStillFree ==
    \A p \in Processes : request[p] # Null /\ request[p].at = "account" =>
        request[p].raced \/ request[p].slug \notin Taken

\* A key of the API is refused for good once revoked, even when its use was being
\* committed or processes seed meanwhile.
RevokedForGood ==
    [][\A s \in Drawn : keys[s] # <<>> /\ ~Accepted(s) => ~Accepted(s)']_vars

\* However starts overlap and refuse each other, every process comes to serve.
StartsSettle == \A p \in Processes : <>[](proc[p] = "serving")
================================================================================
