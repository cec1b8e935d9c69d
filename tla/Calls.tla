--------------------------------- MODULE Calls ---------------------------------
(***************************************************************************)
(* The calls of the runtime API: create_call, add_call_turn,               *)
(* respond_to_call (speech to text, language model, speech) and            *)
(* complete_call.                                                          *)
(*                                                                         *)
(* A handler reads, then works (a reply takes as long as its providers     *)
(* take), then commits; nothing is locked in between, so the handlers of   *)
(* two replicas interleave at those points.  One that another commits past *)
(* is overtaken; what that does to the call is remembered.                 *)
(***************************************************************************)
EXTENDS Naturals, Sequences, FiniteSets

CONSTANTS
    Replicas,
    Ids,            \* call ids
    Texts,          \* summary texts
    Reported,       \* the outcomes the runtime reports
    HistoryLimit,   \* how many turns a reply is given (6)
    MaxTurns,       \* bound: turns of one call
    Null

Outcomes == {"faq_resolved", "booking_created", "lead_captured", "abandoned",
             "escalated", "failed"}

VARIABLES
    calls,      \* calls[c]: the call row
    summaries,  \* summaries[c]: the text of the call_summaries row
    turns,      \* turns[c]: the call_turns rows in the order of their commits
    told,       \* told[c]: the payload of the last completion committed
    pending,    \* pending[r]: what replica r has read and not committed
    overtaken,  \* history: the replicas whose like on the same call has committed
                \* since they read
    late,       \* history: late[c]: the places of the turns of overtaken handlers
    mixed       \* history: the calls whose last completion was overtaken

vars == <<calls, summaries, turns, told, pending, overtaken, late, mixed>>

Call == [status : {"active", "completed", "failed", "escalated"},
         outcome : Outcomes \cup {Null}]

\* A turn keeps the indices of the turns its reply was given (respond_to_call), or
\* Null when the runtime reported it (add_call_turn), and as history its replica.
Turn == [index : 0..MaxTurns, history : (SUBSET (0..MaxTurns)) \cup {Null}, by : Replicas]

Payload == [outcome : Reported, text : Texts]

\* An UPDATE sets the columns whose value differs from the one loaded.
Columns == {"status", "outcome", "text"}

\* What is waiting for its commit: a new call, a new turn, numbered and perhaps still
\* without its history, or a completion with the columns it sets and whether it has
\* found a summary row.
Pending ==
    [kind : {"create"}, call : Ids]
        \cup [kind : {"turn"}, call : Ids, turn : Turn, recalling : BOOLEAN]
        \cup [kind : {"complete"}, call : Ids, payload : Payload,
              columns : SUBSET Columns, summarised : BOOLEAN]

ASSUME CallsAssumption ==
    /\ HistoryLimit \in Nat
    /\ MaxTurns \in Nat
    /\ Reported \subseteq Outcomes
    /\ Null \notin Call /\ Null \notin Texts /\ Null \notin Payload
    /\ Null \notin Pending /\ Null \notin Outcomes

TypeOK ==
    /\ calls \in [Ids -> Call \cup {Null}]
    /\ summaries \in [Ids -> Texts \cup {Null}]
    /\ turns \in [Ids -> Seq(Turn)]
    /\ told \in [Ids -> Payload \cup {Null}]
    /\ pending \in [Replicas -> Pending \cup {Null}]
    /\ overtaken \in SUBSET Replicas
    /\ late \in [Ids -> SUBSET Nat]
    /\ mixed \in SUBSET Ids

Init ==
    /\ calls = [c \in Ids |-> Null]
    /\ summaries = [c \in Ids |-> Null]
    /\ turns = [c \in Ids |-> <<>>]
    /\ told = [c \in Ids |-> Null]
    /\ pending = [r \in Replicas |-> Null]
    /\ overtaken = {} /\ late = [c \in Ids |-> {}] /\ mixed = {}

\* Variants with a plausible bug, for the mutation runs: turns numbered from one; a
\* history of the oldest turns; the outcome stored as the status; a call left active
\* by the outcomes that are no failure; a completion that keeps the first summary.
NextIndexFromOne(c) == Len(turns[c]) + 1
HistoriesOldest(c) == {{turns[c][i].index : i \in {j \in DOMAIN turns[c] : j <= HistoryLimit}}}
StatusIsOutcome(outcome) == outcome
StatusOfEnded(outcome) == IF outcome \in {"failed", "escalated"} THEN outcome ELSE "active"
SummaryKept(old, w) == IF old = Null THEN w.payload.text ELSE old

-------------------------------------------------------------------------------
(* create_call: any agent of the organization, whatever its status *)
Create(r, c) ==
    /\ pending[r] = Null
    /\ calls[c] = Null
    /\ \A q \in Replicas : pending[q] # Null => pending[q].call # c
    /\ pending' = [pending EXCEPT ![r] = [kind |-> "create", call |-> c]]
    /\ UNCHANGED <<calls, summaries, turns, told, overtaken, late, mixed>>

(* add_call_turn and respond_to_call: the turn is numbered when it is begun, and *)
(* no status is asked for; a reply then reads its history in a second SELECT.    *)
NextIndex(c) == Len(turns[c])

Begin(r, c, recalling) ==
    /\ pending[r] = Null
    /\ calls[c] # Null
    /\ NextIndex(c) < MaxTurns
    /\ pending' = [pending EXCEPT ![r] =
            [kind |-> "turn", call |-> c, recalling |-> recalling,
             turn |-> [index |-> NextIndex(c), history |-> Null, by |-> r]]]
    /\ UNCHANGED <<calls, summaries, turns, told, overtaken, late, mixed>>

AddTurn(r, c) == Begin(r, c, FALSE)

Respond(r, c) == Begin(r, c, TRUE)

\* The turns of the highest indices, at most HistoryLimit of them.
Histories(c) ==
    LET rows == DOMAIN turns[c]
        n    == IF Len(turns[c]) < HistoryLimit THEN Len(turns[c]) ELSE HistoryLimit
    IN  { {turns[c][i].index : i \in S} :
          S \in { T \in SUBSET rows :
                    /\ Cardinality(T) = n
                    /\ \A i \in T, j \in rows \ T : turns[c][j].index <= turns[c][i].index } }

Recall(r) ==
    /\ pending[r] # Null /\ pending[r].kind = "turn" /\ pending[r].recalling
    /\ \E history \in Histories(pending[r].call) :
          pending' = [pending EXCEPT ![r].recalling = FALSE, ![r].turn.history = history]
    /\ UNCHANGED <<calls, summaries, turns, told, overtaken, late, mixed>>

(* complete_call, on a call in any status *)
StatusOf(outcome) == IF outcome \in {"failed", "escalated"} THEN outcome ELSE "completed"

Complete(r, c, p) ==
    /\ pending[r] = Null
    /\ calls[c] # Null
    /\ pending' = [pending EXCEPT ![r] =
            [kind |-> "complete", call |-> c, payload |-> p,
             columns |-> {col \in Columns :
                            \/ col = "status" /\ StatusOf(p.outcome) # calls[c].status
                            \/ col = "outcome" /\ p.outcome # calls[c].outcome
                            \/ col = "text" /\ p.text # summaries[c]},
             summarised |-> summaries[c] # Null]]
    /\ UNCHANGED <<calls, summaries, turns, told, overtaken, late, mixed>>

\* The text the completion leaves in the summary row.
SummaryOf(old, w) == IF "text" \in w.columns THEN w.payload.text ELSE old

-------------------------------------------------------------------------------
(* The end of a handler *)

Leave(r) ==
    /\ pending' = [pending EXCEPT ![r] = Null]
    /\ overtaken' = overtaken \ {r}

\* Two handlers that write the same rows: two turns, or two completions, of one call.
Alike(w, v) == w.call = v.call /\ w.kind = v.kind

\* Replica r commits past those that are about to write the same.
Overtake(r) ==
    /\ pending' = [pending EXCEPT ![r] = Null]
    /\ overtaken' = (overtaken \ {r}) \cup
          {q \in Replicas \ {r} : pending[q] # Null /\ Alike(pending[q], pending[r])}

CommitCreate(r) ==
    /\ pending[r] # Null /\ pending[r].kind = "create"
    /\ calls' = [calls EXCEPT ![pending[r].call] =
            [status |-> "active", outcome |-> Null]]
    /\ Leave(r)
    /\ UNCHANGED <<summaries, turns, told, late, mixed>>

CommitTurn(r) ==
    /\ pending[r] # Null /\ pending[r].kind = "turn" /\ ~pending[r].recalling
    /\ turns' = [turns EXCEPT ![pending[r].call] = Append(@, pending[r].turn)]
    /\ late' = [late EXCEPT ![pending[r].call] =
                   @ \cup IF r \in overtaken THEN {Len(turns[pending[r].call]) + 1} ELSE {}]
    /\ Overtake(r)
    /\ UNCHANGED <<calls, summaries, told, mixed>>

\* The changed columns of the call, the summary and the call.ended event.
CommitComplete(r) ==
    LET w == pending[r]
        c == w.call
        p == w.payload
    IN  /\ w # Null /\ w.kind = "complete"
        /\ w.summarised \/ summaries[c] = Null
        /\ calls' = [calls EXCEPT ![c] =
                [status  |-> IF "status" \in w.columns THEN StatusOf(p.outcome) ELSE @.status,
                 outcome |-> IF "outcome" \in w.columns THEN p.outcome ELSE @.outcome]]
        /\ summaries' = [summaries EXCEPT ![c] = SummaryOf(@, w)]
        /\ told' = [told EXCEPT ![c] = p]
        /\ mixed' = IF r \in overtaken THEN mixed \cup {c} ELSE mixed \ {c}
        /\ Overtake(r)
        /\ UNCHANGED <<turns, late>>

\* A provider fails (502), the summary row turns out to exist (its primary key), a
\* webhook raises, the process stops: nothing is written.
Abandon(r) ==
    /\ pending[r] # Null
    /\ Leave(r)
    /\ UNCHANGED <<calls, summaries, turns, told, late, mixed>>

Next ==
    \E r \in Replicas :
        \/ \E c \in Ids : Create(r, c) \/ AddTurn(r, c) \/ Respond(r, c)
        \/ \E c \in Ids, p \in Payload : Complete(r, c, p)
        \/ Recall(r) \/ CommitCreate(r) \/ CommitTurn(r) \/ CommitComplete(r) \/ Abandon(r)

Spec == Init /\ [][Next]_vars

-------------------------------------------------------------------------------
(* Properties *)

\* A turn is numbered by its place unless another one of the call was committed while
\* it was under way, and a reply was given exactly the turns before it, up to the limit,
\* if this is so of them too.  Whatever overlaps, no replica gives an index twice: one
\* index has at most a turn of each.
TurnsInOrder ==
    \A c \in Ids : \A i \in DOMAIN turns[c] :
        LET t == turns[c][i]
        IN  /\ i \notin late[c] => t.index = i - 1
            /\ t.history # Null /\ late[c] \cap 1..i = {} =>
                 t.history = {k \in 0..MaxTurns : k < t.index /\ k + HistoryLimit >= t.index}
            /\ \A j \in 1..(i - 1) : turns[c][j].by = t.by => turns[c][j].index < t.index

\* Status, outcome and summary of a call all come from the completion its last
\* call.ended event told of, unless another was committed while that one was under way;
\* the next completion sets it right.
CompletionIsWhole ==
    \A c \in Ids \ mixed : told[c] # Null =>
        /\ calls[c].outcome = told[c].outcome
        /\ calls[c].status = StatusOf(told[c].outcome)
        /\ summaries[c] = told[c].text

\* A call is active until its first completion: whatever overlaps, it has a status of
\* its own, an outcome and a summary together or not at all.
EndsTogether ==
    \A c \in Ids :
        /\ calls[c] = Null => summaries[c] = Null /\ turns[c] = <<>>
        /\ calls[c] # Null =>
              /\ calls[c].status = "active" <=> calls[c].outcome = Null
              /\ calls[c].status = "active" <=> summaries[c] = Null

\* A reply is never given a turn that was not committed before its own, and no turn
\* is numbered past those before it, whatever overlaps.
NothingFromTheFuture ==
    \A c \in Ids : \A i \in DOMAIN turns[c] :
        LET earlier == {turns[c][j].index : j \in 1..(i - 1)}
        IN  /\ turns[c][i].index < i
            /\ turns[c][i].history # Null => turns[c][i].history \subseteq earlier
================================================================================
