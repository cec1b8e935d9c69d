------------------------------ MODULE CallsProofs ------------------------------
(***************************************************************************)
(* Theorems about Calls, for any number of replicas, calls, texts and      *)
(* turns.                                                                  *)
(***************************************************************************)
EXTENDS Calls, FiniteSetTheorems, TLAPS

LEMMA Assumptions ==
    /\ HistoryLimit \in Nat /\ MaxTurns \in Nat /\ Reported \subseteq Outcomes
    /\ Null \notin Call /\ Null \notin Texts /\ Null \notin Payload
    /\ Null \notin Pending /\ Null \notin Outcomes
BY CallsAssumption

-------------------------------------------------------------------------------
(* Types *)

LEMMA TypeInit == Init => TypeOK
BY DEF Init, TypeOK

\* What a handler reads has the type of what it is going to commit.
LEMMA NewTurn ==
    ASSUME TypeOK, NEW r \in Replicas, NEW c \in Ids, NextIndex(c) < MaxTurns,
           NEW recalling \in BOOLEAN
    PROVE  [kind |-> "turn", call |-> c, recalling |-> recalling,
            turn |-> [index |-> NextIndex(c), history |-> Null, by |-> r]] \in Pending
<1>1. turns[c] \in Seq(Turn)
    BY DEF TypeOK
<1>2. NextIndex(c) \in 0..MaxTurns
    BY <1>1, Assumptions DEF NextIndex
<1>3. QED
    BY <1>2 DEF Turn, Pending

LEMMA HistoryType ==
    ASSUME TypeOK, NEW c \in Ids, NEW h \in Histories(c)
    PROVE  h \in SUBSET (0..MaxTurns)
<1>1. turns[c] \in Seq(Turn)
    BY DEF TypeOK
<1>2. PICK T \in SUBSET DOMAIN turns[c] : h = {turns[c][i].index : i \in T}
    BY DEF Histories
<1>3. \A i \in DOMAIN turns[c] : turns[c][i] \in Turn
    BY <1>1
<1>4. \A i \in DOMAIN turns[c] : turns[c][i].index \in 0..MaxTurns
    BY <1>3 DEF Turn
<1>5. QED
    BY <1>2, <1>4

LEMMA NewCompletion ==
    ASSUME TypeOK, NEW c \in Ids, NEW p \in Payload, NEW cols \in SUBSET Columns,
           NEW s \in BOOLEAN
    PROVE  [kind |-> "complete", call |-> c, payload |-> p, columns |-> cols,
            summarised |-> s] \in Pending
BY DEF Pending

\* What kind a pending commit is tells its fields.
LEMMA PendingKinds ==
    ASSUME TypeOK, NEW r \in Replicas, pending[r] # Null
    PROVE  /\ pending[r].call \in Ids
           /\ pending[r].kind \in {"create", "turn", "complete"}
           /\ pending[r].kind = "turn" =>
                 pending[r].turn \in Turn /\ pending[r].recalling \in BOOLEAN
           /\ pending[r].kind = "complete" =>
                 pending[r].payload \in Payload /\ pending[r].columns \in SUBSET Columns
BY DEF TypeOK, Pending

LEMMA PayloadFields ==
    ASSUME NEW p \in Payload
    PROVE  /\ p.outcome \in Outcomes /\ p.outcome # Null
           /\ p.text \in Texts /\ p.text # Null
           /\ StatusOf(p.outcome) \in {"completed", "failed", "escalated"}
BY Assumptions DEF Payload, StatusOf

\* A call that is being created is nobody else's; every other handler's call exists.
CreatorsAlone ==
    \A r \in Replicas : pending[r] # Null /\ pending[r].kind = "create" =>
        /\ calls[pending[r].call] = Null
        /\ \A q \in Replicas : pending[q] # Null /\ pending[q].call = pending[r].call => q = r

OthersExist ==
    \A r \in Replicas : pending[r] # Null /\ pending[r].kind # "create" =>
        calls[pending[r].call] # Null

TypeInv == TypeOK /\ CreatorsAlone /\ OthersExist

\* How a handler begins and ends.
LEMMA BeginStep ==
    ASSUME TypeOK, NEW r \in Replicas, NEW w \in Pending,
           pending' = [pending EXCEPT ![r] = w]
    PROVE  /\ pending' \in [Replicas -> Pending \cup {Null}]
           /\ pending'[r] = w /\ w # Null
           /\ \A q \in Replicas \ {r} : pending'[q] = pending[q]
BY Assumptions DEF TypeOK

LEMMA EndStep ==
    ASSUME TypeOK, NEW r \in Replicas, pending' = [pending EXCEPT ![r] = Null]
    PROVE  /\ pending' \in [Replicas -> Pending \cup {Null}]
           /\ pending'[r] = Null
           /\ \A q \in Replicas \ {r} : pending'[q] = pending[q]
BY DEF TypeOK

\* A turn on its way that is given its history by the second SELECT of a reply.
Recalling == [kind : {"turn"}, call : Ids, turn : Turn, recalling : BOOLEAN]

LEMMA GivenHistory ==
    ASSUME NEW w \in Recalling, NEW h \in SUBSET (0..MaxTurns)
    PROVE  LET v == [w EXCEPT !.recalling = FALSE, !.turn.history = h]
           IN  /\ v \in Recalling /\ v.kind = "turn" /\ v.call = w.call
               /\ v.turn.index = w.turn.index /\ v.turn.by = w.turn.by
               /\ v.turn.history = h
<1> DEFINE u == [w.turn EXCEPT !.history = h]
<1>1. u \in Turn /\ u.index = w.turn.index /\ u.by = w.turn.by /\ u.history = h
    BY DEF Turn, Recalling
<1> HIDE DEF u
<1> DEFINE v == [w EXCEPT !.recalling = FALSE, !.turn = u]
<1>2. v \in Recalling
    BY <1>1 DEF Recalling
<1>3. v.kind = "turn" /\ v.call = w.call /\ v.turn = u
    BY <1>1 DEF Recalling
<1> HIDE DEF v
<1>4. v = [w EXCEPT !.recalling = FALSE, !.turn.history = h]
    BY DEF u, v
<1>5. QED
    BY <1>1, <1>2, <1>3, <1>4

\* What the second SELECT of a reply leaves.
LEMMA Recalled ==
    ASSUME TypeOK, NEW r \in Replicas, Recall(r)
    PROVE  LET w == pending[r]
               c == w.call
           IN  /\ w # Null /\ w.kind = "turn" /\ c \in Ids /\ w.turn \in Turn
               /\ pending' \in [Replicas -> Pending \cup {Null}]
               /\ pending'[r] # Null /\ pending'[r].kind = "turn" /\ pending'[r].call = c
               /\ pending'[r].turn.index = w.turn.index /\ pending'[r].turn.by = w.turn.by
               /\ pending'[r].turn.history \in Histories(c)
               /\ \A q \in Replicas \ {r} : pending'[q] = pending[q]
               /\ UNCHANGED <<calls, summaries, turns, told, overtaken, late, mixed>>
<1> DEFINE w == pending[r]
           c == w.call
<1>1. w # Null /\ w.kind = "turn" /\ c \in Ids /\ w.turn \in Turn
    BY PendingKinds DEF Recall
<1>2. PICK h \in Histories(c) :
        pending' = [pending EXCEPT ![r].recalling = FALSE, ![r].turn.history = h]
    BY DEF Recall
<1>3. h \in SUBSET (0..MaxTurns)
    BY <1>1, HistoryType
<1>4. w \in Recalling
    BY <1>1 DEF TypeOK, Pending, Recalling
<1> DEFINE v == [w EXCEPT !.recalling = FALSE, !.turn.history = h]
<1>5. /\ v \in Recalling /\ v.kind = "turn" /\ v.call = c
      /\ v.turn.index = w.turn.index /\ v.turn.by = w.turn.by /\ v.turn.history = h
    BY <1>3, <1>4, GivenHistory
<1>6. pending' = [pending EXCEPT ![r] = v]
    BY <1>2
<1> HIDE DEF v
<1>7. v \in Pending
    BY <1>5 DEF Recalling, Pending
<1>8. pending' \in [Replicas -> Pending \cup {Null}] /\ pending'[r] = v /\ v # Null
      /\ \A q \in Replicas \ {r} : pending'[q] = pending[q]
    BY <1>6, <1>7, BeginStep
<1>9. QED
    BY <1>1, <1>5, <1>8 DEF Recall

\* The rows a completion leaves.
LEMMA CompletedRow ==
    ASSUME TypeInv, NEW r \in Replicas, CommitComplete(r)
    PROVE  LET w == pending[r]
               c == w.call
               p == w.payload
           IN  /\ w # Null /\ w.kind = "complete"
               /\ c \in Ids /\ p \in Payload /\ calls[c] \in Call /\ calls[c] # Null
               /\ calls'[c].status = IF "status" \in w.columns
                                       THEN StatusOf(p.outcome) ELSE calls[c].status
               /\ calls'[c].outcome = IF "outcome" \in w.columns
                                        THEN p.outcome ELSE calls[c].outcome
               /\ calls'[c] \in Call /\ calls'[c] # Null
               /\ \A d \in Ids \ {c} : calls'[d] = calls[d]
               /\ calls' \in [Ids -> Call \cup {Null}]
               /\ summaries' \in [Ids -> Texts \cup {Null}]
               /\ summaries'[c] = SummaryOf(summaries[c], w)
               /\ \A d \in Ids \ {c} : summaries'[d] = summaries[d]
<1> DEFINE w == pending[r]
           c == w.call
           p == w.payload
           row == [status  |-> IF "status" \in w.columns
                                 THEN StatusOf(p.outcome) ELSE calls[c].status,
                   outcome |-> IF "outcome" \in w.columns
                                 THEN p.outcome ELSE calls[c].outcome]
<1>1. w # Null /\ w.kind = "complete" /\ c \in Ids /\ p \in Payload
    BY PendingKinds DEF CommitComplete, TypeInv
<1>2. calls[c] \in Call
    BY <1>1 DEF TypeInv, TypeOK, OthersExist
<1>3. row \in Call
    BY <1>1, <1>2, PayloadFields DEF Call
<1>4. calls' = [calls EXCEPT ![c] = row]
    BY DEF CommitComplete
<1>5. row # Null /\ calls[c] # Null
    BY <1>2, <1>3, Assumptions
<1>6. calls'[c] = row /\ \A d \in Ids \ {c} : calls'[d] = calls[d]
    BY <1>1, <1>4 DEF TypeInv, TypeOK
<1>7. calls' \in [Ids -> Call \cup {Null}]
    BY <1>1, <1>3, <1>4 DEF TypeInv, TypeOK
<1>8. SummaryOf(summaries[c], w) \in Texts \cup {Null}
    BY <1>1, PayloadFields DEF SummaryOf, TypeInv, TypeOK
<1>9. /\ summaries' \in [Ids -> Texts \cup {Null}]
      /\ summaries'[c] = SummaryOf(summaries[c], w)
      /\ \A d \in Ids \ {c} : summaries'[d] = summaries[d]
    BY <1>1, <1>8 DEF CommitComplete, TypeInv, TypeOK
<1>10. QED
    BY <1>1, <1>2, <1>3, <1>5, <1>6, <1>7, <1>9

LEMMA TypeStep == TypeInv /\ [Next]_vars => TypeInv'
<1> SUFFICES ASSUME TypeInv, [Next]_vars
             PROVE  TypeInv'
    OBVIOUS
<1>0. TypeOK /\ CreatorsAlone /\ OthersExist
    BY DEF TypeInv
<1>1. ASSUME NEW r \in Replicas, NEW c \in Ids, Create(r, c)
      PROVE  TypeInv'
    <2> DEFINE w == [kind |-> "create", call |-> c]
    <2>1. w \in Pending /\ w.kind = "create" /\ w.call = c
        BY DEF Pending
    <2>2. pending' = [pending EXCEPT ![r] = w]
        BY <1>1 DEF Create
    <2> HIDE DEF w
    <2>3. /\ pending' \in [Replicas -> Pending \cup {Null}]
          /\ pending'[r] = w /\ w # Null
          /\ \A q \in Replicas \ {r} : pending'[q] = pending[q]
        BY <1>0, <2>1, <2>2, BeginStep
    <2>4. TypeOK'
        BY <1>0, <1>1, <2>3 DEF Create, TypeOK
    <2>5. CreatorsAlone' /\ OthersExist'
        BY <1>0, <1>1, <2>1, <2>3 DEF Create, CreatorsAlone, OthersExist
    <2>6. QED
        BY <2>4, <2>5 DEF TypeInv
<1>2. ASSUME NEW r \in Replicas, NEW c \in Ids, NEW w \in Pending,
             w.kind # "create", w.call = c, calls[c] # Null,
             pending' = [pending EXCEPT ![r] = w],
             UNCHANGED <<calls, summaries, turns, told, overtaken, late, mixed>>
      PROVE  TypeInv'
    <2>1. /\ pending' \in [Replicas -> Pending \cup {Null}]
          /\ pending'[r] = w /\ w # Null
          /\ \A q \in Replicas \ {r} : pending'[q] = pending[q]
        BY <1>0, <1>2, BeginStep
    <2>2. TypeOK'
        BY <1>0, <1>2, <2>1 DEF TypeOK
    <2>3. CreatorsAlone' /\ OthersExist'
        BY <1>0, <1>2, <2>1 DEF CreatorsAlone, OthersExist
    <2>4. QED
        BY <2>2, <2>3 DEF TypeInv
<1>3. ASSUME NEW r \in Replicas, NEW c \in Ids, NEW recalling \in BOOLEAN,
             Begin(r, c, recalling)
      PROVE  TypeInv'
    <2> DEFINE w == [kind |-> "turn", call |-> c, recalling |-> recalling,
                     turn |-> [index |-> NextIndex(c), history |-> Null, by |-> r]]
    <2>1. w \in Pending /\ w.kind # "create" /\ w.call = c
        BY <1>0, <1>3, NewTurn DEF Begin
    <2>2. QED
        BY <1>2, <1>3, <2>1 DEF Begin
<1>4. ASSUME NEW r \in Replicas, NEW c \in Ids, NEW p \in Payload, Complete(r, c, p)
      PROVE  TypeInv'
    <2> DEFINE cols == {col \in Columns :
                            \/ col = "status" /\ StatusOf(p.outcome) # calls[c].status
                            \/ col = "outcome" /\ p.outcome # calls[c].outcome
                            \/ col = "text" /\ p.text # summaries[c]}
               w == [kind |-> "complete", call |-> c, payload |-> p,
                     columns |-> cols, summarised |-> summaries[c] # Null]
    <2>1. w \in Pending /\ w.kind # "create" /\ w.call = c
        BY <1>0, NewCompletion
    <2>2. QED
        BY <1>2, <1>4, <2>1 DEF Complete
<1>5. ASSUME NEW r \in Replicas, CommitCreate(r)
      PROVE  TypeInv'
    <2> DEFINE c == pending[r].call
               row == [status |-> "active", outcome |-> Null]
    <2>1. c \in Ids /\ row \in Call /\ row # Null
        <3>1. c \in Ids /\ row \in Call
            BY <1>0, <1>5, PendingKinds DEF CommitCreate, Call
        <3>2. QED
            BY <3>1, Assumptions
    <2>2. calls' = [calls EXCEPT ![c] = row] /\ UNCHANGED <<summaries, turns, told, late, mixed>>
          /\ overtaken' = overtaken \ {r}
        BY <1>5 DEF CommitCreate, Leave
    <2> HIDE DEF row
    <2>3. /\ pending' \in [Replicas -> Pending \cup {Null}]
          /\ pending'[r] = Null
          /\ \A q \in Replicas \ {r} : pending'[q] = pending[q]
        BY <1>0, <1>5, EndStep DEF CommitCreate, Leave
    <2>4. TypeOK'
        BY <1>0, <2>1, <2>2, <2>3 DEF TypeOK
    <2>5. CreatorsAlone' /\ OthersExist'
        <3>1. \A q \in Replicas \ {r} : pending[q] # Null => pending[q].call # c
            BY <1>0, <1>5 DEF CommitCreate, CreatorsAlone
        <3>2. \A q \in Replicas : pending[q] # Null => pending[q].call \in Ids
            BY <1>0, PendingKinds
        <3>3. calls'[c] = row /\ \A d \in Ids \ {c} : calls'[d] = calls[d]
            BY <1>0, <2>1, <2>2 DEF TypeOK
        <3>4. QED
            BY <1>0, <2>1, <2>3, <3>1, <3>2, <3>3 DEF CreatorsAlone, OthersExist
    <2>6. QED
        BY <2>4, <2>5 DEF TypeInv
<1>6. ASSUME NEW r \in Replicas, CommitTurn(r)
      PROVE  TypeInv'
    <2>1. pending[r].call \in Ids /\ pending[r].turn \in Turn
        BY <1>0, <1>6, PendingKinds DEF CommitTurn
    <2>2. /\ pending' \in [Replicas -> Pending \cup {Null}]
          /\ pending'[r] = Null
          /\ \A q \in Replicas \ {r} : pending'[q] = pending[q]
        BY <1>0, <1>6, EndStep DEF CommitTurn, Overtake
    <2>3. turns' \in [Ids -> Seq(Turn)]
        BY <1>0, <1>6, <2>1 DEF CommitTurn, TypeOK
    <2>4. overtaken' \in SUBSET Replicas /\ late' \in [Ids -> SUBSET Nat]
        <3>1. Len(turns[pending[r].call]) + 1 \in Nat
            BY <1>0, <2>1 DEF TypeOK
        <3>2. QED
            BY <1>0, <1>6, <2>1, <3>1 DEF CommitTurn, Overtake, TypeOK
    <2>5. UNCHANGED <<calls, summaries, told, mixed>>
        BY <1>6 DEF CommitTurn
    <2>6. TypeOK'
        BY <1>0, <2>2, <2>3, <2>4, <2>5 DEF TypeOK
    <2>7. CreatorsAlone' /\ OthersExist'
        BY <1>0, <2>2, <2>5 DEF CreatorsAlone, OthersExist
    <2>8. QED
        BY <2>6, <2>7 DEF TypeInv
<1>7. ASSUME NEW r \in Replicas, CommitComplete(r)
      PROVE  TypeInv'
    <2> DEFINE c == pending[r].call
    <2>1. /\ c \in Ids /\ pending[r].payload \in Payload
          /\ calls' \in [Ids -> Call \cup {Null}]
          /\ summaries' \in [Ids -> Texts \cup {Null}]
          /\ calls[c] # Null /\ calls'[c] # Null
          /\ \A d \in Ids \ {c} : calls'[d] = calls[d]
        BY <1>0, <1>7, CompletedRow, Assumptions
    <2>2. /\ pending' \in [Replicas -> Pending \cup {Null}]
          /\ pending'[r] = Null
          /\ \A q \in Replicas \ {r} : pending'[q] = pending[q]
        BY <1>0, <1>7, EndStep DEF CommitComplete, Overtake
    <2>3. /\ told' \in [Ids -> Payload \cup {Null}] /\ UNCHANGED <<turns, late>>
          /\ overtaken' \in SUBSET Replicas /\ mixed' \in SUBSET Ids
        BY <1>0, <1>7, <2>1 DEF CommitComplete, Overtake, TypeOK
    <2>4. TypeOK'
        BY <1>0, <2>1, <2>2, <2>3 DEF TypeOK
    <2>5. \A q \in Replicas : pending[q] # Null => pending[q].call \in Ids
        BY <1>0, PendingKinds
    <2>6. CreatorsAlone' /\ OthersExist'
        BY <1>0, <2>1, <2>2, <2>5 DEF CreatorsAlone, OthersExist
    <2>7. QED
        BY <2>4, <2>6 DEF TypeInv
<1>8. ASSUME NEW r \in Replicas, Abandon(r)
      PROVE  TypeInv'
    <2>1. /\ pending' \in [Replicas -> Pending \cup {Null}]
          /\ pending'[r] = Null
          /\ \A q \in Replicas \ {r} : pending'[q] = pending[q]
        BY <1>0, <1>8, EndStep DEF Abandon, Leave
    <2>2. QED
        BY <1>0, <1>8, <2>1 DEF Abandon, Leave, TypeInv, TypeOK, CreatorsAlone, OthersExist
<1>9. CASE UNCHANGED vars
    BY <1>0, <1>9 DEF vars, TypeInv, TypeOK, CreatorsAlone, OthersExist
<1>10. ASSUME NEW r \in Replicas, Recall(r)
      PROVE  TypeInv'
    <2>1. /\ pending[r] # Null /\ pending[r].kind = "turn"
          /\ pending' \in [Replicas -> Pending \cup {Null}]
          /\ pending'[r] # Null /\ pending'[r].kind = "turn"
          /\ pending'[r].call = pending[r].call
          /\ \A q \in Replicas \ {r} : pending'[q] = pending[q]
          /\ UNCHANGED <<calls, summaries, turns, told, overtaken, late, mixed>>
        BY <1>0, <1>10, Recalled
    <2>2. TypeOK'
        BY <1>0, <2>1 DEF TypeOK
    <2>3. CreatorsAlone'
        BY <1>0, <2>1 DEF CreatorsAlone
    <2>4. OthersExist'
        BY <1>0, <2>1 DEF OthersExist
    <2>5. QED
        BY <2>2, <2>3, <2>4 DEF TypeInv
<1>11. QED
    BY <1>1, <1>3, <1>4, <1>5, <1>6, <1>7, <1>8, <1>9, <1>10 DEF Next, AddTurn, Respond

\* Every variable of Calls keeps its type.
THEOREM TypeCorrect == Spec => []TypeOK
<1>1. TypeInv => TypeOK
    BY DEF TypeInv
<1>2. Init => TypeInv
    BY TypeInit DEF Init, TypeInv, CreatorsAlone, OthersExist
<1>3. QED
    BY <1>1, <1>2, TypeStep, PTL DEF Spec

-------------------------------------------------------------------------------
(* A call ends as a whole, whatever overlaps *)

\* A completion of a call that has not been completed writes every column.
FirstWritesAll ==
    \A r \in Replicas :
        /\ pending[r] # Null
        /\ pending[r].kind = "complete"
        /\ calls[pending[r].call].outcome = Null
        => pending[r].columns = Columns

EndInv == TypeInv /\ EndsTogether /\ FirstWritesAll

LEMMA EndStepInv == EndInv /\ [Next]_vars => EndInv'
<1> SUFFICES ASSUME EndInv, [Next]_vars
             PROVE  EndInv'
    OBVIOUS
<1>0. TypeInv /\ TypeOK /\ EndsTogether /\ FirstWritesAll /\ TypeInv' /\ TypeOK'
    BY TypeStep DEF EndInv, TypeInv
<1>1. ASSUME UNCHANGED <<calls, summaries, turns>>,
             \A r \in Replicas : \/ pending'[r] = pending[r]
                                 \/ pending'[r] = Null
                                 \/ pending'[r].kind # "complete"
      PROVE  EndInv'
    BY <1>0, <1>1 DEF EndInv, EndsTogether, FirstWritesAll
<1>2. ASSUME NEW r \in Replicas, NEW c \in Ids, Create(r, c)
      PROVE  EndInv'
    BY <1>0, <1>1, <1>2 DEF Create, TypeOK
<1>3. ASSUME NEW r \in Replicas, NEW c \in Ids, NEW recalling \in BOOLEAN,
             Begin(r, c, recalling)
      PROVE  EndInv'
    <2> DEFINE w == [kind |-> "turn", call |-> c, recalling |-> recalling,
                     turn |-> [index |-> NextIndex(c), history |-> Null, by |-> r]]
    <2>1. w.kind = "turn" /\ pending' = [pending EXCEPT ![r] = w]
        BY <1>3 DEF Begin
    <2> HIDE DEF w
    <2>2. QED
        BY <1>0, <1>1, <1>3, <2>1 DEF Begin, TypeOK
<1>4. ASSUME NEW r \in Replicas, NEW c \in Ids, NEW p \in Payload, Complete(r, c, p)
      PROVE  EndInv'
    <2> DEFINE cols == {col \in Columns :
                            \/ col = "status" /\ StatusOf(p.outcome) # calls[c].status
                            \/ col = "outcome" /\ p.outcome # calls[c].outcome
                            \/ col = "text" /\ p.text # summaries[c]}
               w == [kind |-> "complete", call |-> c, payload |-> p,
                     columns |-> cols, summarised |-> summaries[c] # Null]
    <2>1. /\ w.call = c /\ w.columns = cols
          /\ pending' = [pending EXCEPT ![r] = w]
          /\ UNCHANGED <<calls, summaries, turns>>
          /\ calls[c] # Null
        BY <1>4 DEF Complete
    <2>2. calls[c].outcome = Null => cols = Columns
        BY <1>0, <2>1, PayloadFields DEF EndsTogether, Columns
    <2> HIDE DEF w, cols
    <2>3. /\ pending'[r] = w
          /\ \A q \in Replicas \ {r} : pending'[q] = pending[q]
        BY <1>0, <2>1 DEF TypeOK
    <2>4. QED
        BY <1>0, <2>1, <2>2, <2>3 DEF EndInv, EndsTogether, FirstWritesAll
<1>5. ASSUME NEW r \in Replicas, CommitCreate(r)
      PROVE  EndInv'
    <2> DEFINE c == pending[r].call
               row == [status |-> "active", outcome |-> Null]
    <2>1. /\ c \in Ids /\ calls[c] = Null
          /\ row.status = "active" /\ row.outcome = Null /\ row \in Call
          /\ calls' = [calls EXCEPT ![c] = row]
          /\ \A q \in Replicas \ {r} : pending[q] # Null => pending[q].call # c
        BY <1>0, <1>5, PendingKinds DEF CommitCreate, TypeInv, CreatorsAlone, Call
    <2>2. pending'[r] = Null /\ \A q \in Replicas \ {r} : pending'[q] = pending[q]
        BY <1>0, <1>5, EndStep DEF CommitCreate, Leave
    <2> HIDE DEF row
    <2>3. calls'[c] = row /\ \A d \in Ids \ {c} : calls'[d] = calls[d]
        BY <1>0, <2>1 DEF TypeOK
    <2>4. row # Null
        BY <2>1, Assumptions
    <2>5. EndsTogether'
        BY <1>0, <1>5, <2>1, <2>3, <2>4 DEF CommitCreate, EndsTogether
    <2>6. \A q \in Replicas : pending[q] # Null => pending[q].call \in Ids
        BY <1>0, PendingKinds
    <2>7. FirstWritesAll'
        BY <1>0, <2>1, <2>2, <2>3, <2>6 DEF FirstWritesAll
    <2>8. QED
        BY <1>0, <2>5, <2>7 DEF EndInv
<1>6. ASSUME NEW r \in Replicas, CommitTurn(r)
      PROVE  EndInv'
    <2>1. /\ pending[r].call \in Ids /\ calls[pending[r].call] # Null
          /\ UNCHANGED <<calls, summaries>>
          /\ \A d \in Ids \ {pending[r].call} : turns'[d] = turns[d]
        BY <1>0, <1>6, PendingKinds DEF CommitTurn, TypeInv, OthersExist, TypeOK
    <2>2. pending'[r] = Null /\ \A q \in Replicas \ {r} : pending'[q] = pending[q]
        BY <1>0, <1>6, EndStep DEF CommitTurn, Overtake
    <2>3. QED
        BY <1>0, <2>1, <2>2 DEF EndInv, EndsTogether, FirstWritesAll
<1>7. ASSUME NEW r \in Replicas, CommitComplete(r)
      PROVE  EndInv'
    <2> DEFINE w == pending[r]
               c == w.call
               p == w.payload
    <2>1. /\ w # Null /\ w.kind = "complete" /\ c \in Ids /\ p \in Payload
          /\ calls[c] \in Call /\ calls[c] # Null
        BY <1>0, <1>7, CompletedRow
    <2>2. /\ calls'[c].status = IF "status" \in w.columns
                                  THEN StatusOf(p.outcome) ELSE calls[c].status
          /\ calls'[c].outcome = IF "outcome" \in w.columns
                                   THEN p.outcome ELSE calls[c].outcome
          /\ summaries'[c] = SummaryOf(summaries[c], w)
          /\ calls'[c] # Null
          /\ \A d \in Ids \ {c} : calls'[d] = calls[d] /\ summaries'[d] = summaries[d]
        BY <1>0, <1>7, CompletedRow
    <2>3. /\ p.outcome # Null /\ p.text # Null /\ StatusOf(p.outcome) # "active"
        BY <2>1, PayloadFields
    <2>4. calls[c].outcome = Null => w.columns = Columns
        BY <1>0, <2>1 DEF FirstWritesAll
    <2>5. /\ calls'[c].status # "active" /\ calls'[c].outcome # Null
          /\ summaries'[c] # Null
        BY <1>0, <2>1, <2>2, <2>3, <2>4 DEF EndsTogether, SummaryOf, Columns
    <2>6. EndsTogether'
        BY <1>0, <1>7, <2>1, <2>2, <2>5 DEF EndsTogether, CommitComplete
    <2>7. \A q \in Replicas : pending[q] # Null => pending[q].call \in Ids
        BY <1>0, PendingKinds
    <2>8. pending'[r] = Null /\ \A q \in Replicas \ {r} : pending'[q] = pending[q]
        BY <1>0, <1>7, EndStep DEF CommitComplete, Overtake
    <2>9. FirstWritesAll'
        BY <1>0, <2>2, <2>5, <2>7, <2>8 DEF FirstWritesAll
    <2>10. QED
        BY <1>0, <2>6, <2>9 DEF EndInv
<1>8. ASSUME NEW r \in Replicas, Abandon(r)
      PROVE  EndInv'
    BY <1>0, <1>1, <1>8, EndStep DEF Abandon, Leave
<1>9. CASE UNCHANGED vars
    BY <1>0, <1>1, <1>9 DEF vars
<1>10. ASSUME NEW r \in Replicas, Recall(r)
      PROVE  EndInv'
    BY <1>0, <1>1, <1>10, Recalled
<1>11. QED
    BY <1>2, <1>3, <1>4, <1>5, <1>6, <1>7, <1>8, <1>9, <1>10 DEF Next, AddTurn, Respond

LEMMA EndInit == Init => EndInv
BY TypeInit DEF Init, TypeInv, CreatorsAlone, OthersExist, EndInv, EndsTogether, FirstWritesAll

\* Status, outcome and summary of a call appear together, however many replicas
\* complete it at once.
THEOREM CallsEndTogether == Spec => []EndsTogether
<1>1. EndInv => EndsTogether
    BY DEF EndInv
<1>2. QED
    BY <1>1, EndInit, EndStepInv, PTL DEF Spec

-------------------------------------------------------------------------------
(* Turns *)

IndexesOf(c) == {turns[c][i].index : i \in DOMAIN turns[c]}

\* A turn on its way is numbered no further than the turns committed, and was given
\* only committed ones.
PendingNotAhead ==
    \A r \in Replicas : pending[r] # Null /\ pending[r].kind = "turn" =>
        /\ pending[r].turn.index <= Len(turns[pending[r].call])
        /\ pending[r].turn.history # Null =>
              pending[r].turn.history \subseteq IndexesOf(pending[r].call)

FutureInv == TypeInv /\ NothingFromTheFuture /\ PendingNotAhead

\* What a commit of a turn leaves.
LEMMA TurnAdded ==
    ASSUME TypeOK, NEW r \in Replicas, CommitTurn(r)
    PROVE  LET c == pending[r].call
               t == pending[r].turn
           IN  /\ pending[r] # Null /\ pending[r].kind = "turn"
               /\ c \in Ids /\ t \in Turn /\ turns[c] \in Seq(Turn)
               /\ turns'[c] \in Seq(Turn)
               /\ Len(turns'[c]) = Len(turns[c]) + 1
               /\ \A i \in DOMAIN turns[c] : turns'[c][i] = turns[c][i]
               /\ turns'[c][Len(turns[c]) + 1] = t
               /\ \A d \in Ids \ {c} : turns'[d] = turns[d]
               /\ UNCHANGED <<calls, summaries, told, mixed>>
               /\ pending'[r] = Null
               /\ \A q \in Replicas \ {r} : pending'[q] = pending[q]
<1> DEFINE c == pending[r].call
           t == pending[r].turn
<1>1. pending[r] # Null /\ pending[r].kind = "turn" /\ c \in Ids /\ t \in Turn
    BY PendingKinds DEF CommitTurn
<1>2. /\ turns'[c] = Append(turns[c], t)
      /\ \A d \in Ids \ {c} : turns'[d] = turns[d]
      /\ turns[c] \in Seq(Turn)
    BY <1>1 DEF CommitTurn, TypeOK
<1>3. /\ turns'[c] \in Seq(Turn)
      /\ Len(turns'[c]) = Len(turns[c]) + 1
      /\ \A i \in DOMAIN turns[c] : turns'[c][i] = turns[c][i]
      /\ turns'[c][Len(turns[c]) + 1] = t
    <2> HIDE DEF c, t
    <2>1. QED
        BY <1>1, <1>2
<1>4. pending'[r] = Null /\ \A q \in Replicas \ {r} : pending'[q] = pending[q]
    BY EndStep DEF CommitTurn, Overtake
<1>5. QED
    BY <1>1, <1>2, <1>3, <1>4 DEF CommitTurn

\* What a handler that numbers a turn leaves.
LEMMA TurnBegun ==
    ASSUME TypeOK, NEW r \in Replicas, NEW c \in Ids, NEW recalling \in BOOLEAN,
           Begin(r, c, recalling)
    PROVE  /\ pending[r] = Null /\ calls[c] # Null
           /\ pending'[r].kind = "turn" /\ pending'[r].call = c
           /\ pending'[r].turn.index = Len(turns[c]) /\ pending'[r].turn.history = Null
           /\ pending'[r].turn.by = r
           /\ \A q \in Replicas \ {r} : pending'[q] = pending[q]
           /\ UNCHANGED <<calls, summaries, turns, told, overtaken, late, mixed>>
<1> DEFINE w == [kind |-> "turn", call |-> c, recalling |-> recalling,
                 turn |-> [index |-> NextIndex(c), history |-> Null, by |-> r]]
<1>1. /\ w.kind = "turn" /\ w.call = c
      /\ w.turn.index = Len(turns[c]) /\ w.turn.history = Null /\ w.turn.by = r
    BY DEF NextIndex
<1>2. pending' = [pending EXCEPT ![r] = w]
    BY DEF Begin
<1> HIDE DEF w
<1>3. pending'[r] = w /\ \A q \in Replicas \ {r} : pending'[q] = pending[q]
    BY <1>2 DEF TypeOK
<1>4. QED
    BY <1>1, <1>3 DEF Begin

\* A reply's history is made of turns of its call.
LEMMA HistoryCommitted ==
    ASSUME NEW c \in Ids, NEW h \in Histories(c)
    PROVE  h \subseteq IndexesOf(c)
BY DEF Histories, IndexesOf

LEMMA FutureStep == FutureInv /\ [Next]_vars => FutureInv'
<1> SUFFICES ASSUME FutureInv, [Next]_vars
             PROVE  FutureInv'
    OBVIOUS
<1>0. /\ TypeInv /\ TypeOK /\ NothingFromTheFuture /\ PendingNotAhead
      /\ TypeInv' /\ TypeOK'
    BY TypeStep DEF FutureInv, TypeInv
<1>1. ASSUME UNCHANGED turns,
             \A r \in Replicas : \/ pending'[r] = pending[r]
                                 \/ pending'[r] = Null
                                 \/ pending'[r].kind # "turn"
      PROVE  FutureInv'
    BY <1>0, <1>1 DEF FutureInv, NothingFromTheFuture, PendingNotAhead, IndexesOf
<1>2. ASSUME NEW r \in Replicas, NEW c \in Ids, Create(r, c)
      PROVE  FutureInv'
    BY <1>0, <1>1, <1>2 DEF Create, TypeOK
<1>3. ASSUME NEW r \in Replicas, NEW c \in Ids, NEW p \in Payload, Complete(r, c, p)
      PROVE  FutureInv'
    BY <1>0, <1>1, <1>3 DEF Complete, TypeOK
<1>4. ASSUME NEW r \in Replicas, NEW c \in Ids, NEW recalling \in BOOLEAN,
             Begin(r, c, recalling)
      PROVE  FutureInv'
    <2>1. /\ pending'[r].call = c
          /\ pending'[r].turn.index = Len(turns[c]) /\ pending'[r].turn.history = Null
          /\ \A q \in Replicas \ {r} : pending'[q] = pending[q]
          /\ UNCHANGED turns
        BY <1>0, <1>4, TurnBegun
    <2>2. Len(turns[c]) \in Nat
        BY <1>0 DEF TypeOK
    <2>3. PendingNotAhead'
        BY <1>0, <2>1, <2>2 DEF PendingNotAhead, IndexesOf
    <2>4. QED
        BY <1>0, <2>1, <2>3 DEF FutureInv, NothingFromTheFuture
<1>5. ASSUME NEW r \in Replicas, CommitCreate(r) \/ CommitComplete(r) \/ Abandon(r)
      PROVE  FutureInv'
    BY <1>0, <1>1, <1>5, EndStep DEF CommitCreate, CommitComplete, Abandon, Leave, Overtake
<1>6. ASSUME NEW r \in Replicas, CommitTurn(r)
      PROVE  FutureInv'
    <2> DEFINE c == pending[r].call
               t == pending[r].turn
               n == Len(turns[c])
    <2>1. /\ pending[r] # Null /\ pending[r].kind = "turn"
          /\ c \in Ids /\ t \in Turn /\ turns[c] \in Seq(Turn)
          /\ turns'[c] \in Seq(Turn) /\ Len(turns'[c]) = n + 1
          /\ \A i \in DOMAIN turns[c] : turns'[c][i] = turns[c][i]
          /\ turns'[c][n + 1] = t
          /\ \A d \in Ids \ {c} : turns'[d] = turns[d]
          /\ pending'[r] = Null
          /\ \A q \in Replicas \ {r} : pending'[q] = pending[q]
        BY <1>0, <1>6, TurnAdded
    <2>2. n \in Nat /\ DOMAIN turns[c] = 1..n /\ DOMAIN turns'[c] = 1..(n + 1)
        BY <2>1
    <2>1a. \A i \in DOMAIN turns[c] : turns'[c][i] = turns[c][i]
        BY <2>1
    <2>2a. n \in Nat
        BY <2>2
    <2>3. t.index <= n /\ t.index \in Nat /\ (t.history # Null => t.history \subseteq IndexesOf(c))
        BY <1>0, <2>1 DEF PendingNotAhead, Turn
    <2> HIDE DEF c, t, n
    <2>4. ASSUME NEW i \in DOMAIN turns'[c]
          PROVE  LET earlier == {turns'[c][j].index : j \in 1..(i - 1)}
                 IN  /\ turns'[c][i].index < i
                     /\ turns'[c][i].history # Null => turns'[c][i].history \subseteq earlier
        <3>1. CASE i = n + 1
            <4>1. {turns'[c][j].index : j \in 1..(i - 1)} = IndexesOf(c)
                BY <2>1, <2>2, <3>1 DEF IndexesOf
            <4>2. QED
                BY <2>1, <2>2, <2>3, <3>1, <4>1
        <3>2. CASE i \in 1..n
            <4>0a. \A j \in 1..n : turns'[c][j] = turns[c][j]
                BY <2>1a, <2>2
            <4>0b. \A j \in 1..(i - 1) : j \in 1..n
                BY <2>2a, <3>2
            <4>0. \A j \in 1..(i - 1) : turns'[c][j] = turns[c][j]
                BY <4>0a, <4>0b
            <4>1. {turns'[c][j].index : j \in 1..(i - 1)} = {turns[c][j].index : j \in 1..(i - 1)}
                BY <4>0
            <4>2. QED
                BY <1>0, <2>1, <2>2, <3>2, <4>1 DEF NothingFromTheFuture
        <3>3. QED
            BY <2>2, <2>4, <3>1, <3>2
    <2>5. NothingFromTheFuture'
        BY <1>0, <2>1, <2>4 DEF NothingFromTheFuture
    <2>6. IndexesOf(c) \subseteq {turns'[c][i].index : i \in DOMAIN turns'[c]}
        <3>1. \A i \in DOMAIN turns[c] :
                i \in DOMAIN turns'[c] /\ turns'[c][i].index = turns[c][i].index
            BY <2>1, <2>2
        <3>2. QED
            BY <3>1 DEF IndexesOf
    <2>7. ASSUME NEW q \in Replicas, pending'[q] # Null, pending'[q].kind = "turn"
          PROVE  /\ pending'[q].turn.index <= Len(turns'[pending'[q].call])
                 /\ pending'[q].turn.history # Null =>
                      pending'[q].turn.history \subseteq
                        {turns'[pending[q].call][i].index : i \in DOMAIN turns'[pending[q].call]}
        <3>1. q # r /\ pending'[q] = pending[q]
            BY <2>1, <2>7
        <3>2. /\ pending[q].call \in Ids /\ pending[q].turn \in Turn
              /\ pending[q].turn.index \in Nat
            BY <1>0, <2>7, <3>1, PendingKinds DEF Turn
        <3>3. CASE pending[q].call = c
            BY <1>0, <2>1, <2>2, <2>6, <2>7, <3>1, <3>2, <3>3 DEF PendingNotAhead
        <3>4. CASE pending[q].call # c
            BY <1>0, <2>1, <2>7, <3>1, <3>2, <3>4 DEF PendingNotAhead, IndexesOf
        <3>5. QED
            BY <3>3, <3>4
    <2>8. PendingNotAhead'
        BY <2>1, <2>7 DEF PendingNotAhead, IndexesOf
    <2>9. QED
        BY <1>0, <2>5, <2>8 DEF FutureInv
<1>7. CASE UNCHANGED vars
    BY <1>0, <1>1, <1>7 DEF vars
<1>8. ASSUME NEW r \in Replicas, Recall(r)
      PROVE  FutureInv'
    <2>1. PendingNotAhead'
        BY <1>0, <1>8, Recalled, HistoryCommitted DEF PendingNotAhead, IndexesOf
    <2>2. QED
        BY <1>0, <1>8, <2>1, Recalled DEF FutureInv, NothingFromTheFuture
<1>9. QED
    BY <1>2, <1>3, <1>4, <1>5, <1>6, <1>7, <1>8 DEF Next, AddTurn, Respond

LEMMA FutureInit == Init => FutureInv
BY TypeInit
DEF Init, TypeInv, CreatorsAlone, OthersExist, FutureInv, NothingFromTheFuture, PendingNotAhead

\* A reply was given only turns committed before its own, and no index is ahead of
\* its place, however many replicas add turns at once.
THEOREM NoTurnFromTheFuture == Spec => []NothingFromTheFuture
<1>1. FutureInv => NothingFromTheFuture
    BY DEF FutureInv
<1>2. QED
    BY <1>1, FutureInit, FutureStep, PTL DEF Spec

-------------------------------------------------------------------------------
(* Handlers that were not overtaken *)

\* The turns a reply numbered k is to be given.
Latest(k) == {j \in 0..MaxTurns : j < k /\ j + HistoryLimit >= k}

\* Of turns numbered in order, those of the highest indices are the latest.
LEMMA HistoryIsLatest ==
    ASSUME TypeOK, NEW c \in Ids, NEW h \in Histories(c),
           \A i \in DOMAIN turns[c] : turns[c][i].index = i - 1
    PROVE  h = Latest(Len(turns[c]))
<1> DEFINE L == Len(turns[c])
           n == IF L < HistoryLimit THEN L ELSE HistoryLimit
           rows == DOMAIN turns[c]
           U == (L - n + 1)..L
<1>1. turns[c] \in Seq(Turn) /\ L \in Nat /\ rows = 1..L
    BY DEF TypeOK
<1>2. n \in Nat /\ n <= L /\ (n = L \/ n = HistoryLimit) /\ (n = L => L <= HistoryLimit)
    BY <1>1, Assumptions
<1>3. PICK T \in SUBSET rows :
        /\ h = {turns[c][i].index : i \in T}
        /\ Cardinality(T) = n
        /\ \A i \in T, j \in rows \ T : turns[c][j].index <= turns[c][i].index
    BY DEF Histories
<1>4. L <= MaxTurns + 1
    <2>1. CASE L = 0
        BY <2>1, Assumptions
    <2>2. CASE L # 0
        <3>1. turns[c][L] \in Turn /\ turns[c][L].index = L - 1
            BY <1>1, <2>2
        <3>2. QED
            BY <1>1, <3>1, Assumptions DEF Turn
    <2>3. QED
        BY <2>1, <2>2
<1> HIDE DEF n, L
<1>5. IsFiniteSet(U) /\ Cardinality(U) = n
    BY <1>1, <1>2, FS_Interval
<1>6. IsFiniteSet(rows)
    BY <1>1, FS_Interval
<1>7. IsFiniteSet(T)
    BY <1>3, <1>6, FS_Subset
<1>8. T \subseteq U \/ U \subseteq T
    <2>1. SUFFICES ASSUME NEW i \in T, i \notin U, NEW u \in U, u \notin T
                   PROVE  FALSE
        OBVIOUS
    <2>2. i \in 1..L /\ i <= L - n
        BY <1>1, <1>2, <1>3, <2>1
    <2>3. u \in rows \ T /\ u > L - n
        BY <1>1, <1>2, <2>1
    <2>4. turns[c][u].index <= turns[c][i].index
        BY <1>3, <2>3
    <2>5. QED
        BY <1>1, <1>2, <2>2, <2>3, <2>4
<1>9. T = U
    BY <1>3, <1>5, <1>7, <1>8, FS_Subset
<1>10. h = {i - 1 : i \in U}
    BY <1>1, <1>2, <1>3, <1>9
<1>11. {i - 1 : i \in U} = Latest(L)
    <2>1. ASSUME NEW i \in U
          PROVE  i - 1 \in Latest(L)
        BY <1>1, <1>2, <1>4, Assumptions DEF Latest
    <2>2. ASSUME NEW j \in Latest(L)
          PROVE  j + 1 \in U /\ j = (j + 1) - 1
        BY <1>1, <1>2, Assumptions DEF Latest
    <2>3. QED
        BY <2>1, <2>2
<1>12. QED
    BY <1>10, <1>11 DEF L

\* What a handler has read still holds.
Holds(w) ==
    /\ w.kind = "turn" =>
          /\ w.turn.index = Len(turns[w.call])
          /\ w.turn.history # Null /\ late[w.call] = {} =>
               w.turn.history = Latest(Len(turns[w.call]))
    /\ w.kind = "complete" =>
          /\ "status" \in w.columns \/ calls[w.call].status = StatusOf(w.payload.outcome)
          /\ "outcome" \in w.columns \/ calls[w.call].outcome = w.payload.outcome
          /\ "text" \in w.columns \/ summaries[w.call] = w.payload.text

ReadsHold == \A r \in Replicas \ overtaken : pending[r] # Null => Holds(pending[r])

\* The turn a replica is at is its own and is numbered past those it has committed.
OwnIndex ==
    \A r \in Replicas : pending[r] # Null /\ pending[r].kind = "turn" =>
        /\ pending[r].turn.by = r
        /\ \A j \in DOMAIN turns[pending[r].call] :
              turns[pending[r].call][j].by = r =>
                turns[pending[r].call][j].index < pending[r].turn.index

LateBounded == \A c \in Ids : late[c] \subseteq DOMAIN turns[c]

ToldExist == \A c \in Ids : told[c] # Null => calls[c] # Null

ReadInv ==
    /\ FutureInv /\ ReadsHold /\ OwnIndex /\ LateBounded /\ ToldExist
    /\ TurnsInOrder /\ CompletionIsWhole

LEMMA ReadStep == ReadInv /\ [Next]_vars => ReadInv'
<1> SUFFICES ASSUME ReadInv, [Next]_vars
             PROVE  ReadInv'
    OBVIOUS
<1>0. /\ TypeInv /\ TypeOK /\ NothingFromTheFuture /\ ReadsHold /\ OwnIndex
      /\ LateBounded /\ ToldExist /\ TurnsInOrder /\ CompletionIsWhole
      /\ FutureInv' /\ TypeInv' /\ TypeOK'
    BY FutureStep DEF ReadInv, FutureInv, TypeInv
<1>a. \A q \in Replicas : pending[q] # Null => pending[q].call \in Ids
    BY <1>0, PendingKinds
\* A handler that reads changes no row.
<1>b. ASSUME NEW r \in Replicas,
             UNCHANGED <<calls, summaries, turns, told, overtaken, late, mixed>>,
             \A q \in Replicas \ {r} : pending'[q] = pending[q],
             r \notin overtaken => Holds(pending'[r]),
             pending'[r].kind = "turn" =>
                /\ pending'[r].turn.by = r
                /\ \A j \in DOMAIN turns[pending'[r].call] :
                      turns[pending'[r].call][j].by = r =>
                        turns[pending'[r].call][j].index < pending'[r].turn.index
      PROVE  ReadInv'
    <2>1. ReadsHold'
        BY <1>0, <1>b DEF ReadsHold, Holds, Latest
    <2>2. OwnIndex'
        BY <1>0, <1>b DEF OwnIndex
    <2>3. LateBounded' /\ ToldExist' /\ TurnsInOrder' /\ CompletionIsWhole'
        BY <1>0, <1>b DEF LateBounded, ToldExist, TurnsInOrder, CompletionIsWhole
    <2>4. QED
        BY <1>0, <2>1, <2>2, <2>3 DEF ReadInv
\* One that leaves changes none either.
<1>c. ASSUME UNCHANGED <<calls, summaries, turns, told, late, mixed>>,
             \A q \in Replicas : pending'[q] = Null \/ pending'[q] = pending[q],
             \A q \in Replicas : pending'[q] # Null /\ q \notin overtaken' => q \notin overtaken
      PROVE  ReadInv'
    <2>1. ReadsHold'
        BY <1>0, <1>c DEF ReadsHold, Holds, Latest
    <2>2. OwnIndex'
        BY <1>0, <1>c DEF OwnIndex
    <2>3. LateBounded' /\ ToldExist' /\ TurnsInOrder' /\ CompletionIsWhole'
        BY <1>0, <1>c DEF LateBounded, ToldExist, TurnsInOrder, CompletionIsWhole
    <2>4. QED
        BY <1>0, <2>1, <2>2, <2>3 DEF ReadInv
<1>2. ASSUME NEW r \in Replicas, NEW c \in Ids, Create(r, c)
      PROVE  ReadInv'
    <2> DEFINE w == [kind |-> "create", call |-> c]
    <2>1. w.kind = "create"
        OBVIOUS
    <2>2. pending' = [pending EXCEPT ![r] = w]
        BY <1>2 DEF Create
    <2> HIDE DEF w
    <2>3. pending'[r] = w /\ \A q \in Replicas \ {r} : pending'[q] = pending[q]
        BY <1>0, <2>2 DEF TypeOK
    <2>4. Holds(pending'[r])
        BY <2>1, <2>3 DEF Holds
    <2>5. QED
        BY <1>2, <1>b, <2>1, <2>3, <2>4 DEF Create
<1>3. ASSUME NEW r \in Replicas, NEW c \in Ids, NEW recalling \in BOOLEAN,
             Begin(r, c, recalling)
      PROVE  ReadInv'
    <2>1. /\ pending'[r].kind = "turn" /\ pending'[r].call = c
          /\ pending'[r].turn.index = Len(turns[c]) /\ pending'[r].turn.history = Null
          /\ pending'[r].turn.by = r
          /\ \A q \in Replicas \ {r} : pending'[q] = pending[q]
          /\ UNCHANGED <<calls, summaries, turns, told, overtaken, late, mixed>>
        BY <1>0, <1>3, TurnBegun
    <2>2. Holds(pending'[r])
        BY <2>1 DEF Holds
    <2>3. \A j \in DOMAIN turns[c] : turns[c][j].index < Len(turns[c])
        <3>1. turns[c] \in Seq(Turn) /\ \A j \in DOMAIN turns[c] : turns[c][j].index < j
            BY <1>0 DEF NothingFromTheFuture, TypeOK
        <3>2. Len(turns[c]) \in Nat /\ DOMAIN turns[c] = 1..Len(turns[c])
            BY <3>1
        <3>3. \A j \in DOMAIN turns[c] : turns[c][j].index \in Nat
            <4>1. \A j \in DOMAIN turns[c] : turns[c][j] \in Turn
                BY <3>1
            <4>2. \A t \in Turn : t.index \in Nat
                BY DEF Turn
            <4>3. QED
                BY <4>1, <4>2
        <3>4. QED
            BY <3>1, <3>2, <3>3
    <2>4. QED
        BY <1>b, <2>1, <2>2, <2>3
<1>4. ASSUME NEW r \in Replicas, Recall(r)
      PROVE  ReadInv'
    <2> DEFINE w == pending[r]
               c == w.call
    <2>1. /\ w # Null /\ w.kind = "turn" /\ c \in Ids
          /\ pending'[r].kind = "turn" /\ pending'[r].call = c
          /\ pending'[r].turn.index = w.turn.index /\ pending'[r].turn.by = w.turn.by
          /\ pending'[r].turn.history \in Histories(c)
          /\ \A q \in Replicas \ {r} : pending'[q] = pending[q]
          /\ UNCHANGED <<calls, summaries, turns, told, overtaken, late, mixed>>
        BY <1>0, <1>4, Recalled
    <2>2. late[c] = {} => pending'[r].turn.history = Latest(Len(turns[c]))
        BY <1>0, <2>1, HistoryIsLatest DEF TurnsInOrder
    <2>3. r \notin overtaken => Holds(pending'[r])
        BY <1>0, <2>1, <2>2 DEF ReadsHold, Holds
    <2>4. w.turn.by = r /\ \A j \in DOMAIN turns[c] :
                             turns[c][j].by = r => turns[c][j].index < w.turn.index
        BY <1>0, <2>1 DEF OwnIndex
    <2>5. QED
        BY <1>b, <2>1, <2>3, <2>4
<1>5. ASSUME NEW r \in Replicas, NEW c \in Ids, NEW p \in Payload, Complete(r, c, p)
      PROVE  ReadInv'
    <2> DEFINE cols == {col \in Columns :
                            \/ col = "status" /\ StatusOf(p.outcome) # calls[c].status
                            \/ col = "outcome" /\ p.outcome # calls[c].outcome
                            \/ col = "text" /\ p.text # summaries[c]}
               w == [kind |-> "complete", call |-> c, payload |-> p,
                     columns |-> cols, summarised |-> summaries[c] # Null]
    <2>1. /\ w.kind = "complete" /\ w.call = c /\ w.payload = p /\ w.columns = cols
          /\ pending' = [pending EXCEPT ![r] = w]
          /\ UNCHANGED <<calls, summaries, turns, told, overtaken, late, mixed>>
        BY <1>5 DEF Complete
    <2>2. /\ "status" \in cols \/ calls[c].status = StatusOf(p.outcome)
          /\ "outcome" \in cols \/ calls[c].outcome = p.outcome
          /\ "text" \in cols \/ summaries[c] = p.text
        BY DEF Columns
    <2> HIDE DEF w, cols
    <2>3. pending'[r] = w /\ \A q \in Replicas \ {r} : pending'[q] = pending[q]
        BY <1>0, <2>1 DEF TypeOK
    <2>4. Holds(w)
        BY <2>1, <2>2 DEF Holds
    <2>5. QED
        BY <1>b, <2>1, <2>3, <2>4
<1>6. ASSUME NEW r \in Replicas, CommitCreate(r)
      PROVE  ReadInv'
    <2> DEFINE c == pending[r].call
    <2>1. /\ c \in Ids /\ told[c] = Null
          /\ \A d \in Ids \ {c} : calls'[d] = calls[d]
          /\ \A q \in Replicas \ {r} : pending[q] # Null => pending[q].call # c
          /\ UNCHANGED <<summaries, turns, told, late, mixed>>
          /\ overtaken' = overtaken \ {r}
        <3>1. pending[r] # Null /\ pending[r].kind = "create" /\ c \in Ids
            BY <1>a, <1>6 DEF CommitCreate
        <3>2. calls[c] = Null /\ \A q \in Replicas \ {r} : pending[q] # Null => pending[q].call # c
            BY <1>0, <3>1 DEF TypeInv, CreatorsAlone
        <3>3. QED
            BY <1>0, <1>6, <3>1, <3>2 DEF CommitCreate, Leave, ToldExist, TypeOK
    <2>2. pending'[r] = Null /\ \A q \in Replicas \ {r} : pending'[q] = pending[q]
        BY <1>0, <1>6, EndStep DEF CommitCreate, Leave
    <2>3. ReadsHold'
        BY <1>0, <1>a, <2>1, <2>2 DEF ReadsHold, Holds, Latest
    <2>4. OwnIndex'
        BY <1>0, <2>1, <2>2 DEF OwnIndex
    <2>5. LateBounded' /\ TurnsInOrder'
        BY <1>0, <2>1 DEF LateBounded, TurnsInOrder
    <2>6. ToldExist' /\ CompletionIsWhole'
        BY <1>0, <2>1 DEF ToldExist, CompletionIsWhole
    <2>7. QED
        BY <1>0, <2>3, <2>4, <2>5, <2>6 DEF ReadInv
<1>7. ASSUME NEW r \in Replicas, CommitTurn(r)
      PROVE  ReadInv'
    <2> DEFINE c == pending[r].call
               t == pending[r].turn
               n == Len(turns[c])
    <2>1. /\ pending[r] # Null /\ pending[r].kind = "turn"
          /\ c \in Ids /\ t \in Turn /\ turns[c] \in Seq(Turn)
          /\ turns'[c] \in Seq(Turn) /\ Len(turns'[c]) = n + 1
          /\ \A i \in DOMAIN turns[c] : turns'[c][i] = turns[c][i]
          /\ turns'[c][n + 1] = t
          /\ \A d \in Ids \ {c} : turns'[d] = turns[d]
          /\ UNCHANGED <<calls, summaries, told, mixed>>
          /\ pending'[r] = Null
          /\ \A q \in Replicas \ {r} : pending'[q] = pending[q]
        BY <1>0, <1>7, TurnAdded
    <2>2. n \in Nat /\ DOMAIN turns[c] = 1..n /\ DOMAIN turns'[c] = 1..(n + 1)
        BY <2>1
    <2>3. /\ late'[c] = late[c] \cup IF r \in overtaken THEN {n + 1} ELSE {}
          /\ \A d \in Ids \ {c} : late'[d] = late[d]
        BY <1>0, <1>7, <2>1 DEF CommitTurn, TypeOK
    <2>4. /\ r \notin overtaken' /\ \A q \in Replicas \ {r} : q \in overtaken => q \in overtaken'
          /\ \A q \in Replicas \ {r} :
                pending[q] # Null /\ pending[q].call = c /\ pending[q].kind = "turn"
                  => q \in overtaken'
        BY <1>7, <2>1 DEF CommitTurn, Overtake, Alike
    <2>5. r \notin overtaken =>
            t.index = n /\ (t.history # Null /\ late[c] = {} => t.history = Latest(n))
        BY <1>0, <2>1 DEF ReadsHold, Holds
    <2>6. t.by = r /\ \A j \in 1..n : turns[c][j].by = r => turns[c][j].index < t.index
        BY <1>0, <2>1, <2>2 DEF OwnIndex
    <2>7. late[c] \subseteq 1..n
        BY <1>0, <2>1, <2>2 DEF LateBounded
    <2> HIDE DEF c, t, n
    <2>8. ReadsHold'
        <3>1. ASSUME NEW q \in Replicas \ overtaken', pending'[q] # Null
              PROVE  Holds(pending[q])'
            <4>1. q # r /\ pending'[q] = pending[q] /\ q \notin overtaken
                  /\ pending[q].call \in Ids /\ Holds(pending[q])
                BY <1>0, <1>a, <2>1, <2>4, <3>1 DEF ReadsHold
            <4>2. CASE pending[q].call = c
                <5>1. pending[q].kind # "turn"
                    BY <2>4, <3>1, <4>1, <4>2
                <5>2. QED
                    BY <2>1, <4>1, <5>1 DEF Holds
            <4>3. CASE pending[q].call # c
                BY <2>1, <2>3, <4>1, <4>3 DEF Holds, Latest
            <4>4. QED
                BY <4>2, <4>3
        <3>2. QED
            BY <3>1 DEF ReadsHold
    <2>9. OwnIndex'
        <3>1. ASSUME NEW q \in Replicas, pending'[q] # Null, pending'[q].kind = "turn"
              PROVE  /\ pending'[q].turn.by = q
                     /\ \A j \in DOMAIN turns'[pending'[q].call] :
                           turns'[pending'[q].call][j].by = q =>
                             turns'[pending'[q].call][j].index < pending'[q].turn.index
            <4>1. q # r /\ pending'[q] = pending[q] /\ pending[q].call \in Ids
                BY <1>a, <2>1, <3>1
            <4>2. /\ pending[q].turn.by = q
                  /\ \A j \in DOMAIN turns[pending[q].call] :
                        turns[pending[q].call][j].by = q =>
                          turns[pending[q].call][j].index < pending[q].turn.index
                BY <1>0, <3>1, <4>1 DEF OwnIndex
            <4>3. CASE pending[q].call = c
                <5>1. ASSUME NEW j \in 1..(n + 1), turns'[c][j].by = q
                      PROVE  j \in DOMAIN turns[c] /\ turns'[c][j] = turns[c][j]
                    BY <2>1, <2>2, <2>6, <4>1, <5>1
                <5>2. QED
                    BY <2>2, <4>1, <4>2, <4>3, <5>1
            <4>4. CASE pending[q].call # c
                BY <2>1, <4>1, <4>2, <4>4
            <4>5. QED
                BY <4>3, <4>4
        <3>2. QED
            BY <3>1 DEF OwnIndex
    <2>10. LateBounded'
        <3>1. late'[c] \subseteq DOMAIN turns'[c]
            BY <2>2, <2>3, <2>7
        <3>2. QED
            BY <1>0, <2>1, <2>3, <3>1 DEF LateBounded
    <2>11. ASSUME NEW d \in Ids, NEW i \in DOMAIN turns'[d]
           PROVE  /\ i \notin late'[d] => turns'[d][i].index = i - 1
                  /\ turns'[d][i].history # Null /\ late'[d] \cap 1..i = {} =>
                       turns'[d][i].history = Latest(turns'[d][i].index)
                  /\ \A j \in 1..(i - 1) : turns'[d][j].by = turns'[d][i].by =>
                       turns'[d][j].index < turns'[d][i].index
        <3>1. CASE d # c
            BY <1>0, <2>1, <2>3, <2>11, <3>1 DEF TurnsInOrder, Latest
        <3>2. CASE d = c /\ i = n + 1
            <4>1. turns'[d][i] = t /\ \A j \in 1..(i - 1) : turns'[d][j] = turns[c][j]
                BY <2>1, <2>2, <3>2
            <4>2. i \notin late'[d] => r \notin overtaken /\ t.index = i - 1
                BY <2>2, <2>3, <2>5, <3>2
            <4>3. i \in 1..i /\ late[c] \subseteq 1..i
                BY <2>2, <2>7, <3>2
            <4>4. late'[d] \cap 1..i = {} => i \notin late'[d] /\ late[c] = {}
                BY <2>3, <3>2, <4>3
            <4>5. \A j \in 1..(i - 1) : turns'[d][j].by = t.by => turns'[d][j].index < t.index
                BY <2>2, <2>6, <3>2, <4>1
            <4>6. t.history # Null /\ late'[d] \cap 1..i = {} => t.history = Latest(t.index)
                BY <2>5, <4>2, <4>4
            <4>7. QED
                BY <4>1, <4>2, <4>5, <4>6
        <3>3. CASE d = c /\ i \in 1..n
            <4>1. turns'[d][i] = turns[c][i] /\ i \in DOMAIN turns[c]
                BY <2>1, <2>2, <3>3
            <4>2. \A j \in 1..(i - 1) : turns'[d][j] = turns[c][j]
                BY <2>1, <2>2, <3>3
            <4>3. late[c] \subseteq late'[d] /\ (i \in late'[d] => i \in late[c])
                BY <2>2, <2>3, <3>3
            <4>4. /\ i \notin late[c] => turns[c][i].index = i - 1
                  /\ turns[c][i].history # Null /\ late[c] \cap 1..i = {} =>
                       turns[c][i].history = Latest(turns[c][i].index)
                  /\ \A j \in 1..(i - 1) : turns[c][j].by = turns[c][i].by =>
                       turns[c][j].index < turns[c][i].index
                BY <1>0, <2>1, <4>1 DEF TurnsInOrder, Latest
            <4>5. QED
                BY <4>1, <4>2, <4>3, <4>4
        <3>4. QED
            BY <2>2, <2>11, <3>1, <3>2, <3>3
    <2>12. TurnsInOrder'
        BY <2>11 DEF TurnsInOrder, Latest
    <2>13. ToldExist' /\ CompletionIsWhole'
        BY <1>0, <2>1 DEF ToldExist, CompletionIsWhole
    <2>14. QED
        BY <1>0, <2>8, <2>9, <2>10, <2>12, <2>13 DEF ReadInv
<1>8. ASSUME NEW r \in Replicas, CommitComplete(r)
      PROVE  ReadInv'
    <2> DEFINE w == pending[r]
               c == w.call
               p == w.payload
    <2>1. /\ w # Null /\ w.kind = "complete" /\ c \in Ids /\ p \in Payload
          /\ calls'[c].status = IF "status" \in w.columns
                                  THEN StatusOf(p.outcome) ELSE calls[c].status
          /\ calls'[c].outcome = IF "outcome" \in w.columns
                                   THEN p.outcome ELSE calls[c].outcome
          /\ calls'[c] # Null
          /\ summaries'[c] = SummaryOf(summaries[c], w)
          /\ \A d \in Ids \ {c} : calls'[d] = calls[d] /\ summaries'[d] = summaries[d]
        BY <1>0, <1>8, CompletedRow
    <2>2. /\ told'[c] = p /\ \A d \in Ids \ {c} : told'[d] = told[d]
          /\ UNCHANGED <<turns, late>>
          /\ mixed' = IF r \in overtaken THEN mixed \cup {c} ELSE mixed \ {c}
        BY <1>0, <1>8, <2>1 DEF CommitComplete, TypeOK
    <2>3. pending'[r] = Null /\ \A q \in Replicas \ {r} : pending'[q] = pending[q]
        BY <1>0, <1>8, EndStep DEF CommitComplete, Overtake
    <2>4. /\ r \notin overtaken' /\ \A q \in Replicas \ {r} : q \in overtaken => q \in overtaken'
          /\ \A q \in Replicas \ {r} :
                pending[q] # Null /\ pending[q].call = c /\ pending[q].kind = "complete"
                  => q \in overtaken'
        BY <1>8, <2>1 DEF CommitComplete, Overtake, Alike
    <2>5. r \notin overtaken =>
            /\ calls'[c].status = StatusOf(p.outcome)
            /\ calls'[c].outcome = p.outcome
            /\ summaries'[c] = p.text
        BY <1>0, <2>1 DEF ReadsHold, Holds, SummaryOf
    <2> HIDE DEF w, c, p
    <2>6. ReadsHold'
        <3>1. ASSUME NEW q \in Replicas \ overtaken', pending'[q] # Null
              PROVE  Holds(pending[q])'
            <4>1. q # r /\ pending'[q] = pending[q] /\ q \notin overtaken
                  /\ pending[q].call \in Ids /\ Holds(pending[q])
                BY <1>0, <1>a, <2>3, <2>4, <3>1 DEF ReadsHold
            <4>2. CASE pending[q].call = c
                <5>1. pending[q].kind # "complete"
                    BY <2>4, <3>1, <4>1, <4>2
                <5>2. QED
                    BY <2>2, <4>1, <5>1 DEF Holds, Latest
            <4>3. CASE pending[q].call # c
                BY <2>1, <2>2, <4>1, <4>3 DEF Holds, Latest
            <4>4. QED
                BY <4>2, <4>3
        <3>2. QED
            BY <3>1 DEF ReadsHold
    <2>7. OwnIndex'
        BY <1>0, <2>2, <2>3 DEF OwnIndex
    <2>8. LateBounded' /\ TurnsInOrder'
        BY <1>0, <2>2 DEF LateBounded, TurnsInOrder
    <2>9. ToldExist' /\ CompletionIsWhole'
        BY <1>0, <2>1, <2>2, <2>5 DEF ToldExist, CompletionIsWhole
    <2>10. QED
        BY <1>0, <2>6, <2>7, <2>8, <2>9 DEF ReadInv
<1>9. ASSUME NEW r \in Replicas, Abandon(r)
      PROVE  ReadInv'
    <2>1. pending'[r] = Null /\ \A q \in Replicas \ {r} : pending'[q] = pending[q]
        BY <1>0, <1>9, EndStep DEF Abandon, Leave
    <2>2. QED
        BY <1>9, <1>c, <2>1 DEF Abandon, Leave
<1>10. CASE UNCHANGED vars
    BY <1>c, <1>10 DEF vars
<1>11. QED
    BY <1>2, <1>3, <1>4, <1>5, <1>6, <1>7, <1>8, <1>9, <1>10 DEF Next, AddTurn, Respond

LEMMA ReadInit == Init => ReadInv
<1>1. ASSUME Init PROVE FutureInv
    BY <1>1, FutureInit
<1>2. QED
    BY <1>1
    DEF Init, ReadInv, ReadsHold, OwnIndex, LateBounded, ToldExist,
        TurnsInOrder, CompletionIsWhole

\* However many replicas add turns to a call at once, a turn is out of its place only
\* when it was overtaken, a history is wrong only after such a turn, and no replica
\* gives an index twice.
THEOREM TurnsAreInOrder == Spec => []TurnsInOrder
<1>1. ReadInv => TurnsInOrder
    BY DEF ReadInv
<1>2. QED
    BY <1>1, ReadInit, ReadStep, PTL DEF Spec

\* The call, its summary and the last call.ended event all come from one completion
\* unless that one was overtaken, whatever happened to the call before it.
THEOREM CompletionsAreWhole == Spec => []CompletionIsWhole
<1>1. ReadInv => CompletionIsWhole
    BY DEF ReadInv
<1>2. QED
    BY <1>1, ReadInit, ReadStep, PTL DEF Spec
================================================================================
