--------------------------- MODULE RateLimiterProofs ---------------------------
(***************************************************************************)
(* Proofs about RateLimiter, for any replicas, skews, delays, limits and   *)
(* windows.  A counted request that passed and is recent enough is still   *)
(* a member of the window (Remembered): no transaction, whatever its       *)
(* stamp, has been able to drop it.  The last request of a stretch to be   *)
(* executed has therefore counted all the others that passed.  A process   *)
(* that has let a request through uncounted holds a client (OnceOnly), so  *)
(* that its next call is counted or fails.                                 *)
(***************************************************************************)
EXTENDS RateLimiter, FiniteSetTheorems, TLAPS

\* A counted request that passed is a member until the fastest clock is a window ahead.
Remembered ==
    \A m \in passed \ uncounted :
        /\ m.at + Window <= expires
        /\ m.at > now - Window + MaxSkew => m \in entries

OnceOnly == \A m \in uncounted : m.by \in clients

IInv ==
    /\ TypeOK /\ IsFiniteSet(asked) /\ Remembered /\ OnceOnly
    /\ WindowBound /\ RefusedForCause

\* The members of S in the stretch that begins at t, and what a refusal may count.
Stretch(S, t) == {m \in S : t <= m.at /\ m.at < t + Window - MaxSkew - MaxDelay}
Cause(S, u) == {m \in S \ {u} : u.at - Window - MaxSkew < m.at /\ m.at <= u.at + MaxDelay}

LEMMA ScoreBounds ==
    ASSUME NEW m \in Stamp
    PROVE  /\ m.at \in Nat /\ m.at <= MaxTime /\ m.by \in Replicas
           /\ Score(m) \in Nat
           /\ m.at <= Score(m) /\ Score(m) <= m.at + MaxSkew
BY RateAssumption DEF Stamp, Score

LEMMA InitIInv == Init => IInv
<1> SUFFICES ASSUME Init PROVE IInv
  OBVIOUS
<1>1. TypeOK
  BY RateAssumption DEF Init, TypeOK
<1>2. IsFiniteSet(asked)
  BY FS_EmptySet DEF Init
<1>3. Remembered /\ OnceOnly /\ RefusedForCause
  BY DEF Init, Remembered, OnceOnly, RefusedForCause
<1>4. WindowBound
  <2> SUFFICES ASSUME NEW t \in 0 .. MaxTime
               PROVE  Cardinality(Stretch(passed \ uncounted, t)) < Limit
    BY DEF Init, WindowBound, Stretch
  <2>1. Stretch(passed \ uncounted, t) = {}
    BY DEF Stretch, Init
  <2> QED
    BY <2>1, FS_EmptySet, RateAssumption
<1> QED
  BY <1>1, <1>2, <1>3, <1>4 DEF IInv

\* What the transaction of u finds and leaves.
LEMMA ExecuteMembers ==
    ASSUME IInv, NEW r \in Replicas, stamp[r] # Null,
           NEW u, u = stamp[r], NEW members, members = Recent(u, Present) \cup {u}
    PROVE  /\ u \in Stamp /\ u.at <= now /\ now <= u.at + MaxDelay
           /\ members \in SUBSET Stamp
           /\ members \subseteq asked \cup {u}
           /\ IsFiniteSet(members) /\ IsFiniteSet(asked \cup {u})
           /\ Cardinality(members) \in Nat
           /\ u \in members
           \* what passed and is recent, seen by any clock, is still a member
           /\ \A m \in passed \ uncounted : m.at > now - Window + MaxSkew => m \in members
           /\ members \ {u} \subseteq Cause(asked, u)
<1>1. u \in Stamp /\ u.at <= now /\ now <= u.at + MaxDelay /\ now \in Nat
  BY RateAssumption DEF IInv, TypeOK
<1>2. u.at \in Nat /\ Score(u) \in Nat /\ u.at <= Score(u) /\ Score(u) <= u.at + MaxSkew
  BY <1>1, ScoreBounds
<1>3. Present \subseteq entries /\ entries \subseteq asked /\ asked \subseteq Stamp
  BY DEF IInv, TypeOK, Present
<1>4. members \in SUBSET Stamp /\ members \subseteq asked \cup {u} /\ u \in members
  BY <1>1, <1>3 DEF Recent
<1>5. IsFiniteSet(asked \cup {u})
  BY FS_AddElement DEF IInv
<1>6. IsFiniteSet(members) /\ Cardinality(members) \in Nat
  BY <1>4, <1>5, FS_Subset, FS_CardinalityType
<1>7. ASSUME NEW m \in passed \ uncounted, m.at > now - Window + MaxSkew PROVE m \in members
  <2>1. m \in entries /\ m \in Stamp /\ m.at + Window <= expires
    BY <1>7 DEF IInv, TypeOK, Remembered
  <2>2. m \in Present
    BY <1>1, <1>7, <2>1, ScoreBounds, RateAssumption DEF IInv, TypeOK, Present
  <2>3. m.at \in Nat /\ Score(m) \in Nat /\ m.at <= Score(m)
    BY <2>1, ScoreBounds
  <2>4. Score(m) > Score(u) - Window
    BY <1>1, <1>2, <1>7, <2>3, RateAssumption
  <2> QED
    BY <2>2, <2>4 DEF Recent
<1>8. ASSUME NEW m \in members \ {u} PROVE m \in Cause(asked, u)
  <2>1. m \in Present /\ m \in asked /\ m \in Stamp /\ Score(m) > Score(u) - Window
    BY <1>3, <1>8 DEF Recent
  <2>2. m.at \in Nat /\ Score(m) \in Nat /\ Score(m) <= m.at + MaxSkew
    BY <2>1, ScoreBounds
  <2>3. m.at <= now
    BY <2>1 DEF IInv, TypeOK
  <2>4. u.at - Window - MaxSkew < m.at /\ m.at <= u.at + MaxDelay
    BY <1>1, <1>2, <2>1, <2>2, <2>3, RateAssumption
  <2> QED
    BY <1>8, <2>1, <2>4 DEF Cause
<1> QED
  BY <1>1, <1>4, <1>5, <1>6, <1>7, <1>8

\* A larger set of executed requests gives no less cause.
LEMMA CauseGrows ==
    ASSUME NEW S, NEW T, S \subseteq T, IsFiniteSet(T), NEW u
    PROVE  /\ Cardinality(Cause(S, u)) \in Nat /\ Cardinality(Cause(T, u)) \in Nat
           /\ Cardinality(Cause(S, u)) <= Cardinality(Cause(T, u))
<1>1. Cause(S, u) \subseteq Cause(T, u) /\ Cause(T, u) \subseteq T
  BY DEF Cause
<1> QED
  BY <1>1, FS_Subset, FS_CardinalityType

LEMMA ExecuteKeeps == ASSUME IInv, NEW r \in Replicas, Execute(r) PROVE IInv'
<1> DEFINE u == stamp[r]
           members == Recent(u, Present) \cup {u}
<1>1. /\ u # Null /\ entries' = members /\ expires' = now + Window
      /\ asked' = asked \cup {u} /\ now' = now
      /\ clients' = clients /\ uncounted' = uncounted
  BY DEF Execute, Renewed
<1>2. \/ /\ Cardinality(members) < Limit /\ stamp' = [stamp EXCEPT ![r] = Null]
         /\ passed' = passed \cup {u} /\ refused' = refused
      \/ /\ ~(Cardinality(members) < Limit) /\ stamp' = [stamp EXCEPT ![r] = Null]
         /\ refused' = refused \cup {u} /\ passed' = passed
      \/ stamp' = stamp /\ refused' = refused /\ passed' = passed
  BY DEF Execute, Allows
<1>3. /\ u \in Stamp /\ u.at <= now /\ now <= u.at + MaxDelay
      /\ members \in SUBSET Stamp
      /\ members \subseteq asked \cup {u}
      /\ IsFiniteSet(members) /\ IsFiniteSet(asked \cup {u})
      /\ Cardinality(members) \in Nat
      /\ u \in members
      /\ \A m \in passed \ uncounted : m.at > now - Window + MaxSkew => m \in members
      /\ members \ {u} \subseteq Cause(asked, u)
  BY <1>1, ExecuteMembers
<1> HIDE DEF members, u
<1>4. now \in 0 .. MaxTime /\ now \in Nat /\ TypeOK
  BY RateAssumption DEF IInv, TypeOK
<1>5. TypeOK'
  <2>1. now' \in 0 .. MaxTime /\ expires' \in 0 .. MaxTime + Window
    BY <1>1, <1>4, RateAssumption
  <2>2. /\ entries' \in SUBSET Stamp /\ entries' \subseteq asked'
        /\ asked' \in SUBSET Stamp /\ \A m \in asked' : m.at <= now'
    BY <1>1, <1>3, <1>4 DEF TypeOK
  <2>3. /\ refused' \in SUBSET asked' /\ passed' \in SUBSET (asked' \cup uncounted')
        /\ uncounted' \in SUBSET Stamp /\ clients' \in SUBSET Replicas
    BY <1>1, <1>2, <1>4 DEF TypeOK
  <2>4. /\ stamp' \in [Replicas -> Stamp \cup {Null}]
        /\ \A q \in Replicas : stamp'[q] = stamp[q] \/ stamp'[q] = Null
    BY <1>2, <1>4 DEF TypeOK
  <2>5. \A q \in Replicas : stamp'[q] # Null =>
            stamp'[q].by = q /\ stamp'[q].at <= now' /\ now' <= stamp'[q].at + MaxDelay
    BY <1>1, <1>4, <2>4 DEF TypeOK
  <2> QED
    BY <2>1, <2>2, <2>3, <2>4, <2>5 DEF TypeOK
<1>6. IsFiniteSet(asked)'
  BY <1>1, <1>3
<1>7. Remembered'
  <2>1. passed' \ uncounted' \subseteq (passed \ uncounted) \cup {u}
    BY <1>1, <1>2
  <2>2. ASSUME NEW m \in passed' \ uncounted', m.at > now - Window + MaxSkew PROVE m \in members
    BY <1>3, <2>1, <2>2
  <2>3. ASSUME NEW m \in passed' \ uncounted' PROVE m.at + Window <= now + Window
    <3>1. m \in asked' /\ m \in Stamp /\ m.at <= now
      BY <1>1, <1>5 DEF TypeOK
    <3> QED
      BY <1>4, <3>1, ScoreBounds, RateAssumption
  <2> QED
    BY <1>1, <2>2, <2>3 DEF Remembered
<1>8. WindowBound'
  <2> DEFINE counted == passed \ uncounted
  <2>a. \A m, n \in uncounted' : m.by = n.by => m = n
    BY <1>1 DEF IInv, WindowBound
  <2> SUFFICES ASSUME NEW t \in 0 .. MaxTime PROVE Cardinality(Stretch(counted', t)) < Limit
    BY <2>a DEF WindowBound, Stretch
  <2>1. Cardinality(Stretch(counted, t)) < Limit
    BY DEF IInv, WindowBound, Stretch
  <2>2. CASE Stretch(counted', t) = Stretch(counted, t)
    BY <2>1, <2>2
  <2>3. CASE Stretch(counted', t) # Stretch(counted, t)
    <3>1. counted' \subseteq counted \cup {u} /\ Cardinality(members) < Limit
      BY <1>1, <1>2, <2>3
    <3>2. t <= u.at /\ u.at < t + Window - MaxSkew - MaxDelay
      BY <1>1, <1>2, <2>3 DEF Stretch
    <3>3. ASSUME NEW m \in Stretch(counted', t), m # u PROVE m \in members
      <4>1. m \in counted /\ t <= m.at
        BY <3>1, <3>3 DEF Stretch
      <4>2. m \in Stamp /\ m.at \in Nat /\ u.at \in Nat
        BY <1>3, <1>4, <4>1, ScoreBounds DEF TypeOK
      <4>3. m.at > now - Window + MaxSkew
        BY <1>3, <1>4, <3>2, <4>1, <4>2, RateAssumption
      <4> QED
        BY <1>3, <4>1, <4>3
    <3>4. Stretch(counted', t) \subseteq members
      BY <1>3, <3>3
    <3>5. /\ Cardinality(Stretch(counted', t)) <= Cardinality(members)
          /\ IsFiniteSet(Stretch(counted', t))
      BY <1>3, <3>4, FS_Subset
    <3>6. Cardinality(Stretch(counted', t)) \in Nat
      BY <3>5, FS_CardinalityType
    <3> QED
      BY <1>3, <3>1, <3>5, <3>6, RateAssumption
  <2> QED
    BY <2>2, <2>3
<1>9. RefusedForCause'
  <2> SUFFICES ASSUME NEW v \in refused' PROVE Cardinality(Cause(asked', v)) >= Limit - 1
    BY DEF RefusedForCause, Cause
  <2>1. /\ Cardinality(Cause(asked, v)) \in Nat /\ Cardinality(Cause(asked', v)) \in Nat
        /\ Cardinality(Cause(asked, v)) <= Cardinality(Cause(asked', v))
    BY <1>1, <1>3, CauseGrows
  <2>2. CASE v \in refused
    <3>1. Cardinality(Cause(asked, v)) >= Limit - 1
      BY <2>2 DEF IInv, RefusedForCause, Cause
    <3> QED
      BY <2>1, <3>1, RateAssumption
  <2>3. CASE v \notin refused
    <3>1. v = u /\ Cardinality(members) >= Limit
      BY <1>2, <1>3, <2>3, RateAssumption
    <3>2. Cardinality(members \ {u}) = Cardinality(members) - 1
      BY <1>3, FS_RemoveElement
    <3>3. IsFiniteSet(Cause(asked, u))
      <4>1. Cause(asked, u) \subseteq asked
        BY DEF Cause
      <4> QED
        BY <4>1, FS_Subset DEF IInv
    <3>4. Cardinality(members \ {u}) <= Cardinality(Cause(asked, u))
      BY <1>3, <3>3, FS_Subset
    <3> QED
      BY <1>3, <2>1, <3>1, <3>2, <3>4, RateAssumption
  <2> QED
    BY <2>2, <2>3
<1>10. OnceOnly'
  BY <1>1 DEF IInv, OnceOnly
<1> QED
  BY <1>5, <1>6, <1>7, <1>8, <1>9, <1>10 DEF IInv

\* The other steps leave what was asked and the window as they are, or empty it.
LEMMA IInvStep == IInv /\ [Next]_vars => IInv'
<1> SUFFICES ASSUME IInv, [Next]_vars PROVE IInv'
  OBVIOUS
<1> USE DEF IInv
<1>1. ASSUME NEW r \in Replicas, Arrive(r) PROVE IInv'
  <2>1. Request(r) = [at |-> now, by |-> r] /\ Request(r) \in Stamp
    BY DEF Request, Stamp, TypeOK
  <2>2. /\ stamp' \in [Replicas -> Stamp \cup {Null}]
        /\ \A q \in Replicas : stamp'[q] = stamp[q] \/ (q = r /\ stamp'[q] = Request(r))
    BY <1>1, <2>1 DEF Arrive, TypeOK
  <2>3. \A q \in Replicas : stamp'[q] # Null =>
            stamp'[q].by = q /\ stamp'[q].at <= now /\ now <= stamp'[q].at + MaxDelay
    BY <2>1, <2>2, RateAssumption DEF TypeOK
  <2> QED
    BY <1>1, <2>2, <2>3 DEF Arrive, TypeOK, Remembered, OnceOnly, WindowBound, RefusedForCause
<1>2. ASSUME NEW r \in Replicas, Execute(r) PROVE IInv'
  BY <1>2, ExecuteKeeps
<1>3. ASSUME NEW r \in Replicas, Fail(r) PROVE IInv'
  <2>1. /\ stamp' \in [Replicas -> Stamp \cup {Null}]
        /\ \A q \in Replicas : stamp'[q] = stamp[q] \/ stamp'[q] = Null
    BY <1>3 DEF Fail, TypeOK
  <2> QED
    BY <1>3, <2>1 DEF Fail, TypeOK, Remembered, OnceOnly, WindowBound, RefusedForCause
<1>4. CASE Lose
  <2>1. TypeOK' /\ Remembered' /\ OnceOnly' /\ RefusedForCause' /\ IsFiniteSet(asked)'
    BY <1>4 DEF Lose, TypeOK, Remembered, OnceOnly, RefusedForCause
  <2>2. WindowBound'
    <3> SUFFICES ASSUME NEW t \in 0 .. MaxTime
                 PROVE  Cardinality(Stretch(passed' \ uncounted, t)) < Limit
      BY <1>4 DEF Lose, WindowBound, Stretch
    <3>1. Stretch(passed' \ uncounted, t) = {}
      BY <1>4 DEF Lose, Stretch
    <3> QED
      BY <3>1, FS_EmptySet, RateAssumption
  <2> QED
    BY <2>1, <2>2
<1>5. CASE Tick
  <2>1. TypeOK'
    <3>1. \A q \in Replicas : stamp[q] # Null =>
              stamp[q].by = q /\ stamp[q].at <= now + 1 /\ now + 1 <= stamp[q].at + MaxDelay
      <4> SUFFICES ASSUME NEW q \in Replicas, stamp[q] # Null
                   PROVE  /\ stamp[q].by = q /\ stamp[q].at <= now + 1
                          /\ now + 1 <= stamp[q].at + MaxDelay
        OBVIOUS
      <4>1. stamp[q] \in Stamp /\ now \in Nat
        BY RateAssumption DEF TypeOK
      <4> QED
        BY <1>5, <4>1, ScoreBounds, RateAssumption DEF Tick, TypeOK
    <3>2. \A m \in asked : m.at <= now + 1
      BY ScoreBounds, RateAssumption DEF TypeOK
    <3> QED
      BY <1>5, <3>1, <3>2, RateAssumption DEF Tick, TypeOK
  <2>2. Remembered'
    <3>1. \A m \in passed \ uncounted : m.at \in Nat /\ m.at <= now
      BY ScoreBounds DEF TypeOK
    <3>2. now' = now + 1 /\ passed' = passed /\ uncounted' = uncounted /\ entries' = entries /\ expires' = expires
      BY <1>5 DEF Tick
    <3>3. ASSUME NEW m \in passed \ uncounted, m.at > (now + 1) - Window + MaxSkew PROVE m \in entries
      BY <3>1, <3>3, RateAssumption DEF Remembered, TypeOK
    <3>4. \A m \in passed \ uncounted : m.at + Window <= expires
      BY DEF Remembered
    <3> QED
      BY <3>2, <3>3, <3>4 DEF Remembered
  <2> QED
    BY <1>5, <2>1, <2>2 DEF Tick, OnceOnly, WindowBound, RefusedForCause
<1>6. CASE UNCHANGED vars
  BY <1>6 DEF vars, TypeOK, Remembered, OnceOnly, WindowBound, RefusedForCause
<1>7. ASSUME NEW r \in Replicas, PassUncounted(r) PROVE IInv'
  <2> DEFINE u == Request(r)
  <2>1. /\ r \notin clients /\ u \notin asked /\ clients' = clients \cup {r}
        /\ passed' = passed \cup {u} /\ uncounted' = uncounted \cup {u}
        /\ UNCHANGED <<now, stamp, entries, expires, asked, refused>>
    BY <1>7 DEF PassUncounted, Free, Keeping
  <2>2. u \in Stamp /\ u.by = r
    BY DEF Request, Stamp, TypeOK
  <2> HIDE DEF u
  <2>3. passed' \ uncounted' \subseteq passed \ uncounted
    BY <2>1
  <2>4. TypeOK'
    BY <2>1, <2>2 DEF TypeOK
  <2>5. OnceOnly' /\ Remembered' /\ RefusedForCause'
    BY <2>1, <2>2, <2>3 DEF OnceOnly, Remembered, RefusedForCause
  <2>6. \A m, n \in uncounted' : m.by = n.by => m = n
    BY <2>1, <2>2 DEF OnceOnly, WindowBound
  <2>7. ASSUME NEW t \in 0 .. MaxTime PROVE Cardinality(Stretch(passed' \ uncounted', t)) < Limit
    <3>1. passed' \ uncounted' = passed \ (uncounted \cup {u})
      BY <2>1
    <3>2. Stretch(passed' \ uncounted', t) \subseteq Stretch(passed \ uncounted, t)
      BY <2>3 DEF Stretch
    <3>3. passed \ uncounted \subseteq asked /\ Stretch(passed \ uncounted, t) \subseteq asked
      BY DEF TypeOK, Stretch
    <3>4. IsFiniteSet(Stretch(passed \ uncounted, t))
      BY <3>3, FS_Subset
    <3>5. /\ Cardinality(Stretch(passed' \ uncounted', t)) <= Cardinality(Stretch(passed \ uncounted, t))
          /\ Cardinality(Stretch(passed \ uncounted, t)) < Limit
      BY <3>2, <3>4, FS_Subset DEF WindowBound, Stretch
    <3>6. /\ Cardinality(Stretch(passed' \ uncounted', t)) \in Nat
          /\ Cardinality(Stretch(passed \ uncounted, t)) \in Nat
      BY <3>2, <3>4, FS_Subset, FS_CardinalityType
    <3> QED
      BY <3>5, <3>6, RateAssumption
  <2>8. WindowBound'
    BY <2>6, <2>7 DEF WindowBound, Stretch
  <2> QED
    BY <2>1, <2>4, <2>5, <2>8
<1> QED
  BY <1>1, <1>2, <1>3, <1>4, <1>5, <1>6, <1>7 DEF Next

\* The states of the limiter are those TypeOK lists, for any clocks, delays and limits.
THEOREM TypeCorrect == Spec => []TypeOK
<1>1. IInv => TypeOK
  BY DEF IInv
<1> QED
  BY InitIInv, IInvStep, <1>1, PTL DEF Spec

\* Fewer than Limit counted requests pass in any stretch shorter than the window by skew
\* and delay, and each process lets at most one through uncounted.
THEOREM WindowIsBounded == Spec => []WindowBound
<1>1. IInv => WindowBound
  BY DEF IInv
<1> QED
  BY InitIInv, IInvStep, <1>1, PTL DEF Spec

\* Nobody is refused without Limit - 1 requests of its own within a window and the skew.
THEOREM RefusalsHaveCause == Spec => []RefusedForCause
<1>1. IInv => RefusedForCause
  BY DEF IInv
<1> QED
  BY InitIInv, IInvStep, <1>1, PTL DEF Spec
================================================================================
