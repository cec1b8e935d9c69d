-------------------------- MODULE AgentVersionsProofs --------------------------
(***************************************************************************)
(* Proofs about AgentVersions: for any number of replicas, agents and      *)
(* versions, an agent's published version exists and is its own.           *)
(*                                                                         *)
(* PublishedIsOwn is not inductive: it says nothing of the writes prepared *)
(* and not committed.  Prepared states what they keep while other replicas *)
(* commit, Distinct that two publications in flight insert two versions.   *)
(* HistoryInv is about the writes of handlers that were not overtaken:     *)
(* they still fit the row they were prepared from.                         *)
(***************************************************************************)
EXTENDS AgentVersions, TLAPS

\* A row as a handler may load or prepare it.
Coherent(row) == row.status = "published" <=> row.version # Null

\* Version v of agent a is there.
IsOwn(a, v) == versions[v] # Null /\ versions[v].agent = a

\* A prepared write: its agent exists; it inserts a version of its own agent under an
\* unused id, or names one that is there; it sets the status only with the version,
\* and leaves the status alone only when the agent is published already.
PreparedWell(w) ==
    /\ agents[w.agent] # Null
    /\ w.insert # Null => /\ w.row.version # Null
                          /\ versions[w.row.version] = Null
                          /\ w.insert.agent = w.agent
    /\ "version" \in w.columns =>
          /\ w.row.version # Null
          /\ w.insert = Null => IsOwn(w.agent, w.row.version)
          /\ "status" \in w.columns \/ agents[w.agent].status = "published"
    /\ "status" \in w.columns => "version" \in w.columns /\ w.row.status = "published"

Prepared == \A r \in Replicas : pending[r] # Null => PreparedWell(pending[r])

Distinct ==
    \A q, r \in Replicas :
        /\ q # r
        /\ pending[q] # Null /\ pending[q].insert # Null
        /\ pending[r] # Null /\ pending[r].insert # Null
        => pending[q].row.version # pending[r].row.version

VersionsInv == TypeOK /\ Prepared /\ Distinct /\ PublishedIsOwn

\* The initial state satisfies the invariant.
LEMMA InitInv == Init => VersionsInv
  BY VersionsAssumption DEF Init, VersionsInv, TypeOK, Prepared, Distinct, PublishedIsOwn

\* What Changed says of the two columns the invariant speaks of.
LEMMA ChangedColumns ==
  ASSUME NEW old \in Row, NEW new \in Row
  PROVE  /\ Changed(old, new) \in SUBSET (Fields \cup {"status", "version"})
         /\ "status" \in Changed(old, new) <=> old.status # new.status
         /\ "version" \in Changed(old, new) <=> old.version # new.version
  BY VersionsAssumption DEF Changed

\* A handler that prepares a well-formed write keeps the invariant.
LEMMA PrepareStep ==
  ASSUME VersionsInv,
         NEW r \in Replicas, NEW a \in Agents, NEW new \in Row,
         NEW insert \in Version \cup {Null}, NEW event \in BOOLEAN,
         Prepare(r, a, new, insert, event),
         insert = Null => \/ new.version = agents[a].version /\ new.status = agents[a].status
                          \/ /\ new.version # Null /\ new.status = "published"
                             /\ IsOwn(a, new.version),
         insert # Null => /\ new.version # Null /\ new.status = "published"
                          /\ versions[new.version] = Null
                          /\ insert.agent = a
                          /\ \A q \in Replicas : pending[q] # Null =>
                                pending[q].insert = Null \/ pending[q].row.version # new.version
  PROVE  VersionsInv'
<1> DEFINE w == [agent |-> a, row |-> new, columns |-> Changed(agents[a], new),
                 insert |-> insert, event |-> event]
<1>1. agents[a] \in Row /\ agents[a] # Null
  BY DEF VersionsInv, TypeOK, Prepare
<1>2. w \in Write
  BY <1>1, ChangedColumns DEF Write
<1>3. w # Null
  BY <1>2, VersionsAssumption
<1>4. /\ pending' = [pending EXCEPT ![r] = w]
      /\ agents' = agents /\ versions' = versions /\ told' = told
      /\ overtaken' = overtaken /\ strayed' = strayed
  BY DEF Prepare
<1>5. TypeOK'
  BY <1>2, <1>4 DEF VersionsInv, TypeOK
<1>6. PreparedWell(w)
  <2>1. w.agent = a /\ w.row = new /\ w.insert = insert /\ w.columns = Changed(agents[a], new)
    OBVIOUS
  <2>2. "status" \in w.columns => agents[a].status = "draft" /\ new.status = "published"
    BY <1>1, <2>1, ChangedColumns DEF Row, VersionsInv, PublishedIsOwn
  <2>3. agents[a].status = "draft" => agents[a].version = Null
    BY <1>1 DEF VersionsInv, PublishedIsOwn
  <2>4. new.version # agents[a].version => new.version # Null /\ new.status = "published"
    OBVIOUS
  <2>5. new.status # agents[a].status => new.version # Null
    OBVIOUS
  <2>6. "status" \in w.columns => "version" \in w.columns
    BY <1>1, <2>1, <2>2, <2>3, <2>5, ChangedColumns
  <2>7. "version" \in w.columns => new.version # agents[a].version
    BY <1>1, <2>1, ChangedColumns
  <2>8. "version" \in w.columns => "status" \in w.columns \/ agents[a].status = "published"
    BY <1>1, <2>1, <2>4, <2>7, ChangedColumns
  <2>9. "version" \in w.columns => new.version # Null /\ (insert = Null => IsOwn(a, new.version))
    BY <2>4, <2>7
  <2> QED
    BY <1>1, <2>1, <2>2, <2>6, <2>8, <2>9 DEF PreparedWell
<1>7. Prepared'
  <2> SUFFICES ASSUME NEW q \in Replicas, pending'[q] # Null
               PROVE  PreparedWell(pending[q])'
    BY DEF Prepared
  <2>1. PreparedWell(pending'[q])
    BY <1>4, <1>6 DEF VersionsInv, Prepared, TypeOK
  <2> QED
    BY <1>4, <2>1 DEF PreparedWell, IsOwn
<1>8. Distinct'
  BY <1>4 DEF VersionsInv, Distinct, TypeOK
<1>9. PublishedIsOwn'
  BY <1>4 DEF VersionsInv, PublishedIsOwn
<1> QED
  BY <1>5, <1>7, <1>8, <1>9 DEF VersionsInv

\* What a commit leaves of a row.
LEMMA MergedRow ==
  ASSUME NEW old \in Row, NEW w \in Write
  PROVE  /\ Merged(old, w) \in Row
         /\ Merged(old, w).status = IF "status" \in w.columns THEN w.row.status ELSE old.status
         /\ Merged(old, w).version = IF "version" \in w.columns THEN w.row.version ELSE old.version
  BY DEF Merged, Row, Write, Config

\* A commit keeps the invariant.
LEMMA CommitStep ==
  ASSUME VersionsInv, NEW r \in Replicas, Commit(r)
  PROVE  VersionsInv'
<1> DEFINE w == pending[r]
           row == Merged(agents[w.agent], w)
<1>1. w \in Write /\ w # Null
  BY DEF VersionsInv, TypeOK, Commit
<1>2. PreparedWell(w)
  BY <1>1 DEF VersionsInv, Prepared
<1>3. w.agent \in Agents /\ agents[w.agent] \in Row /\ agents[w.agent] # Null
  BY <1>1, <1>2 DEF VersionsInv, TypeOK, Write, PreparedWell
<1>4. row \in Row /\ row # Null
  BY <1>1, <1>3, MergedRow, VersionsAssumption
<1>5. /\ agents' = [agents EXCEPT ![w.agent] = row]
      /\ versions' = IF w.insert = Null THEN versions
                     ELSE [versions EXCEPT ![w.row.version] = w.insert]
      /\ told' = IF w.event THEN [told EXCEPT ![w.agent] = w.row.version] ELSE told
      /\ pending' = [pending EXCEPT ![r] = Null]
      /\ overtaken' \in SUBSET Replicas /\ strayed' \in SUBSET Agents
  <2>1. overtaken' \in SUBSET Replicas
    BY DEF Commit, VersionsInv, TypeOK
  <2>2. strayed' \in SUBSET Agents
    BY <1>3 DEF Commit, VersionsInv, TypeOK
  <2> QED
    BY <2>1, <2>2 DEF Commit
<1>6. w.row.version \in VersionIds \cup {Null} /\ w.insert \in Version \cup {Null}
  BY <1>1 DEF Write, Row
<1>7. TypeOK'
  BY <1>3, <1>4, <1>5, <1>6 DEF VersionsInv, TypeOK
<1>8. \A v \in VersionIds : versions[v] # Null => versions'[v] = versions[v]
  BY <1>2, <1>5, <1>6 DEF PreparedWell, VersionsInv, TypeOK
<1>9. row.status = "published" \/ row.status = agents[w.agent].status
  BY <1>1, <1>2, <1>3, MergedRow DEF PreparedWell
<1>10. Prepared'
  <2> SUFFICES ASSUME NEW q \in Replicas, pending'[q] # Null
               PROVE  PreparedWell(pending[q])'
    BY DEF Prepared
  <2> DEFINE u == pending[q]
  <2>1. q # r /\ pending'[q] = u /\ u # Null /\ u \in Write
    BY <1>5 DEF VersionsInv, TypeOK
  <2>2. PreparedWell(u)
    BY <2>1 DEF VersionsInv, Prepared
  <2>3. u.agent \in Agents /\ u.row.version \in VersionIds \cup {Null}
    BY <2>1 DEF Write, Row
  <2>4. agents'[u.agent] # Null
    BY <1>4, <1>5, <2>2, <2>3 DEF PreparedWell, VersionsInv, TypeOK
  <2>5. u.insert # Null => versions'[u.row.version] = Null
    <3> SUFFICES ASSUME u.insert # Null PROVE versions'[u.row.version] = Null
      OBVIOUS
    <3>1. w.insert # Null => w.row.version # u.row.version
      BY <1>1, <2>1 DEF VersionsInv, Distinct
    <3> QED
      BY <1>5, <1>6, <2>2, <2>3, <3>1 DEF PreparedWell, VersionsInv, TypeOK
  <2>6. u.row.version # Null /\ IsOwn(u.agent, u.row.version) =>
          versions'[u.row.version] # Null /\ versions'[u.row.version].agent = u.agent
    BY <1>8, <2>3 DEF IsOwn
  <2>7. agents[u.agent].status = "published" => agents'[u.agent].status = "published"
    BY <1>3, <1>5, <1>9, <2>3 DEF VersionsInv, TypeOK
  <2> QED
    BY <2>1, <2>2, <2>4, <2>5, <2>6, <2>7 DEF PreparedWell, IsOwn
<1>11. Distinct'
  BY <1>5 DEF VersionsInv, Distinct, TypeOK
<1>12. PublishedIsOwn'
  <2> SUFFICES ASSUME NEW a \in Agents, agents'[a] # Null
               PROVE  /\ agents'[a].status = "published" <=> agents'[a].version # Null
                      /\ agents'[a].version # Null =>
                            /\ versions'[agents'[a].version] # Null
                            /\ versions'[agents'[a].version].agent = a
    BY DEF PublishedIsOwn
  <2>1. CASE a # w.agent
    <3>1. agents'[a] = agents[a] /\ agents[a] \in Row
      BY <1>5, <2>1 DEF VersionsInv, TypeOK
    <3> QED
      BY <1>8, <3>1 DEF VersionsInv, PublishedIsOwn, Row
  <2>2. CASE a = w.agent
    <3>1. agents'[a] = row
      BY <1>3, <1>5, <2>2 DEF VersionsInv, TypeOK
    <3>2. CASE "version" \in w.columns
      <4>1. row.version = w.row.version /\ row.version # Null
        BY <1>1, <1>2, <1>3, <3>2, MergedRow DEF PreparedWell
      <4>2. row.status = "published"
        BY <1>1, <1>2, <1>3, <3>2, MergedRow DEF PreparedWell
      <4>3. CASE w.insert = Null
        BY <1>2, <1>6, <1>8, <2>2, <3>1, <3>2, <4>1, <4>2, <4>3 DEF PreparedWell, IsOwn
      <4>4. CASE w.insert # Null
        <5>1. versions'[w.row.version] = w.insert
          BY <1>5, <1>6, <4>1, <4>4 DEF VersionsInv, TypeOK
        <5> QED
          BY <1>2, <2>2, <3>1, <4>1, <4>2, <4>4, <5>1 DEF PreparedWell
      <4> QED
        BY <4>3, <4>4
    <3>3. CASE "version" \notin w.columns
      <4>1. row.version = agents[a].version /\ row.status = agents[a].status
        BY <1>1, <1>2, <1>3, <2>2, <3>3, MergedRow DEF PreparedWell
      <4>2. agents[a].version \in VersionIds \cup {Null}
        BY <1>3, <2>2 DEF Row
      <4> QED
        BY <1>3, <1>8, <2>2, <3>1, <4>1, <4>2 DEF VersionsInv, PublishedIsOwn
    <3> QED
      BY <3>2, <3>3
  <2> QED
    BY <2>1, <2>2
<1> QED
  BY <1>7, <1>10, <1>11, <1>12 DEF VersionsInv

\* Every step keeps the invariant.
LEMMA NextInv == VersionsInv /\ [Next]_vars => VersionsInv'
<1> SUFFICES ASSUME VersionsInv, [Next]_vars PROVE VersionsInv'
  OBVIOUS
<1>1. ASSUME NEW r \in Replicas, NEW a \in Agents, NEW config \in Config, Create(r, a, config)
      PROVE  VersionsInv'
  <2> DEFINE row == [config |-> config, status |-> "draft", version |-> Null]
  <2>1. row \in Row /\ row # Null
    BY VersionsAssumption DEF Row
  <2>2. /\ agents[a] = Null /\ agents' = [agents EXCEPT ![a] = row]
        /\ versions' = versions /\ pending' = pending /\ told' = told
        /\ overtaken' = overtaken /\ strayed' = strayed
    BY <1>1 DEF Create
  <2>3. TypeOK'
    BY <2>1, <2>2 DEF VersionsInv, TypeOK
  <2>4. \A b \in Agents : b # a => agents'[b] = agents[b]
    BY <2>2 DEF VersionsInv, TypeOK
  <2>5. agents'[a] = row
    BY <2>2 DEF VersionsInv, TypeOK
  <2>6. Prepared'
    <3> SUFFICES ASSUME NEW q \in Replicas, pending[q] # Null
                 PROVE  PreparedWell(pending[q])'
      BY <2>2 DEF Prepared
    <3>1. PreparedWell(pending[q]) /\ pending[q].agent \in Agents
      BY DEF VersionsInv, Prepared, TypeOK, Write
    <3>2. pending[q].agent # a
      BY <2>2, <3>1 DEF PreparedWell
    <3> QED
      BY <2>2, <2>4, <3>1, <3>2 DEF PreparedWell, IsOwn
  <2>7. Distinct'
    BY <2>2 DEF VersionsInv, Distinct
  <2>8. PublishedIsOwn'
    <3> SUFFICES ASSUME NEW b \in Agents, agents'[b] # Null
                 PROVE  /\ agents'[b].status = "published" <=> agents'[b].version # Null
                        /\ agents'[b].version # Null =>
                              /\ versions'[agents'[b].version] # Null
                              /\ versions'[agents'[b].version].agent = b
      BY DEF PublishedIsOwn
    <3>1. CASE b = a
      BY <2>5, <3>1
    <3>2. CASE b # a
      BY <2>2, <2>4, <3>2 DEF VersionsInv, PublishedIsOwn
    <3> QED
      BY <3>1, <3>2
  <2> QED
    BY <2>3, <2>6, <2>7, <2>8 DEF VersionsInv
<1>2. ASSUME NEW r \in Replicas, NEW a \in Agents, NEW patch \in Patches, Update(r, a, patch)
      PROVE  VersionsInv'
  <2> DEFINE row == Patched(agents[a], patch)
  <2>1. agents[a] \in Row /\ Prepare(r, a, row, Null, FALSE)
    BY <1>2 DEF Update, Prepare, VersionsInv, TypeOK
  <2>2. \A f \in Fields : f \in DOMAIN patch => patch[f] \in Values
    BY DEF Patches
  <2>3. row \in Row /\ row.version = agents[a].version /\ row.status = agents[a].status
    BY <2>1, <2>2 DEF Patched, Row, Config
  <2> QED
    BY <2>1, <2>3, PrepareStep DEF VersionsInv, TypeOK
<1>3. ASSUME NEW r \in Replicas, NEW a \in Agents, NEW v \in VersionIds,
             NEW now \in 1..MaxTime, Publish(r, a, v, now)
      PROVE  VersionsInv'
  <2> DEFINE row == [agents[a] EXCEPT !.status = "published", !.version = v]
             insert == [agent |-> a, snapshot |-> agents[a].config, at |-> now]
  <2>1. agents[a] \in Row /\ Prepare(r, a, row, insert, TRUE)
    BY <1>3 DEF Publish, Prepare, VersionsInv, TypeOK
  <2>3. row \in Row /\ row.version = v /\ row.status = "published" /\ v # Null
    BY <2>1, VersionsAssumption DEF Row
  <2>4. insert \in Version /\ insert # Null /\ insert.agent = a
    BY <2>1, VersionsAssumption DEF Version, Row
  <2>5. /\ versions[v] = Null
        /\ \A q \in Replicas : pending[q] # Null =>
              pending[q].insert = Null \/ pending[q].row.version # v
    BY <1>3 DEF Publish
  <2> HIDE DEF row, insert
  <2>6. insert \in Version \cup {Null}
    BY <2>4
  <2> QED
    BY <2>1, <2>3, <2>4, <2>5, <2>6, PrepareStep
<1>4. ASSUME NEW r \in Replicas, NEW a \in Agents, NEW target \in VersionIds \cup {Null},
             Rollback(r, a, target)
      PROVE  VersionsInv'
  <2>1. PICK v \in Targets(a, target) : Prepare(r, a, Restored(agents[a], v), Null, TRUE)
    BY <1>4 DEF Rollback
  <2>2. v \in VersionIds /\ IsOwn(a, v)
    BY DEF Targets, IsOwn
  <2>3. agents[a] \in Row /\ versions[v] \in Version /\ v # Null
    BY <2>1, <2>2, VersionsAssumption DEF Prepare, VersionsInv, TypeOK, IsOwn
  <2>4. /\ Restored(agents[a], v) \in Row
        /\ Restored(agents[a], v).version = v /\ Restored(agents[a], v).status = "published"
    BY <2>2, <2>3 DEF Restored, Row, Version
  <2> QED
    BY <2>1, <2>2, <2>3, <2>4, PrepareStep DEF VersionsInv, TypeOK
<1>5. ASSUME NEW r \in Replicas, Abandon(r)
      PROVE  VersionsInv'
  <2>1. /\ pending' = [pending EXCEPT ![r] = Null]
        /\ agents' = agents /\ versions' = versions /\ told' = told
        /\ overtaken' = overtaken \ {r} /\ strayed' = strayed
    BY <1>5 DEF Abandon
  <2>2. TypeOK' /\ Distinct' /\ PublishedIsOwn'
    BY <2>1 DEF VersionsInv, TypeOK, Distinct, PublishedIsOwn
  <2>3. Prepared'
    <3> SUFFICES ASSUME NEW q \in Replicas, pending'[q] # Null
                 PROVE  PreparedWell(pending[q])'
      BY DEF Prepared
    <3>1. pending'[q] = pending[q] /\ PreparedWell(pending[q])
      BY <2>1 DEF VersionsInv, Prepared, TypeOK
    <3> QED
      BY <2>1, <3>1 DEF PreparedWell, IsOwn
  <2> QED
    BY <2>2, <2>3 DEF VersionsInv
<1>6. CASE UNCHANGED vars
  BY <1>6 DEF vars, VersionsInv, TypeOK, Prepared, PreparedWell, IsOwn, Distinct, PublishedIsOwn
<1> QED
  BY <1>1, <1>2, <1>3, <1>4, <1>5, <1>6, CommitStep DEF Next

\* Every variable keeps its type.
THEOREM TypeCorrect == Spec => []TypeOK
<1>1. VersionsInv => TypeOK
  BY DEF VersionsInv
<1> QED
  BY <1>1, InitInv, NextInv, PTL DEF Spec

\* The published version of every agent exists and belongs to the agent, whatever
\* the interleaving of publications, rollbacks and edits on any number of replicas.
THEOREM PublishedVersionIsOwn == Spec => []PublishedIsOwn
<1>1. VersionsInv => PublishedIsOwn
  BY DEF VersionsInv
<1> QED
  BY <1>1, InitInv, NextInv, PTL DEF Spec

-------------------------------------------------------------------------------
(* Handlers that were not overtaken *)

\* A write prepared from the row that is still there: its columns are those it changes,
\* and it brings the snapshot of the version it names.
UpToDate(w) ==
    /\ w.columns = Changed(agents[w.agent], w.row)
    /\ w.event /\ w.insert # Null => w.row.config = w.insert.snapshot
    /\ w.event /\ w.insert = Null =>
          /\ w.row.version \in VersionIds /\ versions[w.row.version] # Null
          /\ w.row.config = versions[w.row.version].snapshot

AllUpToDate ==
    \A r \in Replicas \ overtaken : pending[r] # Null => UpToDate(pending[r])

\* Overtaken or not, an edit leaves the version alone and a publication writes its own.
SetsVersion(w) ==
    /\ ~w.event => "version" \notin w.columns
    /\ w.insert # Null => "version" \in w.columns

AllSetVersion == \A r \in Replicas : pending[r] # Null => SetsVersion(pending[r])

ToldInTime == \A a \in Agents : agents[a] = Null => told[a] = Null

HistoryInv == AllUpToDate /\ AllSetVersion /\ ToldInTime /\ EventNamesTheVersion

\* Nothing is prepared or published at first.
LEMMA HistoryInit == Init => HistoryInv
  BY DEF Init, HistoryInv, AllUpToDate, AllSetVersion, ToldInTime, EventNamesTheVersion

\* A write prepared from the row that is there makes the row its own.
LEMMA MergedIsNew ==
  ASSUME NEW old \in Row, NEW w \in Write, w.columns = Changed(old, w.row)
  PROVE  Merged(old, w) = w.row
<1>1. w.row \in Row
  BY DEF Write
<1>2. \A f \in Fields : f \in w.columns <=> old.config[f] # w.row.config[f]
  BY VersionsAssumption DEF Changed
<1>3. /\ "status" \in w.columns <=> old.status # w.row.status
      /\ "version" \in w.columns <=> old.version # w.row.version
  BY <1>1, ChangedColumns
<1>4. [f \in Fields |-> IF f \in w.columns THEN w.row.config[f] ELSE old.config[f]]
        = w.row.config
  <2>1. w.row.config = [f \in Fields |-> w.row.config[f]]
    BY <1>1 DEF Row, Config
  <2> QED
    BY <1>2, <2>1
<1>5. w.row = [config |-> w.row.config, status |-> w.row.status, version |-> w.row.version]
  BY <1>1 DEF Row
<1>6. Merged(old, w) = [config |-> w.row.config, status |-> w.row.status,
                        version |-> w.row.version]
  BY <1>3, <1>4 DEF Merged
<1> QED
  BY <1>5, <1>6

\* A handler prepares a write.
LEMMA HistoryPrepare ==
  ASSUME VersionsInv, HistoryInv,
         NEW r \in Replicas, NEW a \in Agents, NEW new \in Row,
         NEW insert \in Version \cup {Null}, NEW event \in BOOLEAN,
         Prepare(r, a, new, insert, event),
         event /\ insert # Null => new.config = insert.snapshot,
         event /\ insert = Null => /\ new.version \in VersionIds /\ versions[new.version] # Null
                                   /\ new.config = versions[new.version].snapshot,
         ~event => new.version = agents[a].version,
         insert # Null => new.version # agents[a].version
  PROVE  HistoryInv'
<1> DEFINE w == [agent |-> a, row |-> new, columns |-> Changed(agents[a], new),
                 insert |-> insert, event |-> event]
<1>1. /\ pending' = [pending EXCEPT ![r] = w] /\ agents[a] \in Row
      /\ agents' = agents /\ versions' = versions /\ told' = told
      /\ overtaken' = overtaken /\ strayed' = strayed
  BY DEF Prepare, VersionsInv, TypeOK
<1>2. UpToDate(w)
  BY DEF UpToDate
<1>3. SetsVersion(w)
  BY <1>1, ChangedColumns DEF SetsVersion
<1> HIDE DEF w
<1>4. pending'[r] = w /\ \A q \in Replicas : q # r => pending'[q] = pending[q]
  BY <1>1 DEF VersionsInv, TypeOK
<1>5. AllUpToDate'
  <2> SUFFICES ASSUME NEW q \in Replicas \ overtaken, pending'[q] # Null
               PROVE  UpToDate(pending[q])'
    BY <1>1 DEF AllUpToDate
  <2>1. UpToDate(pending'[q])
    BY <1>2, <1>4 DEF HistoryInv, AllUpToDate
  <2> QED
    BY <1>1, <2>1 DEF UpToDate
<1>6. AllSetVersion'
  BY <1>3, <1>4 DEF HistoryInv, AllSetVersion, SetsVersion
<1>7. ToldInTime' /\ EventNamesTheVersion'
  BY <1>1 DEF HistoryInv, ToldInTime, EventNamesTheVersion
<1> QED
  BY <1>5, <1>6, <1>7 DEF HistoryInv

\* A commit that was not overtaken leaves the row prepared.
LEMMA CommittedRow ==
  ASSUME VersionsInv, HistoryInv, NEW r \in Replicas, Commit(r),
         r \notin overtaken
  PROVE  /\ agents'[pending[r].agent] = pending[r].row
         /\ UpToDate(pending[r])
<1>1. pending[r] \in Write /\ pending[r] # Null
  BY DEF VersionsInv, TypeOK, Commit
<1>2. UpToDate(pending[r]) /\ PreparedWell(pending[r])
  BY <1>1 DEF HistoryInv, AllUpToDate, VersionsInv, Prepared
<1>3. /\ pending[r].agent \in Agents
      /\ agents[pending[r].agent] \in Row
  BY <1>1, <1>2 DEF PreparedWell, Write, VersionsInv, TypeOK
<1>4. Merged(agents[pending[r].agent], pending[r]) = pending[r].row
  BY <1>1, <1>2, <1>3, MergedIsNew DEF UpToDate
<1>5. agents'[pending[r].agent] = Merged(agents[pending[r].agent], pending[r])
  BY <1>3 DEF Commit, VersionsInv, TypeOK
<1> QED
  BY <1>2, <1>4, <1>5

\* A commit keeps the history.
LEMMA HistoryCommit ==
  ASSUME VersionsInv, HistoryInv, NEW r \in Replicas, Commit(r)
  PROVE  HistoryInv'
<1> DEFINE w == pending[r]
<1>1. w \in Write /\ w # Null
  BY DEF VersionsInv, TypeOK, Commit
<1>2. PreparedWell(w) /\ w.agent \in Agents /\ w.row \in Row
  BY <1>1 DEF VersionsInv, Prepared, Write
<1>3. /\ \A b \in Agents : b # w.agent => agents'[b] = agents[b]
      /\ versions' = IF w.insert = Null THEN versions
                     ELSE [versions EXCEPT ![w.row.version] = w.insert]
      /\ told' = IF w.event THEN [told EXCEPT ![w.agent] = w.row.version] ELSE told
      /\ pending'[r] = Null
      /\ \A q \in Replicas : q # r => pending'[q] = pending[q]
      /\ overtaken' = (overtaken \ {r}) \cup
            {q \in Replicas \ {r} : pending[q] # Null /\ pending[q].agent = w.agent}
  BY DEF Commit, VersionsInv, TypeOK
<1>4. \A v \in VersionIds : versions[v] # Null => versions'[v] = versions[v]
  BY <1>2, <1>3 DEF PreparedWell, VersionsInv, TypeOK
<1>5. /\ agents[w.agent] # Null /\ agents'[w.agent] # Null
      /\ agents'[w.agent].version = IF "version" \in w.columns THEN w.row.version
                                    ELSE agents[w.agent].version
  <2>1. agents'[w.agent] = Merged(agents[w.agent], w)
    BY <1>2 DEF Commit, VersionsInv, TypeOK
  <2>2. agents[w.agent] \in Row
    BY <1>2 DEF PreparedWell, VersionsInv, TypeOK
  <2> QED
    BY <1>1, <1>2, <2>1, <2>2, MergedRow, VersionsAssumption DEF PreparedWell
<1>6. r \notin overtaken => agents'[w.agent] = w.row
  BY CommittedRow
<1>7. strayed' = IF ~w.event THEN strayed
                 ELSE IF w.insert = Null /\ r \in overtaken THEN strayed \cup {w.agent}
                 ELSE strayed \ {w.agent}
  BY DEF Commit
<1>8. SetsVersion(w)
  BY <1>1 DEF HistoryInv, AllSetVersion
<1> HIDE DEF w
<1>9. AllUpToDate'
  <2> SUFFICES ASSUME NEW q \in Replicas \ overtaken', pending'[q] # Null
               PROVE  UpToDate(pending[q])'
    BY DEF AllUpToDate
  <2>1. q # r /\ pending'[q] = pending[q]
    BY <1>3
  <2>2. q \notin overtaken /\ pending[q].agent # w.agent
    BY <1>3, <2>1
  <2>3. UpToDate(pending[q]) /\ pending[q] \in Write
    BY <2>1, <2>2 DEF HistoryInv, AllUpToDate, VersionsInv, TypeOK
  <2>4. agents'[pending[q].agent] = agents[pending[q].agent]
    BY <1>3, <2>2, <2>3 DEF Write
  <2> QED
    BY <1>4, <2>1, <2>3, <2>4 DEF UpToDate
<1>10. AllSetVersion'
  BY <1>3 DEF HistoryInv, AllSetVersion, SetsVersion
<1>11. ToldInTime'
  <2> SUFFICES ASSUME NEW b \in Agents, agents'[b] = Null PROVE told'[b] = Null
    BY DEF ToldInTime
  <2>1. b # w.agent /\ agents[b] = Null
    BY <1>3, <1>5
  <2> QED
    BY <1>3, <2>1 DEF HistoryInv, ToldInTime, VersionsInv, TypeOK
<1>12. EventNamesTheVersion'
  <2> SUFFICES ASSUME NEW b \in Agents, b \notin strayed', agents'[b] # Null
               PROVE  agents'[b].version = told'[b]
    BY DEF EventNamesTheVersion
  <2>1. CASE b # w.agent
    <3>1. agents'[b] = agents[b] /\ told'[b] = told[b] /\ b \notin strayed
      BY <1>3, <1>7, <2>1 DEF VersionsInv, TypeOK
    <3> QED
      BY <3>1 DEF HistoryInv, EventNamesTheVersion
  <2>2. CASE b = w.agent
    <3>1. CASE w.event
      <4>1. told'[b] = w.row.version
        BY <1>2, <1>3, <2>2, <3>1 DEF VersionsInv, TypeOK
      <4>2. w.insert # Null \/ r \notin overtaken
        BY <1>7, <2>2, <3>1
      <4>3. agents'[b].version = w.row.version
        BY <1>5, <1>6, <1>8, <2>2, <4>2 DEF SetsVersion
      <4> QED
        BY <4>1, <4>3
    <3>2. CASE ~w.event
      <4>1. b \notin strayed /\ told' = told /\ agents'[b].version = agents[b].version
        BY <1>3, <1>5, <1>7, <1>8, <2>2, <3>2 DEF SetsVersion
      <4> QED
        BY <1>5, <2>2, <4>1 DEF HistoryInv, EventNamesTheVersion
    <3> QED
      BY <3>1, <3>2
  <2> QED
    BY <2>1, <2>2
<1> QED
  BY <1>9, <1>10, <1>11, <1>12 DEF HistoryInv

\* Every step keeps the history.
LEMMA HistoryStep == VersionsInv /\ HistoryInv /\ [Next]_vars => HistoryInv'
<1> SUFFICES ASSUME VersionsInv, HistoryInv, [Next]_vars PROVE HistoryInv'
  OBVIOUS
<1>1. ASSUME NEW r \in Replicas, NEW a \in Agents, NEW config \in Config, Create(r, a, config)
      PROVE  HistoryInv'
  <2> DEFINE row == [config |-> config, status |-> "draft", version |-> Null]
  <2>1. /\ agents[a] = Null /\ agents'[a] = row
        /\ \A b \in Agents : b # a => agents'[b] = agents[b]
        /\ versions' = versions /\ pending' = pending /\ told' = told
        /\ overtaken' = overtaken /\ strayed' = strayed
    BY <1>1 DEF Create, VersionsInv, TypeOK
  <2>2. row # Null /\ row.version = Null
    BY VersionsAssumption DEF Row
  <2> HIDE DEF row
  <2>3. AllUpToDate'
    <3> SUFFICES ASSUME NEW q \in Replicas \ overtaken, pending[q] # Null
                 PROVE  UpToDate(pending[q])'
      BY <2>1 DEF AllUpToDate
    <3>1. UpToDate(pending[q]) /\ PreparedWell(pending[q]) /\ pending[q].agent \in Agents
      BY DEF HistoryInv, AllUpToDate, VersionsInv, Prepared, TypeOK, Write
    <3>2. agents'[pending[q].agent] = agents[pending[q].agent]
      BY <2>1, <3>1 DEF PreparedWell
    <3> QED
      BY <2>1, <3>1, <3>2 DEF UpToDate
  <2>4. ToldInTime' /\ EventNamesTheVersion'
    BY <2>1, <2>2 DEF HistoryInv, ToldInTime, EventNamesTheVersion
  <2> QED
    BY <2>1, <2>3, <2>4 DEF HistoryInv, AllSetVersion, SetsVersion
<1>2. ASSUME NEW r \in Replicas, NEW a \in Agents, NEW patch \in Patches, Update(r, a, patch)
      PROVE  HistoryInv'
  <2> DEFINE row == Patched(agents[a], patch)
  <2>1. agents[a] \in Row /\ Prepare(r, a, row, Null, FALSE)
    BY <1>2 DEF Update, Prepare, VersionsInv, TypeOK
  <2>2. \A f \in Fields : f \in DOMAIN patch => patch[f] \in Values
    BY DEF Patches
  <2>3. row \in Row /\ row.version = agents[a].version
    BY <2>1, <2>2 DEF Patched, Row, Config
  <2> HIDE DEF row
  <2> QED
    BY <2>1, <2>3, HistoryPrepare
<1>3. ASSUME NEW r \in Replicas, NEW a \in Agents, NEW v \in VersionIds,
             NEW now \in 1..MaxTime, Publish(r, a, v, now)
      PROVE  HistoryInv'
  <2> DEFINE row == [agents[a] EXCEPT !.status = "published", !.version = v]
             insert == [agent |-> a, snapshot |-> agents[a].config, at |-> now]
  <2>1. agents[a] \in Row /\ Prepare(r, a, row, insert, TRUE)
    BY <1>3 DEF Publish, Prepare, VersionsInv, TypeOK
  <2>2. v # agents[a].version
    BY <1>3, <2>1, VersionsAssumption DEF Publish, Prepare, VersionsInv, PublishedIsOwn
  <2>3. row \in Row /\ row.config = agents[a].config /\ row.version # agents[a].version
    BY <2>1, <2>2 DEF Row
  <2>4. insert \in Version /\ insert # Null /\ insert.snapshot = agents[a].config
    BY <2>1, VersionsAssumption DEF Version, Row
  <2> HIDE DEF row, insert
  <2> QED
    BY <2>1, <2>3, <2>4, HistoryPrepare
<1>4. ASSUME NEW r \in Replicas, NEW a \in Agents, NEW target \in VersionIds \cup {Null},
             Rollback(r, a, target)
      PROVE  HistoryInv'
  <2>1. PICK v \in Targets(a, target) : Prepare(r, a, Restored(agents[a], v), Null, TRUE)
    BY <1>4 DEF Rollback
  <2>2. v \in VersionIds /\ versions[v] # Null /\ versions[v] \in Version
    BY DEF Targets, VersionsInv, TypeOK
  <2>3. agents[a] \in Row
    BY <1>4 DEF Rollback, VersionsInv, TypeOK
  <2> DEFINE row == Restored(agents[a], v)
  <2>4. row \in Row /\ row.version = v /\ row.config = versions[v].snapshot
    BY <2>2, <2>3 DEF Restored, Row, Version
  <2> HIDE DEF row
  <2> QED
    BY <2>1, <2>2, <2>4, HistoryPrepare DEF row
<1>5. ASSUME NEW r \in Replicas, Abandon(r)
      PROVE  HistoryInv'
  <2>1. /\ pending' = [pending EXCEPT ![r] = Null]
        /\ agents' = agents /\ versions' = versions /\ told' = told
        /\ overtaken' = overtaken \ {r} /\ strayed' = strayed
    BY <1>5 DEF Abandon
  <2>2. \A q \in Replicas : pending'[q] # Null => q # r /\ pending'[q] = pending[q]
    BY <2>1 DEF VersionsInv, TypeOK
  <2>3. AllUpToDate'
    <3> SUFFICES ASSUME NEW q \in Replicas \ overtaken', pending'[q] # Null
                 PROVE  UpToDate(pending[q])'
      BY DEF AllUpToDate
    <3>1. pending'[q] = pending[q] /\ UpToDate(pending[q])
      BY <2>1, <2>2 DEF HistoryInv, AllUpToDate
    <3> QED
      BY <2>1, <3>1 DEF UpToDate
  <2>4. AllSetVersion'
    BY <2>2 DEF HistoryInv, AllSetVersion, SetsVersion
  <2> QED
    BY <2>1, <2>3, <2>4 DEF HistoryInv, ToldInTime, EventNamesTheVersion
<1>6. CASE UNCHANGED vars
  BY <1>6 DEF vars, HistoryInv, AllUpToDate, UpToDate, AllSetVersion, SetsVersion, ToldInTime,
     EventNamesTheVersion
<1> QED
  BY <1>1, <1>2, <1>3, <1>4, <1>5, <1>6, HistoryCommit DEF Next

\* Whatever overlaps, the version an agent shows is the one its last agent.published
\* event named, unless that was the event of a rollback that was overtaken.
THEOREM EventsNameTheVersion == Spec => []EventNamesTheVersion
<1>1. HistoryInv => EventNamesTheVersion
  BY DEF HistoryInv
<1> QED
  BY <1>1, InitInv, NextInv, HistoryInit, HistoryStep, PTL DEF Spec

\* The commit of a publication or rollback that was not overtaken leaves the snapshot.
LEMMA SnapshotStep ==
  ASSUME VersionsInv, HistoryInv, NEW r \in Replicas \ overtaken, Commit(r), pending[r].event
  PROVE  LET a == pending[r].agent
         IN  agents'[a].config = versions'[told'[a]].snapshot
<1> DEFINE w == pending[r]
<1>1. agents'[w.agent] = w.row /\ UpToDate(w)
  BY CommittedRow
<1>2. w \in Write /\ w # Null /\ PreparedWell(w)
  BY DEF Commit, VersionsInv, TypeOK, Prepared
<1>3. /\ versions' = IF w.insert = Null THEN versions
                     ELSE [versions EXCEPT ![w.row.version] = w.insert]
      /\ told'[w.agent] = w.row.version
  BY <1>2 DEF Commit, Write, VersionsInv, TypeOK
<1>4. CASE w.insert = Null
  BY <1>1, <1>3, <1>4 DEF UpToDate
<1>5. CASE w.insert # Null
  <2>1. w.row.version \in VersionIds
    BY <1>2, <1>5 DEF PreparedWell, Write, Row
  <2>2. versions'[w.row.version] = w.insert
    BY <1>3, <1>5, <2>1 DEF VersionsInv, TypeOK
  <2> QED
    BY <1>1, <1>3, <1>5, <2>2 DEF UpToDate
<1> QED
  BY <1>4, <1>5

\* A publication or a rollback that was not overtaken, to the current version too, makes
\* the snapshot of the version it announces the live configuration.
THEOREM VersionsSetTheConfig == Spec => VersionSetsConfig
<1>1. VersionsInv /\ HistoryInv /\ [Next]_vars =>
        [\A r \in Replicas \ overtaken : Commit(r) /\ pending[r].event =>
           LET a == pending[r].agent
           IN  agents'[a].config = versions'[told'[a]].snapshot]_vars
  BY SnapshotStep
<1> QED
  BY <1>1, InitInv, NextInv, HistoryInit, HistoryStep, PTL DEF Spec, VersionSetsConfig
================================================================================
