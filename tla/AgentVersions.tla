----------------------------- MODULE AgentVersions -----------------------------
(***************************************************************************)
(* The configuration of agents and its published versions: create_agent    *)
(* and instantiate_template, update_agent, publish_agent, rollback_agent.  *)
(*                                                                         *)
(* A handler reads the agent's row, decides, and writes when it commits;   *)
(* nothing is locked in between, so the handlers of two replicas           *)
(* interleave at those two points.  The UPDATE of a commit sets only the   *)
(* columns whose value differs from the one loaded.  A handler that        *)
(* another one of the agent commits past is overtaken.                     *)
(***************************************************************************)
EXTENDS Naturals, FiniteSets

CONSTANTS
    Replicas,
    Agents,
    Fields,         \* name, template_id, timezone, default_language, business_hours
    Values,
    VersionIds,     \* uuid4: a publication takes an unused one
    MaxTime,        \* bound: what the replicas' clocks can show
    Null

VARIABLES
    agents,     \* agents[a]: the row of agent a, Null before its creation
    versions,   \* versions[v]: the agent_versions row
    pending,    \* pending[r]: the write replica r has prepared and not committed
    told,       \* told[a]: the version the last agent.published event names
    overtaken,  \* history: the replicas whose agent another has written since they read it
    strayed     \* history: the agents whose last event is of a rollback overtaken

vars == <<agents, versions, pending, told, overtaken, strayed>>

Config == [Fields -> Values]

Row == [config : Config, status : {"draft", "published"}, version : VersionIds \cup {Null}]

Version == [agent : Agents, snapshot : Config, at : 1..MaxTime]

\* An UPDATE of the agent: the row as the handler sees it and the columns it sets.
\* A publication inserts a version too; an event names the version of the row.
Write == [agent : Agents, row : Row, columns : SUBSET (Fields \cup {"status", "version"}),
          insert : Version \cup {Null}, event : BOOLEAN]

ASSUME VersionsAssumption ==
    /\ MaxTime \in Nat
    /\ Fields \cap {"status", "version"} = {}
    /\ Null \notin VersionIds /\ Null \notin Row /\ Null \notin Version /\ Null \notin Write

TypeOK ==
    /\ agents \in [Agents -> Row \cup {Null}]
    /\ versions \in [VersionIds -> Version \cup {Null}]
    /\ pending \in [Replicas -> Write \cup {Null}]
    /\ told \in [Agents -> VersionIds \cup {Null}]
    /\ overtaken \in SUBSET Replicas
    /\ strayed \in SUBSET Agents

Init ==
    /\ agents = [a \in Agents |-> Null]
    /\ versions = [v \in VersionIds |-> Null]
    /\ pending = [r \in Replicas |-> Null]
    /\ told = [a \in Agents |-> Null]
    /\ overtaken = {} /\ strayed = {}

\* Variants with a plausible bug, for the mutation runs: a rollback that accepts the
\* version of any agent, or leaves the configuration alone; an update that empties the
\* fields its payload leaves out; an UPDATE that forgets the version.
TargetsOfAnyone(a, target) == {v \in VersionIds : versions[v] # Null /\ target \in {v, Null}}
RestoredRelabelled(row, v) == [row EXCEPT !.status = "published", !.version = v]
PatchedEmptying(row, patch) ==
    [row EXCEPT !.config = [f \in Fields |-> IF f \in DOMAIN patch THEN patch[f] ELSE Null]]
ChangedConfig(old, new) == {f \in Fields : old.config[f] # new.config[f]}

-------------------------------------------------------------------------------
\* create_agent and instantiate_template: one INSERT of a draft.
Create(r, a, config) ==
    /\ pending[r] = Null
    /\ agents[a] = Null
    /\ agents' = [agents EXCEPT ![a] = [config |-> config, status |-> "draft", version |-> Null]]
    /\ UNCHANGED <<versions, pending, told, overtaken, strayed>>

\* The columns of an UPDATE.
Changed(old, new) ==
    {f \in Fields : old.config[f] # new.config[f]}
        \cup (IF old.status # new.status THEN {"status"} ELSE {})
        \cup (IF old.version # new.version THEN {"version"} ELSE {})

Prepare(r, a, new, insert, event) ==
    /\ pending[r] = Null
    /\ agents[a] # Null
    /\ pending' = [pending EXCEPT ![r] =
            [agent |-> a, row |-> new, columns |-> Changed(agents[a], new),
             insert |-> insert, event |-> event]]
    /\ UNCHANGED <<agents, versions, told, overtaken, strayed>>

(* update_agent: a payload gives some of the fields, whatever the status. *)
Patched(row, patch) ==
    [row EXCEPT !.config = [f \in Fields |-> IF f \in DOMAIN patch THEN patch[f] ELSE @[f]]]

Update(r, a, patch) == Prepare(r, a, Patched(agents[a], patch), Null, FALSE)

(* publish_agent: a snapshot of the configuration read becomes a version, with the *)
(* time of the replica's own clock.                                                *)
Publish(r, a, v, now) ==
    /\ versions[v] = Null
    /\ \A q \in Replicas : pending[q] # Null => pending[q].insert = Null \/ pending[q].row.version # v
    /\ Prepare(r, a, [agents[a] EXCEPT !.status = "published", !.version = v],
               [agent |-> a, snapshot |-> agents[a].config, at |-> now], TRUE)

(* rollback_agent: to the version asked for, or to one with the latest time. *)
Targets(a, target) ==
    LET own == {v \in VersionIds : versions[v] # Null /\ versions[v].agent = a}
    IN  IF target # Null THEN own \cap {target}
        ELSE {v \in own : \A w \in own : versions[w].at <= versions[v].at}

\* The row after the version's snapshot is copied back.
Restored(row, v) ==
    [row EXCEPT !.config = versions[v].snapshot, !.status = "published", !.version = v]

Rollback(r, a, target) ==
    /\ agents[a] # Null
    /\ \E v \in Targets(a, target) : Prepare(r, a, Restored(agents[a], v), Null, TRUE)

-------------------------------------------------------------------------------
Merged(old, w) ==
    [config  |-> [f \in Fields |-> IF f \in w.columns THEN w.row.config[f] ELSE old.config[f]],
     status  |-> IF "status" \in w.columns THEN w.row.status ELSE old.status,
     version |-> IF "version" \in w.columns THEN w.row.version ELSE old.version]

Commit(r) ==
    LET w == pending[r]
    IN  /\ w # Null
        /\ agents' = [agents EXCEPT ![w.agent] = Merged(@, w)]
        /\ versions' = IF w.insert = Null THEN versions
                       ELSE [versions EXCEPT ![w.row.version] = w.insert]
        /\ told' = IF w.event THEN [told EXCEPT ![w.agent] = w.row.version] ELSE told
        /\ pending' = [pending EXCEPT ![r] = Null]
        /\ overtaken' = (overtaken \ {r}) \cup
              {q \in Replicas \ {r} : pending[q] # Null /\ pending[q].agent = w.agent}
        /\ strayed' = IF ~w.event THEN strayed
                      ELSE IF w.insert = Null /\ r \in overtaken THEN strayed \cup {w.agent}
                      ELSE strayed \ {w.agent}

\* An exception (a webhook, the database) or the end of the process.
Abandon(r) ==
    /\ pending[r] # Null
    /\ pending' = [pending EXCEPT ![r] = Null]
    /\ overtaken' = overtaken \ {r}
    /\ UNCHANGED <<agents, versions, told, strayed>>

Patches == UNION {[S -> Values] : S \in SUBSET Fields \ {{}}}

Next ==
    \E r \in Replicas :
        \/ \E a \in Agents, config \in Config : Create(r, a, config)
        \/ \E a \in Agents, patch \in Patches : Update(r, a, patch)
        \/ \E a \in Agents, v \in VersionIds, now \in 1..MaxTime : Publish(r, a, v, now)
        \/ \E a \in Agents, target \in VersionIds \cup {Null} : Rollback(r, a, target)
        \/ Commit(r)
        \/ Abandon(r)

Spec == Init /\ [][Next]_vars

-------------------------------------------------------------------------------
(* Properties *)

\* An agent is published exactly when it has a version, and the version is one of
\* its own that is still there: what a rollback and the execution plane rely on.
PublishedIsOwn ==
    \A a \in Agents : agents[a] # Null =>
        /\ agents[a].status = "published" <=> agents[a].version # Null
        /\ agents[a].version # Null =>
              /\ versions[agents[a].version] # Null
              /\ versions[agents[a].version].agent = a

\* The version an agent shows is the one its last agent.published event named, whatever
\* overlaps, unless that was the event of a rollback past which another handler of the
\* agent committed; the next publication or rollback sets it right.
EventNamesTheVersion ==
    \A a \in Agents \ strayed : agents[a] # Null => agents[a].version = told[a]

\* A publication or a rollback, to the current version too, leaves the snapshot of the
\* version its event names as the live configuration, unless it was overtaken.
VersionSetsConfig ==
    [][\A r \in Replicas \ overtaken : Commit(r) /\ pending[r].event =>
         LET a == pending[r].agent
         IN  agents'[a].config = versions'[told'[a]].snapshot]_vars
================================================================================
