--------------------------- MODULE MCAgentVersions ---------------------------
(* Small instances of AgentVersions for TLC. *)
EXTENDS AgentVersions, TLC

Symmetry ==
    Permutations(Replicas) \cup Permutations(Agents) \cup Permutations(VersionIds)
        \cup Permutations(Values)
==============================================================================
