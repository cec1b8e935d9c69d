--------------------------- MODULE MCProviderRecords ---------------------------
(* A small instance of ProviderRecords for TLC. *)
EXTENDS ProviderRecords, TLC

CONSTANTS s1, l1, oA, oB

Told(id, about, status, organization) ==
    [id |-> id, about |-> about, status |-> status, organization |-> organization]

\* A subscription is activated, reported without a status, expires; a licence is
\* reported with a status.
SmallReports ==
    { Told("activated", s1, "active", oA), Told("updated", s1, Null, Null),
      Told("expired", s1, "expired", oA), Told("licensed", l1, "active", oA) }

Symmetry == Permutations(Replicas) \cup Permutations(Configs) \cup Permutations(RowIds)
================================================================================
