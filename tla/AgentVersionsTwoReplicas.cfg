SPECIFICATION Spec
CONSTANTS
    Replicas = {r1, r2}
    Agents = {a1, a2}
    Fields = {"name", "business_hours"}
    Values = {x, y}
    VersionIds = {v1, v2}
    MaxTime = 2
    Null = Null
SYMMETRY Symmetry
INVARIANTS
    TypeOK
    PublishedIsOwn
    EventNamesTheVersion
PROPERTY VersionSetsConfig
