SPECIFICATION Spec
CONSTANTS
    s1 = s1
    l1 = l1
    oA = oA
    oB = oB
    Replicas = {r1, r2}
    Subscriptions = {s1}
    Licenses = {l1}
    Providers = {g1}
    Organizations = {oA, oB}
    DefaultOrganization = oB
    Reports <- SmallReports
    Configs = {c1, c2}
    RowIds = {i1, i2}
    MaxLog = 3
    Null = Null
SYMMETRY Symmetry
INVARIANTS
    TypeOK
    RowFollowsLog
    EventsTellTheStatus
    OneIntegration
PROPERTY
    StatusIsKept
