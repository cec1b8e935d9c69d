SPECIFICATION FairSpec
CONSTANTS
    Replicas = {r1}
    Workers = {w1}
    h1 = h1
    h2 = h2
    o1 = o1
    o2 = o2
    h3 = h3
    Hooks = {h1, h2}
    Orgs = {o1}
    OrgOf <- MCOneOrg
    DefaultOrg = o1
    MaxAttempts = 2
    BatchSize = 1
    MaxEvents = 2
    MaxCrashes = 1
    ByHand = FALSE
    Raising = {}
    Null = Null
INVARIANTS
    TypeOK
    LedgerMatches
PROPERTIES
    ImplementsLedger
    RetriesSettle
