SPECIFICATION Spec
CONSTANTS
    Replicas = {r1}
    Workers = {w1}
    h1 = h1
    h2 = h2
    o1 = o1
    o2 = o2
    h3 = h3
    Hooks = {h1, h2, h3}
    Orgs = {o1, o2}
    OrgOf <- MCTwoOrgs
    DefaultOrg = o1
    MaxAttempts = 2
    BatchSize = 2
    MaxEvents = 1
    MaxCrashes = 1
    ByHand = TRUE
    Raising = {h3}
    Null = Null
INVARIANT RowsClaimOnlyPosts
PROPERTY OnlyRaisingUndoes
