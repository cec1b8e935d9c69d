SPECIFICATION Spec
\* with every key revoked and every process started there is nothing left to do
CHECK_DEADLOCK FALSE
CONSTANTS
    acme = acme
    acme2 = acme2
    acme3 = acme3
    acme22 = acme22
    acme23 = acme23
    Processes = {p1, p2}
    Bootstrap = {b1}
    Drawn = {d1}
    Bases <- SmallBases
    Slugs <- SmallSlugs
    Numbered <- SmallNumbered
    HomeSlug = acme
    MaxAccounts = 1
    MaxCrashes = 2
    MaxRevoked = 1
    Null = Null
INVARIANTS
    TypeOK
    ServingMeansSeeded
    NoDoubleKeys
    SlugStillFree
PROPERTIES
    RevokedForGood
    StartsSettle
