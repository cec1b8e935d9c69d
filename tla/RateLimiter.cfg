SPECIFICATION Spec
CONSTANTS
    r1 = r1
    r3 = r3
    Replicas = {r1, r3}
    Limit = 3
    Window = 4
    Skew <- SmallSkew
    MaxSkew = 1
    MaxDelay = 1
    MaxTime = 5
    MaxRequests = 5
    Null = Null
INVARIANTS
    TypeOK
    WindowBound
    RefusedForCause
