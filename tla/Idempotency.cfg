SPECIFICATION Spec
CONSTANTS
    Replicas = {r1, r2}
    Keys = {k1}
    Payloads = {p1, p2}
    EffectIds = {i1, i2, i3}
    MaxWindow = 2
    Expires = TRUE
    Crashes = TRUE
    Null = Null
SYMMETRY Symmetry
INVARIANTS TypeOK AtMostOnce AnswersMatchRequest
PROPERTY FailureMeansNoEffect
