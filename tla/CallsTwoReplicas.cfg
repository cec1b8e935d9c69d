SPECIFICATION Spec
CONSTANTS
    Replicas = {r1, r2}
    Ids = {c1}
    Texts = {t1, t2}
    Reported = {"booking_created", "escalated"}
    HistoryLimit = 1
    MaxTurns = 3
    Null = Null
SYMMETRY Symmetry
INVARIANTS
    TypeOK
    TurnsInOrder
    CompletionIsWhole
    EndsTogether
    NothingFromTheFuture
