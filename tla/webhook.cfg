CONSTANTS
    Requests = {r1, r2}
    r1 = r1
    r2 = r2
    Alerts = {a1, a2}
    a1 = a1
    a2 = a2
    Capacity = 1
    MaxExpiries = 1
    MaxTroubles = 1
    NoJob = NoJob
SPECIFICATION Spec
INVARIANTS
    TypeOK
    OneJobPerWindow
    NoSilentSuppression
    AnsweredMeansCleared
    InOrder
PROPERTIES
    NothingHangs
CHECK_DEADLOCK FALSE
