CONSTANTS
    panel = panel
    metric = metric
    denied = denied
    Panels = {panel}
    Others = {metric, denied}
    Allowed = {panel, metric}
    Images = {A, B}
    Size <- Sizes
    Budget = 6
    SendImages = TRUE
    MaxIterations = 3
    MaxToolCalls = 2
SPECIFICATION Spec
INVARIANTS
    TypeOK
    CallsAnswered
    TrimsInOrder
    NothingTwice
PROPERTIES
    ImplementsAttempt
    Ends
