CONSTANTS
    panel = panel
    metric = metric
    denied = denied
    Panels = {panel}
    Others = {metric, denied}
    Allowed = {panel, metric}
    Images = {A}
    Size <- Sizes
    Budget = 6
    SendImages = TRUE
    MaxIterations = 2
    MaxToolCalls = 2
SPECIFICATION Spec
INVARIANTS
    GracefulTimeout
