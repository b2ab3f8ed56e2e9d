SPECIFICATION Spec
CONSTANTS
    e1 = e1
    e2 = e2
    Editors = {e1, e2}
    Rows = 3
    Keys = {"severity"}
    Values = {"critical"}
    Copied = {1}
    MaxRequests = 2
    MaxTroubles = 1
SYMMETRY Symmetry
INVARIANTS
    TypeOK
    MoveSwapsNeighbours
    ImportLoads
    CaughtByTheFirst
CHECK_DEADLOCK FALSE
