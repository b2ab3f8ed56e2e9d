SPECIFICATION Spec
CONSTANTS
    MaxBlocks = 3
    MaxTurns = 2
    MaxToolCalls = 2
INVARIANTS
    Accepted
    TurnsEchoed
    OnlyWholeCalls
CHECK_DEADLOCK FALSE
