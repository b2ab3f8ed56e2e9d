SPECIFICATION Spec
CONSTANTS
    Replicas = {r1, r2}
    Size <- SeedSize
    Legacy = {1}
    Redis = TRUE
    MaxTroubles = 2
INVARIANTS
    SeededWhole
    CleanStop
PROPERTIES
    StopsAndStarts
