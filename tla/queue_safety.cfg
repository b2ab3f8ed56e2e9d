CONSTANTS
    Workers = {w1, w2}
    w1 = w1
    w2 = w2
    MaxJobs = 2
    MaxDeliveries = 2
    BatchSize = 2
    MaxTroubles = 2
SPECIFICATION Spec
SYMMETRY Symmetry
INVARIANTS
    NoJobVanishes
    DeadOnlyAfterRetries
    OneHand
    DuplicateOnlyAfterMishap
    NoticeOnlyForTheDead
PROPERTY
    ImplementsAtLeastOnce
