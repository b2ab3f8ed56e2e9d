CONSTANTS
    Workers = {w1}
    w1 = w1
    MaxJobs = 1
    MaxDeliveries = 2
    BatchSize = 1
    MaxTroubles = 0
SPECIFICATION Spec
INVARIANT
    NeverSilentlyDropped
