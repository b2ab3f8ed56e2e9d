CONSTANTS
    Workers = {w1}
    w1 = w1
    MaxJobs = 2
    MaxDeliveries = 3
    BatchSize = 2
    MaxTroubles = 2
SPECIFICATION FairSpec
PROPERTY
    EveryJobCloses
