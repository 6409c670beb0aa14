CONSTANTS
    N = 3
    M = 2
    RatePct = 50
    Window = 2
    MinSamples = 4
    Workers = 1
    QueueCap = 1
    Clients = 1
    Shared = TRUE
    MaxOutages = 1
    MaxBad = 1
    MaxRetrying = 1
    MaxOutcomes = 5
SPECIFICATION FairSpec
INVARIANT GateFollowsOutcomes
PROPERTIES NoFlapping ReopensUnlessStuck
