CONSTANTS
    N = 2
    M = 2
    RatePct = 50
    Window = 2
    MinSamples = 3
    Workers = 1
    QueueCap = 1
    Clients = 1
    Shared = FALSE
    MaxOutages = 1
    MaxBad = 1
    MaxRetrying = 1
    MaxOutcomes = 4
SPECIFICATION FairSpec
PROPERTY GateReopens
