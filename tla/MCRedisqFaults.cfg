CONSTANTS
    j1 = j1
    j2 = j2
    Jobs = {j1}
    Instances = {r1,r2}
    Legacy = legacy
    Workers = {w1}
    MaxRetries = 1
    DeadLetterMax = 1
    Left <- NoLeft
    Undecodable = {}
    Unnamed = unnamed
    MaxPending = 1
    MaxDepartures = 1
    MaxFaults = 1
    MaxStalls = 1
    DrainOutlivesReclaim = FALSE
SPECIFICATION Spec
CONSTRAINT OneTrouble
SYMMETRY ReplicaSymmetry
INVARIANTS TypeOK NothingLost HandoverSafe
PROPERTY ImplementsQueue
CHECK_DEADLOCK FALSE
