CONSTANTS
    j1 = j1
    j2 = j2
    Jobs = {j1,j2}
    Instances = {r1,r2}
    Legacy = legacy
    Workers = {w1}
    MaxRetries = 1
    DeadLetterMax = 1
    Left <- OneLeft
    Undecodable = {j2}
    Unnamed = unnamed
    MaxPending = 2
    MaxDepartures = 1
    MaxFaults = 0
    MaxStalls = 0
    DrainOutlivesReclaim = FALSE
SPECIFICATION FairSpec
INVARIANTS NoOverlap ClaimsReapable
PROPERTIES LiveClaimsKept EventuallySettled
CHECK_DEADLOCK FALSE
