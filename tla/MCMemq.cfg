CONSTANTS
    Jobs = {a, b}
    Workers = {w1, w2}
    Buffers = {1, 2}
    MaxRetries = 1
    DeadLetterMax = 1
    MaxFinished = 1
    Retrying = {a}
SPECIFICATION FairSpec
INVARIANTS TypeOK ReportsExact NothingLeftBehind FirstClaimsInOrder
PROPERTIES EventuallySettled ImplementsQueue
CHECK_DEADLOCK FALSE
