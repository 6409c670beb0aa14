CONSTANTS
    Jobs = {a, b}
    AllowEmptyVideoSkip = TRUE
    FailingWrites = {"log", "head"}
    MaxAppends = 3
    MaxCrashes = 2
    MaxFaults = 1
    MaxLosses = 1
SPECIFICATION Spec
SYMMETRY JobSymmetry
INVARIANTS TypeOK OneVerdictPerJob LaggingIsNoLoss PassMeansIntact
CHECK_DEADLOCK FALSE
