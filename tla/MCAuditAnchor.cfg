CONSTANTS
    Jobs = {a, b}
    AllowEmptyVideoSkip = FALSE
    FailingWrites = {"head"}
    MaxAppends = 3
    MaxCrashes = 0
    MaxFaults = 1
    MaxLosses = 0
SPECIFICATION Spec
SYMMETRY JobSymmetry
INVARIANT FailureMeansLoss
CHECK_DEADLOCK FALSE
