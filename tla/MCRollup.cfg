CONSTANTS
    Categories = {"SEXUAL", "OTHER", "new_head"}
    Canonical = {"SEXUAL", "OTHER"}
    Labels = {lab}
    Scores = {0, 1, 2}
    Null = null
    MaxFrames = 2
    MaxResults = 2
    Modes = {"off", "hybrid", "override"}
    Inputs <- SmallInputs
    Settings <- SmallSettings
SPECIFICATION Spec
INVARIANTS TypeOK VerdictSound TopIsMax
CHECK_DEADLOCK FALSE
