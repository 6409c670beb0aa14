CONSTANTS
    Jobs = {j1, j2}
    Workers = {w1}
    Sinks <- FileAndWebhook
    Routes <- AlertsToFile
    Possible = {"flag", "error"}
    EmptyVideos = {j2}
    MaxRetries = 1
    MaxAttempts = 2
    LostReplies = TRUE
    Overlap = FALSE
    Forgetting = TRUE
    MaxCrashes = 1
    MaxFaults = 3
    MaxReclaims = 0
SPECIFICATION FairSpec
INVARIANTS TypeOK SettledIsDelivered
PROPERTY EventuallyAnswered
CHECK_DEADLOCK FALSE
