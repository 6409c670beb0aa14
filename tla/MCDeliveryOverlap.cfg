CONSTANTS
    Jobs = {j1}
    Workers = {w1, w2}
    Sinks <- FileAndWebhook
    Routes <- EverythingEverywhere
    Possible = {"allow", "error"}
    EmptyVideos = {}
    MaxRetries = 1
    MaxAttempts = 2
    LostReplies = FALSE
    Overlap = TRUE
    Forgetting = FALSE
    MaxCrashes = 0
    MaxFaults = 1
    MaxReclaims = 1
SPECIFICATION Spec
INVARIANT OncePerLife
CHECK_DEADLOCK FALSE
