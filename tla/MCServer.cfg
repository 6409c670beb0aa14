SPECIFICATION FairSpec
CONSTANTS
    Registered = {"shieldgemma", "hive"}
    policyPrompts = {"sexually_explicit", "violence_gore"}
    Canonical = {"SEXUAL", "OTHER"}
    Formats = {"json"}
    Null = Null
    Configs <- MCConfigs
    Envelopes <- MCEnvelopes
    Requests <- MCRequests
    MaxJobs = 3
    MaxRequests = 1
    MaxActive = 1
    MaxEntries = 2
    Repeated = {1}
INVARIANTS TypeOK BootedIsSound BootReleases AnswerStays DoneIsOnRecord
PROPERTIES EventuallyStopped
CHECK_DEADLOCK FALSE
