CONSTANTS
    Null = null
    MaxFetches = 2
    MaxBytes = 1
    Hosts = {"cdn", "lan", "elsewhere"}
    NoHost = nohost
    AllowHosts = {"cdn"}
    PrivateHosts = {"lan"}
    MediaTypes = {"video/mp4", "text/html"}
    AllowTypes = {"video/mp4"}
    Workflows <- Configured
    DefaultWorkflow <- sparse
    Pictures <- AllPictures
    Undecodable = {9}
    Oversize = {7}
    Class <- Content
    Selections <- Distinct
    Jobs <- AllJobs
    Setups <- AllSetups
SPECIFICATION FairSpec
INVARIANTS TypeOK WholeOrGone AllowMeansCovered EvidenceAligned NothingLeftOnDisk
PROPERTY EventuallyReturned
CHECK_DEADLOCK FALSE
