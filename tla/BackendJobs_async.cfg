CONSTANTS
    Identity = {i1, i2}
    Job = {j1, j2}
    Caller = {c1}
    None = None
    Known = {i2}
    Requests <- Detached
    AsyncModes <- OnlyAsync
    Outcomes <- AllReturns
    SlowDaemon = FALSE
    MaxCrashes = 0
SPECIFICATION FairSpec
INVARIANTS QuietIdentityAgrees
PROPERTIES SuccessIsRecorded
CHECK_DEADLOCK FALSE
