CONSTANTS
    Identity = {i1}
    Job = {j1, j2}
    Caller = {c1, c2}
    None = None
    Known <- NoIdentity
    Requests <- Racing
    AsyncModes <- OnlySync
    Outcomes <- OkOrError
    SlowDaemon = TRUE
    MaxCrashes = 0
SPECIFICATION FairSpec
INVARIANTS SyncedIsSuccess
PROPERTIES RequestsEnd
CHECK_DEADLOCK FALSE
