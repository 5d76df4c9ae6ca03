CONSTANTS
    Identity = {i1}
    Job = {j1, j2}
    Caller = {c1}
    None = None
    Known <- NoIdentity
    Requests <- Core
    AsyncModes <- BothModes
    Outcomes <- AllReturns
    SlowDaemon = TRUE
    MaxCrashes = 1
SPECIFICATION Spec
SYMMETRY Symmetry
INVARIANTS TypeOK CompletedIsAnswered 
PROPERTIES DeletedIsAnswered CompletedStays RestartSettles LedgerSpec
CHECK_DEADLOCK FALSE
