CONSTANTS
    None = None
    Identity = {i1}
    Ignored = {}
    Cycle = {"O", "I", "D", "M"}
    First = "O"
    Manual <- ManualRules
    Caller = {}
    Run = {r1}
    Loader = {l1}
    Rulebook <- TwoBooks
    Requests <- NoRequest
    MayRefuse = TRUE
    MaxRequests = 3
    MaxRewrites = 1
    MaxAgings = 1
    MaxRestarts = 0
SPECIFICATION Spec
PROPERTIES CronFollowsConfig
CHECK_DEADLOCK FALSE
