CONSTANTS
    None = None
    Identity = {i1, i2, i3}
    Ignored = {i3}
    Cycle = {"O", "I", "D", "M"}
    First = "O"
    Manual <- ManualRules
    Caller = {}
    Run = {r1}
    Loader = {l1, l2}
    Rulebook <- CronBooks
    Requests <- OnDemand
    MayRefuse = TRUE
    MaxRequests = 1
    MaxRewrites = 1
    MaxAgings = 2
    MaxRestarts = 1
SPECIFICATION FairSpec
INVARIANTS HistoryAccounts IInv
PROPERTIES DueIsProcessed CacheConverges
CHECK_DEADLOCK FALSE
