CONSTANTS
    None = None
    Identity = {i1, i2}
    Ignored = {i2}
    Cycle = {"O", "I", "D", "M"}
    First = "O"
    Manual <- ManualRules
    Caller = {c1}
    Run = {}
    Loader = {l1}
    Rulebook <- Events
    Requests <- Changes
    MayRefuse = TRUE
    MaxRequests = 3
    MaxRewrites = 0
    MaxAgings = 0
    MaxRestarts = 0
SPECIFICATION FairSpec
INVARIANTS TypeOK HistoryAccounts
PROPERTIES AnswerMeansTold CallsEnd 
CHECK_DEADLOCK FALSE
