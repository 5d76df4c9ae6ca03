CONSTANTS
    None = None
    Agent = {a1}
    Caller = {c1, c2}
    Plans <- Mixes
    MaxRequests = 4
    Threshold = 2
    Watched = a1
SPECIFICATION FairSpec
INVARIANTS TypeOK EndedStaysEnded 
PROPERTIES LogoutTakesEffect 
CHECK_DEADLOCK FALSE
