CONSTANTS
    None = None
    Identity = {i1}
    Password = {p1, p2}
    Caller = {c1, c2}
    Plans <- Mixed
    Plains <- Yes
    Forms = {"encoded", "raw"}
    Threshold = 2
    MaxHistory = 2
    MayFail = TRUE
    MaxRequests = 5
    Watched = i1
SPECIFICATION Spec
SYMMETRY Symmetry
INVARIANTS TypeOK SpentTokenRefused StoredTokenOpens   
 
CHECK_DEADLOCK FALSE
