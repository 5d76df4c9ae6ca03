CONSTANTS
    None = None
    Identity = {i1}
    Password = {p1, p2}
    Caller = {c1, c2}
    Plans <- CodeOnly
    Plains <- No
    Forms = {"encoded"}
    Threshold = 2
    MaxHistory = 2
    MayFail = FALSE
    MaxRequests = 3
    Watched = i1
SPECIFICATION Spec
INVARIANTS SpentTokenRefused
CHECK_DEADLOCK FALSE
