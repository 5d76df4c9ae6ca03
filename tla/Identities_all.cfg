CONSTANTS
    None = None
    Id = {1, 2, 3, 4}
    Number = {1, 2, 3}
    Types = {"A", "B", "LOCAL"}
    Uid = {"u1", "u2"}
    Key = {"k1", "k2"}
    Body <- Bodies1
    Caller = {c1, c2}
    Plans <- Mixes
    FirstUid <- FirstUids
    FirstKey = "k1"
    Known = {2}
SPECIFICATION Spec
INVARIANTS TypeOK NumbersAccounted 
PROPERTIES SecondaryRefused
CHECK_DEADLOCK FALSE
