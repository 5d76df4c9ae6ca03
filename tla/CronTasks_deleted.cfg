CONSTANTS
    None = None
    Name = {"n1", "n2"}
    Shared = "shared"
    Defaults <- OneDefault
    Schedule = {"s1", "s2"}
    Handler = {"h1"}
    Option = {"o1", "o2"}
    Body <- Bodies
    Caller = {c1, c2}
    Plans <- JustDeletes
    MaxWrites = 3
SPECIFICATION FairSpec
PROPERTIES DeletedIsStopped
CHECK_DEADLOCK FALSE
