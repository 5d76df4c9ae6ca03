CONSTANTS
    None = None
    Name = {"n1", "n2"}
    Shared = "shared"
    Defaults <- OneDefault
    Schedule = {"s1", "s2"}
    Handler = {"h1"}
    Option = {"o1", "o2"}
    Body <- Bodies
    Caller = {c1, c2}
    Plans <- TaskMixes
    MaxWrites = 3
    Torn = Torn
    Stamp = {1, 2, 3}
    Server = api
    Command = {k1}
    Mixes <- MigrationMixes
    Joint <- Pairs
SPECIFICATION FairSystem
INVARIANTS TypesOK NothingSkipped
PROPERTIES  StoredIsListed
CHECK_DEADLOCK FALSE
