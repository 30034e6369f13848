CONSTANTS
    Calls = {"m1", "m2"}
    MaxConnections = 2
    NoTarget = NoTarget
    Execs = {"e1"}
    Sends = {"g1"}
    Waits = {"w1"}
    Stops = {"t1"}
    MaxTurns = 2
    MaxMoves = 2
    Callers = {"c1", "c2"}
    MaxIssued = 3
    Capacity = 3
    MaxNotices = 1
    MaxAsks = 1
SPECIFICATION AllSpec
\* Calls are answered, connections run out.
CHECK_DEADLOCK FALSE
INVARIANTS
    ExchangeHolds
    
    StreamIsWhole
    
    
    PromptIsAnswered
    OutputAccounted
    CatalogHolds
