CONSTANTS
    Queues = {1, 2}
    Items = {i1}
    Users = {"u1", "u3"}
    Deliverers = {"u1"}
    Stores = {"s1", "s2"}
    StoreOf <- MCStoreOf
    MaxIds = 2
    MaxCrashes = 1
    None = None
    Orphan = Orphan
    Hosts = {p1, p2, p3}
    Sessions = {"s1", "s2"}
    Names = {1, 2, 3}
    MaxOwners = 3
    Patches = {c1, c2}
    Paths = {1, 2}
    Nested = {2}
    Old = "old"
    Absent = "absent"
    Starters = {"p", "q"}
    Former = {"s1"}
    Fresh = {"n"}
    Knows <- MCKnows
    MaxStarts = 2
    MaxFaults = 1
SPECIFICATION AllSpec
SYMMETRY Symmetric
\* A patch is applied once, sessions and names run out.
CHECK_DEADLOCK FALSE
INVARIANTS
    ItemsAccounted
    
    AllOrNothing
    AppliedInPlace
    
