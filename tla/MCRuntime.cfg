CONSTANTS
    Sizes <- Pass
    Binders = {u1, u2, u3}
    Root = "p"
    Children = {c1, c2}
    MaxChildTasks = 1
    Users = {h1, h2}
    MaxBudget = 2
    MaxGoals = 2
    Ints = {i1}
    Dels = {d1}
    Quits = {k1}
    Notices = {"n1"}
    MaxPending = 2
    MaxPrompts = 1
    Permissions = {"p1"}
    Questions = {"q1"}
    ApiClients = {"u1"}
    MaxKeys = 3
    Nobody = Nobody
    Failed = Failed
    Missing = Missing
    NoGoal = NoGoal
    NoReply = NoReply
SPECIFICATION AllSpec
\* The client may have read everything; histories, goals and handlers run out.
CHECK_DEADLOCK FALSE
INVARIANTS
    TranscriptIsFaithful
    SummariesFit
    GoalRespected
    RepliesAreMeant
PROPERTIES
    RuntimesAccounted
    StopsAreOrderly
