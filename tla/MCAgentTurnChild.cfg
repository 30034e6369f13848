\* CreateChild makes a child session; two callers then send to, resume and stop it.
CONSTANTS
    Callers = {c1, c2, k}
    Creators = {k}
    EarlySends = FALSE
    Turns = {t1, t2}
    Messages = {m1, prompt}
    Prompt = prompt
    Methods = {"send", "resume", "shutdown"}
    Child = TRUE
    NoTurn = NoTurn
    NoMessage = NoMessage
SPECIFICATION Spec
SYMMETRY SlotSymmetry
INVARIANTS
    StopsAreClean
