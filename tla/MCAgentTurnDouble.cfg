\* CreateChild starts the first turn of its child while another caller sends to it.
CONSTANTS
    Callers = {c1, k}
    Creators = {k}
    EarlySends = TRUE
    Turns = {t1, t2}
    Messages = {m1, prompt}
    Prompt = prompt
    Methods = {"send"}
    Child = TRUE
    NoTurn = NoTurn
    NoMessage = NoMessage
SPECIFICATION Spec
INVARIANTS
    AtMostOneDrain
