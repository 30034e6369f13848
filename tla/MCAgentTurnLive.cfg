\* Liveness of a child session: its creator and one caller, a prompt from each.
CONSTANTS
    Callers = {c1, k}
    Creators = {k}
    EarlySends = FALSE
    Turns = {t1, t2}
    Messages = {m1, prompt}
    Prompt = prompt
    Methods = {"send", "interrupt", "shutdown", "remove"}
    Child = TRUE
    NoTurn = NoTurn
    NoMessage = NoMessage
SPECIFICATION FairSpec
PROPERTIES
    TurnsMoveOn
