\* Two callers of an existing root session; turns without end.
CONSTANTS
    Callers = {c1, c2}
    Creators = {}
    EarlySends = FALSE
    Turns = {t1, t2}
    Messages = {m1}
    Prompt = prompt
    Methods = {"send", "wake", "interrupt"}
    Child = FALSE
    NoTurn = NoTurn
    NoMessage = NoMessage
SPECIFICATION Spec
SYMMETRY SlotSymmetry
INVARIANTS
    AtMostOneDrain
PROPERTIES
    PromptsAreSeen
