\* Two tool calls, a crash and a cancellation anywhere, with a status observer.
CONSTANTS
    Prompts = {p1}
    Notices = {}
    Observer = TRUE
    MaxRounds = 2
    MaxTools = 2
    MaxBatch = 2
    MaxCalls = 2
    MaxAssistants = 2
    MaxCrashes = 1
    None = None
SPECIFICATION Spec
INVARIANTS
    RequestWellFormed
