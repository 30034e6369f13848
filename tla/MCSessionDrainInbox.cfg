\* Two prompts and a queue item, one tool call, a crash and a cancellation anywhere.
CONSTANTS
    Prompts = {p1, p2}
    Notices = {n1}
    Observer = FALSE
    MaxRounds = 2
    MaxTools = 1
    MaxBatch = 1
    MaxCalls = 1
    MaxAssistants = 2
    MaxCrashes = 1
    None = None
SPECIFICATION Spec

    
PROPERTIES
    DoneOnce
    ImplementsInbox
