\* Two processes, one of them outside the sandbox, share one place; two callers
\* are at work together while only one process is there.
CONSTANTS
    Processes = {p1, p2}
    Unrestricted = {p2}
    Yielding = {p1}
    Callers = {c1, c2}
    MaxProcesses = 1
    MaxPaused = 2
    None = None
SPECIFICATION Spec
CONSTRAINT OneAtATime
INVARIANTS
    
    ProcessesAccounted
