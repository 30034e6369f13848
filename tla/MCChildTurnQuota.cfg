\* Two levels of sessions, with a grandchild; both pools run full and hand permits over.
CONSTANTS
    root = root
    global = global
    a = a
    b = b
    c = c
    Root = root
    Global = global
    Children <- TallChildren
    ParentOf <- TallParent
    ParentLimit = 1
    GlobalLimit = 2
SPECIFICATION FairSpec
INVARIANTS
    QuotaIsExact
PROPERTIES
    
    AttemptsEnd
