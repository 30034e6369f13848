CONSTANTS
    Root = "root"
    Sessions = {"p", "c"}
    Shells = {"sh"}
    Above <- MCAbove
    Modeline = {"c"}
    Loads <- MCLoads
    Capacity = 1
SPECIFICATION AllSpec
\* Turns, deltas and events run out.
CHECK_DEADLOCK FALSE
INVARIANTS
    RowsSettle
    TranscriptIsWhole
    ScreenIsTrue
    
    DraftIsKept
    KeysAreWhole
    SelectionIsTrue
    
