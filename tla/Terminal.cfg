CONSTANTS
    Conns = {c1, c2}
    Slots = 1
    CursorCap = 2
    MaxUnits = 1
SPECIFICATION Spec
INVARIANT TypeOK
INVARIANT LastWordsLeave
PROPERTY Ends
CHECK_DEADLOCK FALSE
