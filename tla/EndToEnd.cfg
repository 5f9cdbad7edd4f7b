SPECIFICATION EndsSpec
CONSTANTS
    CursorCap = 2
    MaxPart = 2
    MaxOffer = 2
    MaxControl = 1
    MaxUnits = 4
INVARIANTS
    NoTruncation
    NoGaps
PROPERTIES
    SessionSpec
CHECK_DEADLOCK FALSE
