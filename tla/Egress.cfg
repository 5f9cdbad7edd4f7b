SPECIFICATION Spec
CONSTANTS
    CursorCap = 3
    MaxPart = 2
    MaxOffer = 3
    MaxControl = 1
    MaxUnits = 6
INVARIANTS
    TypeOK
    DataInOrder
    NothingAfterEnd
PROPERTIES
    StreamSpec
CHECK_DEADLOCK FALSE
