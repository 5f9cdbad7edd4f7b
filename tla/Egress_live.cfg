SPECIFICATION LiveSpec
CONSTANTS
    CursorCap = 2
    MaxPart = 2
    MaxOffer = 3
    MaxControl = 1
    MaxUnits = 5
PROPERTIES
    CompletionsSuffice
CHECK_DEADLOCK FALSE
