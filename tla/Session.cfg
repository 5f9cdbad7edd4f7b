CONSTANTS
    MaxPart = 2
    MaxControl = 1
    MaxUnits = 5
SPECIFICATION SessionSpec
INVARIANT TypeOK
INVARIANT NoTruncation
INVARIANT NoGaps
CHECK_DEADLOCK FALSE
