CONSTANTS
    Buffers = {b1, b2, b3}
    NoBuffer = none
    SlotCap = 2
    MaxBytes = 3
    MaxInput = 2
    MaxStream = 6
    MaxShares = 1
SPECIFICATION Spec
INVARIANT TypeOK
INVARIANT CountsAgree
INVARIANT SharesIntact
PROPERTY StreamSpec
CHECK_DEADLOCK FALSE
