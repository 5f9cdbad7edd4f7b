CONSTANTS
    c1 = c1
    c2 = c2
    c3 = c3
    Conn = {c1, c2, c3}
    Sessions = 3
    RecvSlots = 1
    WarmSlots = 1
    SendSlots = 1
    SendOnOpen = TRUE
    CursorCap = 1
    MaxNative = 1
    MaxEpoch = 0
    MaxRole = 0
SPECIFICATION Spec
SYMMETRY Peers
INVARIANTS
    TypeOK
    SendOwnersBusy
    WaitersNotStranded
PROPERTIES
    CapacityWaitDoesNotSpin
    NoOvertaking
