CONSTANTS
    c1 = c1
    c2 = c2
    Conn = {c1, c2}
    Sessions = 2
    RecvSlots = 1
    WarmSlots = 1
    SendSlots = 1
    SendOnOpen = TRUE
    CursorCap = 1
    MaxNative = 1
    MaxEpoch = 2
    MaxRole = 0
SPECIFICATION Spec
SYMMETRY Peers
INVARIANTS
    PoolsConserved
    WaitersTracked
