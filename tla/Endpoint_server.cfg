CONSTANTS
    c1 = c1
    c2 = c2
    Conn = {c1, c2}
    Sessions = 2
    RecvSlots = 2
    WarmSlots = 1
    SendSlots = 1
    SendOnOpen = FALSE
    CursorCap = 2
    MaxNative = 2
    MaxEpoch = 0
    MaxRole = 1
SPECIFICATION Spec
SYMMETRY Peers
INVARIANTS
    PoolsConserved
PROPERTIES
    AdmittedUnderCurrentRole
    SubmittedUntouched
