CONSTANTS
    MaxU32 = 3
    MaxPlaintext = 2
    DefaultStaged = 2
    DefaultSend = 2
    Connections = {1, 3}
    Resident = {0, 3, 5}
    Sends = {1}
    Warms = {1, 4}
    MaxBinds = 3
    MaxDepth = 2
SPECIFICATION LiveSpec
INVARIANT TypeOK
INVARIANT OwnPools
INVARIANT StagedFits
INVARIANT RoomToAssemble
PROPERTY SomeoneBinds
CHECK_DEADLOCK FALSE
