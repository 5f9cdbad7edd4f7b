SPECIFICATION Spec
CONSTANTS
    MaxPlain = 3
    MaxWire = 4
    SlotCap = 3
    MaxInput = 8
INVARIANTS
    TypeOK
    NeverRefused
    UnreadIntact
    PublishedInOrder
    NothingDecodedIsLost
    InputExhausted
