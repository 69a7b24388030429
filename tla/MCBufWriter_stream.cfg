\* Every call in every order, with writes that succeed or fail as a whole.
CONSTANTS
    Caps <- TwoCaps
    MaxWrite = 4
    MaxBytes = 6
    MaxOut = 8
    MayBeShort = FALSE
SPECIFICATION Spec
CHECK_DEADLOCK FALSE
INVARIANTS
    TypeOK
    BufferIsTail
    NothingLost
    InOrder
PROPERTIES
    EndsFlushed
    OverrunOnlyOfFull
    ImplementsStream
