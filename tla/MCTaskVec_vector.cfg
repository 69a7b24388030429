\* Every call in every order, on vectors of any small capacity, with memory and without.
CONSTANTS
    TaskIds <- TwoIds
    Groups <- OneGroup
    Garbage = Garbage
    Uses <- MCUses
    MaxCap = 6
    MaxLen = 6
SPECIFICATION Spec
CHECK_DEADLOCK FALSE
INVARIANTS
    TypeOK
    LiveCells
    NeverBroken
PROPERTY ImplementsSeq
