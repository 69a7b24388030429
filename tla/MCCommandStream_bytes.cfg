\* Two clients, one of them with a command of any kind of length.
CONSTANTS
    c1 = c1
    c2 = c2
    Clients <- MCClients
    Lengths <- MCLengths
    Cap = 6
    PipeBuf = 4
    PipeCap = 8
SPECIFICATION FairSpec
CHECK_DEADLOCK FALSE
INVARIANTS
    TypeOK
    LinesWhole
    ReadsWholeLines
PROPERTIES
    ClientsEnd
