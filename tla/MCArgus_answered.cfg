\* A client that asks for the list gets it and ends: it does not.
CONSTANTS
    c1 = c1
    c2 = c2
    c3 = c3
    c4 = c4
    Server = Server
    Clients <- Four
    Scenarios <- ExecAndList
    TaskIds <- Tids
    ReadMax = 1
SPECIFICATION FairSpec
CHECK_DEADLOCK FALSE
PROPERTY ListAnswered
