\* A read holds one command line: it does not.
CONSTANTS
    c1 = c1
    c2 = c2
    c3 = c3
    c4 = c4
    Server = Server
    Clients <- Four
    Scenarios <- ExecAndEnd
    TaskIds <- Tids
    ReadMax = 2
SPECIFICATION Spec
CHECK_DEADLOCK FALSE
INVARIANT OneLinePerRead
