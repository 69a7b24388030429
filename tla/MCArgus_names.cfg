\* An entry of a listing shows the command of its task: it does not.
CONSTANTS
    c1 = c1
    c2 = c2
    c3 = c3
    c4 = c4
    Server = Server
    Clients <- Four
    Scenarios <- ExecAndTyped
    TaskIds <- Tids
    ReadMax = 1
SPECIFICATION Spec
CHECK_DEADLOCK FALSE
PROPERTY ListsTheirNames
