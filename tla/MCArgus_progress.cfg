\* A shell, a task and a list; the server may be stopped.
CONSTANTS
    c1 = c1
    c2 = c2
    c3 = c3
    c4 = c4
    Server = Server
    Clients <- Four
    Scenarios <- Typing
    TaskIds <- Tids
    ReadMax = 2
SPECIFICATION FairSpec
CHECK_DEADLOCK FALSE
PROPERTIES
    ShellBringsServerUp
    SentIsRead
    ReadersReleased
