\* An invocation with -e executes its task once: it does not.
CONSTANTS
    c1 = c1
    c2 = c2
    c3 = c3
    c4 = c4
    Server = Server
    Clients <- Four
    Scenarios <- ExecAndEnd
    TaskIds <- Tids
    ReadMax = 1
SPECIFICATION Spec
CHECK_DEADLOCK FALSE
INVARIANT ExecutedOnce
