\* Tasks started, ended and listed; one server, or two in succession.
CONSTANTS
    c1 = c1
    c2 = c2
    c3 = c3
    c4 = c4
    Server = Server
    Clients <- Four
    Scenarios <- Commands
    TaskIds <- Tids
    ReadMax = 2
SPECIFICATION Spec
CHECK_DEADLOCK FALSE
SYMMETRY Interchangeable
INVARIANTS
    TypeOK
    AtMostTwice
    NoGroupIsReused
    RunningOrdered
    IdNamesItsProcess
    NoTaskForgotten
PROPERTY EndsTheTaskNamed
