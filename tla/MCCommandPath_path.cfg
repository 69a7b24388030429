\* Every short text as a number, a task or a line of the shell, read alone or with another line.
CONSTANTS
    Blank = " "
    Bar = "|"
    Minus = "-"
    Nul = "nul"
    Digits <- DigitChars
    Code <- MCCode
    MaxSize = 15
    Names <- MCNames
    MaxFails = 1
    Inputs <- MCInputs
    Others <- MCOthers
SPECIFICATION FairSpec
CHECK_DEADLOCK FALSE
INVARIANTS
    TypeOK
    ParsesNumerals
    SameIdAtBothEnds
    WordsReachTheirStage
    LinksNeighbours
    StageRepeatedByFailuresOnly
PROPERTIES
    SupervisorsEnd
