\* An end command against the stages of a task.
CONSTANTS
    Blank = " "
    Bar = "|"
    Minus = "-"
    Nul = "nul"
    Digits <- DigitChars
    Code <- MCCode
    MaxSize = 15
    Names <- MCNames
    MaxFails = 1
    Inputs <- ExecInputs
    Others <- MCOthers
SPECIFICATION FairSpec
CHECK_DEADLOCK FALSE
PROPERTY
    EndReachesStages
