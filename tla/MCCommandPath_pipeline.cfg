\* A pipeline as the help of the client and the comments of the server have it: it is not.
CONSTANTS
    Blank = " "
    Bar = "|"
    Minus = "-"
    Nul = "nul"
    Digits <- DigitChars
    Code <- MCCode
    MaxSize = 15
    Names <- MCNames
    MaxFails = 1
    Inputs <- ExecInputs
    Others <- Alone
SPECIFICATION Spec
CHECK_DEADLOCK FALSE
INVARIANT PipelineAsDocumented
