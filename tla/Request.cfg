CONSTANTS
    Size = 3
    Free = 5
    Bytes <- MCBytes
    NL = "nl"
    CR = "cr"
    SP = "sp"
    COLON = "colon"
    NUL = "nul"
    MaxPos <- MCMaxPos
    Inputs <- MCInputs
    Counts = {}
SPECIFICATION ReqFairSpec
CHECK_DEADLOCK FALSE
INVARIANT SameLines
INVARIANT BodyLimits
PROPERTY RequestReturns
