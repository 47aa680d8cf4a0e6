CONSTANTS
    Size = 2
    Bytes = {"x", "nl", "cr"}
    NL = "nl"
    CR = "cr"
    MaxPos = 4
    Counts <- MCCounts
SPECIFICATION RdFairSpec
INVARIANTS WindowExact InOrder NoLineEndLeft
PROPERTIES ErrorSurfaces OperationReturns
