CONSTANTS
    Lengths <- MCLengths
    Foreign <- MCForeign
    Keys = {k1, k2}
    MaxRead = 1
    BufSize = 70000
    Word = 65536
    Half = 1048576
    Base = 2
    Digits = 2
    Wide = 4
    BufCap = 6
    MaxData = 4
    MaxRoom = 2
    ForeignSizes <- MCForeignSizes
    Goroutines = {g1, g2, g3}
    LogKeys = {l1, l2}
    Timeout = 0
    MaxTime = 3
    Users = {u1, u2}
    Num = 2
    MaxBuffers = 4
    StartSize = 1
    MaxPiece = 3
    MaxBytes = 4
    Options <- MCOptions
    MaxLoops = 2
SPECIFICATION Spec
INVARIANTS Reassembled TypeOfMessage PongPerPing FrameBudget StreamExact PromptRead
INVARIANTS FreshEntriesStay PoolConserves WriterExact LostCallbackSafe RetryCovered
CHECK_DEADLOCK FALSE
