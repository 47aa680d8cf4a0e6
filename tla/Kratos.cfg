CONSTANTS
    Terminals = {t1, t2}
    Files = {gomod, server}
    GoMod = gomod
    Server = server
    ModFiles = {gomod}
    MaxRuns = 3
    MaxVersion = 2
    Shells = {p1, p2}
    Protos <- MCProtos
    Services <- MCServices
    FileOf <- MCFileOf
SYMMETRY Symmetry
SPECIFICATION Spec
INVARIANTS SuccessMeansComplete SuccessIsFresh FirstServiceHasFile ClientNeedsMqt
PROPERTY EditsSurvive
CHECK_DEADLOCK FALSE
