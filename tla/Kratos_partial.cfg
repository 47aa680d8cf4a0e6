CONSTANTS
    Terminals = {t1}
    Files = {gomod, server, conf}
    GoMod = gomod
    Server = server
    ModFiles = {gomod}
    MaxRuns = 2
    MaxVersion = 1
    Shells = {}
    Protos <- MCProtos
    Services <- MCServices
    FileOf <- MCFileOf
SPECIFICATION Spec
INVARIANT SuccessHasEveryFile
CHECK_DEADLOCK FALSE
