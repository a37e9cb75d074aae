SPECIFICATION FairSpec
CONSTANTS
    k1 = k1
    k2 = k2
    Keys = {k1, k2, k3}
    Procs = {p1, p2}
    NoProc = NoProc
    IntMax = 3
    InitFiles <- AnyBuild
    SrcFiles <- OneSource
    LockDiesOnClose = FALSE
    Faults = {}
    MaxRuns = 3
INVARIANTS TypeOK FailsOnlyAtLimit
PROPERTIES CompilationsEnd
