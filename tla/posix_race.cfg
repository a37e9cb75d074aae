SPECIFICATION Spec
CONSTANTS
    k1 = k1
    k2 = k2
    Keys = {k1, k2}
    Procs = {p1, p2}
    NoProc = NoProc
    IntMax = 100
    InitFiles <- FirstBuild
    SrcFiles <- NoSource
    LockDiesOnClose = TRUE
    Faults = {}
    MaxRuns = 2
INVARIANTS IssuedUnique
