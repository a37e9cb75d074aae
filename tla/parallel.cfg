SPECIFICATION Spec
CONSTANTS
    k1 = k1
    k2 = k2
    Keys = {k1, k2, k3}
    Procs = {p1, p2}
    NoProc = NoProc
    IntMax = 100
    InitFiles <- AnyBuild
    SrcFiles <- OneSource
    LockDiesOnClose = FALSE
    Faults = {"crash", "open"}
    MaxRuns = 3
INVARIANTS IssuedUnique IssuedDurable AssertsHold OneWriter
PROPERTIES WritesUnderLock ImplementsRegistry
