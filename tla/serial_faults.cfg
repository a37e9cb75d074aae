SPECIFICATION Spec
CONSTANTS
    k1 = k1
    k2 = k2
    Keys = {k1, k2, k3}
    Procs = {p1}
    NoProc = NoProc
    IntMax = 12
    InitFiles <- AnyBuild
    SrcFiles <- OneSource
    LockDiesOnClose = TRUE
    Faults = {"crash", "open", "diskFull", "resize", "publish"}
    MaxRuns = 3
INVARIANTS FileKeysUnique
PROPERTIES EntriesStable RefusesOnlyConflicts
