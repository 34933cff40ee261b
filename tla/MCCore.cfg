CONSTANTS
    NProc = 3
    CPU = {c1, c2}
    NoCpu = NoCpu
    MaxPid = 4
    KillPids = {3}
    MemoryMayFail = TRUE
    Timer = TRUE
    Process = {p1, p2}
    InitProc = p1
    Block = {b1, b2}
    NoBlock = NoBlock
    Val = {0, 1}
    MAXOPBLOCKS = 2
    LOGSIZE = 4
    nlog = 5
    Evictions = FALSE
    MaxCrash = 2
SPECIFICATION SuiteSpec
SYMMETRY CoreSymmetry
INVARIANTS
    TypeOK
    SchedDiscipline
    NoOrphan
    NoLostExit
    DurableOnReturn
PROPERTIES
    ParentStable
    ImplementsAtomicDisk
