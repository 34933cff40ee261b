CONSTANTS
    Process = {p1, p2, p3}
    InitProc = p1
    Block = {b1, b2, b3}
    NoBlock = NoBlock
    Val = {0, 1}
    MAXOPBLOCKS = 1
    LOGSIZE = 2
    nlog = 3
    Evictions = TRUE
    MaxCrash = 0
    BufProc = {p1, p2, p3}
    BufInitProc = p1
    NoBufProc = NoBufProc
    BufBlock = {b1, b2, b3}
    NoBufBlock = NoBufBlock
    BufVal = {0, 1}
    NBUF = 2
    UMax = 8
    Recovered = {}
SPECIFICATION SuiteSpec
SYMMETRY CacheSymmetry
INVARIANTS
    CacheTypeOK
    LogFits
    SleeperHasWaker
    BuffersSound
PROPERTIES
    ImplementsAtomicDisk
    Coherent
CHECK_DEADLOCK FALSE
