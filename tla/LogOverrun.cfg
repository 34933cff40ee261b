CONSTANTS
    Process = {p1, p2}
    InitProc = p1
    Block = {b1, b2}
    NoBlock = NoBlock
    Val = {0}
    MAXOPBLOCKS = 1
    LOGSIZE = 2
    nlog = 2
    Evictions = FALSE
    MaxCrash = 0
SPECIFICATION LogSpec
INVARIANT LogFits
CHECK_DEADLOCK FALSE
