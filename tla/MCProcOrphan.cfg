CONSTANTS
    NProc = 3
    CPU = {c1, c2, c3}
    NoCpu = NoCpu
    MaxPid = 3
    KillPids = {}
    MemoryMayFail = FALSE
    Timer = FALSE
SPECIFICATION FairSpec

PROPERTY OrphansReaped
CHECK_DEADLOCK FALSE
