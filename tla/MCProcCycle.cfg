CONSTANTS
    NProc = 4
    CPU = {c1, c2}
    NoCpu = NoCpu
    MaxPid = 5
    KillPids = {}
    MemoryMayFail = FALSE
    Timer = FALSE
SPECIFICATION Spec
SYMMETRY CpuSymmetry
INVARIANT NoLockCycle
CHECK_DEADLOCK FALSE
