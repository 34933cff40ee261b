CONSTANTS
    NProc = 3
    CPU = {c1, c2}
    NoCpu = NoCpu
    MaxPid = 3
    KillPids = {0}
    MemoryMayFail = FALSE
    Timer = TRUE
SPECIFICATION Spec
SYMMETRY CpuSymmetry
INVARIANT KilledOnPurpose
CHECK_DEADLOCK FALSE
