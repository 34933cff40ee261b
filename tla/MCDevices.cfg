CONSTANTS
    Process = {p1, p2}
    Creator = p1
    NoProcess = NoProcess
    Byte = {a, b}
    PIPESIZE = 2
    UMax = 4
    MaxN = 2
    Killable = {p2}
    DiskProc = {d1, d2, d3}
    DiskWord = {0, 1}
    NUM = 8
    MaxRw = 1
    DiskStart = 6
    Nil = Nil
SPECIFICATION SuiteSpec
INVARIANTS
    DevicesTypeOK
    NoUseAfterFree
    NoLostWakeup
    DriverSound
PROPERTIES
    ImplementsFifo
    ImplementsBlockDev
    PipeCallsReturn
    
CHECK_DEADLOCK FALSE
