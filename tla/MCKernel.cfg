CONSTANTS
    FsProc = {x1, x2}
    NoFsProc = NoFsProc
    NInum = 5
    NInode = 5
    FsName = {"d", "f"}
    FsDir = "d"
    FsFile = "f"
    MaxFsCalls = 2
    File = {x1, x2}
    NoFile = NoFile
    NBlocks = 18
    BSIZE = 2
    NDIRECT = 1
    NINDIRECT = 2
    MaxOpBlocks = 10
    WriteSizes = {1, 6, 13}
    MaxFileOps = 2
    VmProc = {p1, p2}
    NFrames = 8
    VmFile = {f1}
    MMAP_NUM = 2
    MMAP_PAGES = 2
    SegPages = 1
    MaxVmCalls = 4
    MAXSIZE = 3
    MaxMeta = 2
    BdRequests = {1, 2, 3}
    NetProc = {x1, x2}
    Conn = {c1, c2}
    NPage = 5
    RX_RING_SIZE = 2
    TX_RING_SIZE = 2
    MaxFrames = 2
    MaxNetCalls = 2
    Reader = {x1, x2}
    INPUT_BUF = 2
    UintRange = 6
    ConsStart = 5
    ReadSizes = {1, 3}
    MaxTyped = 4
    Writer = {x1, x2}
    UART_TX_BUF_SIZE = 2
    MaxPut = 3
    MaxSync = 2
    NPROC = 3
    Harts = 2
    MaxForks = 4
SPECIFICATION SuiteSpec
SYMMETRY KernelSymmetry
INVARIANTS
    KernelTypeOK
    
    
    NoFsDeadlock
    BlocksOwnedOnce
    
    
    MemoryAccounted
    HeapSound
    InitFreesAll
    
    
    NoSleepOnPacket
    InputRing
    NoSleepOnInput
    SerialOutput
    WaitLockSound
PROPERTIES
    EofGetsZero
CHECK_DEADLOCK FALSE
