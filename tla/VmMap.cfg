CONSTANTS
    VmProc = {p1, p2}
    NFrames = 8
    VmFile = {f1}
    MMAP_NUM = 2
    MMAP_PAGES = 2
    SegPages = 1
    MaxVmCalls = 5
SPECIFICATION VmSpec
INVARIANT MapKeepsFile
CHECK_DEADLOCK FALSE
