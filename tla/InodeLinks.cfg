CONSTANTS
    FsProc = {x1, x2}
    NoFsProc = NoFsProc
    NInum = 5
    NInode = 5
    FsName = {"d", "f"}
    FsDir = "d"
    FsFile = "f"
    MaxFsCalls = 2
SPECIFICATION FsSpec
INVARIANT LinksCounted
CHECK_DEADLOCK FALSE
