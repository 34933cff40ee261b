CONSTANTS
    BufProc = {p1, p2, p3}
    BufInitProc = p1
    NoBufProc = NoBufProc
    BufBlock = {k1, k2, k3}
    NoBufBlock = NoBufBlock
    BufVal = {0, 1}
    NBUF = 2
    UMax = 8
    Recovered = {k1}
SPECIFICATION BcacheSpec
INVARIANT Exclusive
CHECK_DEADLOCK FALSE
