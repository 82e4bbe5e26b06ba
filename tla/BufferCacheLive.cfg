SPECIFICATION FairSpec
CONSTANTS
    Procs = {p1, p2}
    p1 = p1
    p2 = p2
    NULL = NULL
    NR_BUFFERS = 1
    Blocks = {1, 2}
    AheadBlocks = {}
    NR_REQUEST = 3
    MaxOps = 3
    MaxHold = 1
    MayFail = TRUE
    MayFault = FALSE
PROPERTIES
    CallsReturn
