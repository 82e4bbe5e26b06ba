SPECIFICATION Spec
CONSTANTS
    Procs = {p1, p2}
    p1 = p1
    p2 = p2
    NULL = NULL
    NR_BUFFERS = 2
    Blocks = {1, 2, 3}
    AheadBlocks = {1}
    NR_REQUEST = 2
    MaxOps = 3
    MaxHold = 1
    MayFail = FALSE
    MayFault = FALSE
SYMMETRY ProcSymmetry
INVARIANTS
    CountIsReferences
    GotWantedBlock
    CleanMatchesDisk
PROPERTIES
    ImplementsBlockStore
CHECK_DEADLOCK FALSE
