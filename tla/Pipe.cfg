SPECIFICATION FairSpec
CONSTANTS
    Procs = {p1, p2, p3}
    p1 = p1
    p2 = p2
    p3 = p3
    Creator = p1
    NULL = NULL
    PAGE_SIZE = 4
    Counts = {4}
    MaxBytes = 8
    MayFault = FALSE
INVARIANTS
    InOrder
    NobodySleepsInVain
PROPERTIES
    ImplementsByteStream
    HonestReturns
    CallsReturn
CHECK_DEADLOCK FALSE
