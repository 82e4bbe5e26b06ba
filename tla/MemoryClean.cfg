SPECIFICATION Spec
CONSTANTS
    NR_TASKS = 4
    NR_PAGES = 11
    Starts = {1, 3}
    DataPages = {data}
    HeapPages = {}
    Stack = stack
    data = data
    Files = {sh}
    sh = sh
    ZERO = ZERO
    KERNEL = KERNEL
    NULL = NULL
INVARIANT
    CleanIsUnchanged
CONSTRAINT
    InitOnlyForks
VIEW MCView
CHECK_DEADLOCK FALSE
