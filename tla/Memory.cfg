SPECIFICATION Spec
CONSTANTS
    NR_TASKS = 4
    NR_PAGES = 11
    Starts = {2, 3}
    DataPages = {data}
    HeapPages = {heap}
    Stack = stack
    data = data
    Files = {sh}
    sh = sh
    ZERO = ZERO
    KERNEL = KERNEL
    NULL = NULL
INVARIANTS
    CountIsUses
    WritableIsPrivate
PROPERTIES
    ImplementsProcessMemory
CONSTRAINT
    InitOnlyForks
VIEW MCView
CHECK_DEADLOCK FALSE
