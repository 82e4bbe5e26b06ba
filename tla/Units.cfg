SPECIFICATION UnitSpec
CONSTANTS
    Procs = {p1, p2}
    NULL = null
    NR_INODE = 3
    Nums = {2, 3}
INVARIANTS
    InodesAgree
    FloppyIsRead
    NeverEarly
    ModulesHold
    MallocAndExec
PROPERTIES
    IdleOnlyWhenIdle
    ShowsScreen
SYMMETRY Alike
CONSTRAINT NoRace
\* The floppy waits for requests, and bounded behaviours end.
CHECK_DEADLOCK FALSE
