CONSTANTS
    TTY_BUF_SIZE = 3
    KEEP = 0
    LOWWATER = 2
    WAKEUP_CHARS = 1
    Reader = reader
    Writer = writer
    Plain = plain
    NL = nl
    CR = cr
    EOF = eof
    ERASE = erase
    KILL = kill
    INTR = intr
    STOP = stop
    START = start
    Keys = {plain, cr, eof, kill, intr}
    LineKeys = {plain, eof}
    NULL = null
    Races = {}
    MaxKeys = 2
    MaxOut = 3
    MaxSets = 1
SPECIFICATION FairSpec
INVARIANTS OutputInOrder
PROPERTIES ImplementsLineEditor CallsReturn
CHECK_DEADLOCK FALSE
