SPECIFICATION MCSpec
CONSTANTS
    Tasks = {t1, t2, t3, t4}
    t1 = t1
    t2 = t2
    t3 = t3
    t4 = t4
    Mixing = {t1, t2}
    Mixes = {{bWait, waitForRequest, procList}}
    CliQueues = {bWait, iWait}
    OpenQueues = {waitForRequest}
    IntrQueues = {procList}
    bWait = bWait
    iWait = iWait
    waitForRequest = waitForRequest
    procList = procList
    NULL = NULL
INVARIANTS
    NoLostSleeper
    CliNoStaleWake
PROPERTIES
    CliWakeUpReachesAll
\* The queues of the other kinds do lose sleepers, and then everybody sleeps.
CHECK_DEADLOCK FALSE
