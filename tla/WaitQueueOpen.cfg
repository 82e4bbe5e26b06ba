SPECIFICATION MCSpec
CONSTANTS
    Tasks = {t1, t2}
    t1 = t1
    t2 = t2
    Mixing = {t1, t2}
    Mixes = {{waitForRequest}}
    CliQueues = {}
    OpenQueues = {waitForRequest}
    IntrQueues = {}
    waitForRequest = waitForRequest
    NULL = NULL
INVARIANTS
    OpenNoLostSleeper
