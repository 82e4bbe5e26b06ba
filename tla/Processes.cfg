CONSTANTS
    NR_TASKS = 4
    PID_MAX = 4
    Sigs = {}
    SIGCHLD = sigchld
    SIGALRM = sigalrm
    SIGKILL = sigkill
    SIGHUP = sighup
    NULL = null
    MaxForks = 2
    MaxCalls = 1
    MaxKills = 1
SPECIFICATION FairSpec
INVARIANTS FathersCanWait
PROPERTIES DeathIsNoticed
