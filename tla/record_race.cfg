\* A start between the two steps of a reap.
SPECIFICATION Spec
CONSTANTS
    Callers = {c1}
    Gens = {g1, g2}
    Models = {A}
    AutoRestart = TRUE
    Legacy = FALSE
    DiskMayFail = FALSE
    MaxCalls = 2
    MaxExits = 0
    WatchStats = FALSE
    None = None
SYMMETRY Symmetry
INVARIANT RunningIsRecorded
\* With no call, no crash and no restart left the daemon is idle.
CHECK_DEADLOCK FALSE
