\* Calls, monitors, auto-restarts and a failing disk.
SPECIFICATION Spec
CONSTANTS
    Callers = {c1}
    Gens = {g1, g2, g3}
    Models = {A, B}
    AutoRestart = TRUE
    Legacy = FALSE
    DiskMayFail = TRUE
    MaxCalls = 3
    MaxExits = 0
    WatchStats = FALSE
    None = None
SYMMETRY Symmetry
INVARIANT OneServe
INVARIANT SignalAfterReceipt
INVARIANT SealedOrCrashed
PROPERTY StopIsComplete
PROPERTY SpawnHonoursStop
\* With no call, no crash and no restart left the daemon is idle.
CHECK_DEADLOCK FALSE
