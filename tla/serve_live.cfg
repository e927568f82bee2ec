\* A legacy engine, statistics, one daemon exit: what ends in the end.
SPECIFICATION Spec
CONSTANTS
    Callers = {c1}
    Gens = {g1, g2}
    Models = {A}
    AutoRestart = TRUE
    Legacy = TRUE
    DiskMayFail = FALSE
    MaxCalls = 2
    MaxExits = 1
    WatchStats = TRUE
    None = None
INVARIANT ForgottenHasReceipt
PROPERTY DeadIsForgotten
PROPERTY CallsReturn
\* With no call, no crash and no restart left the daemon is idle.
CHECK_DEADLOCK FALSE
