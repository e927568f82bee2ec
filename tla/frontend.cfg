SPECIFICATION Spec
CONSTANTS
    r1 = r1
    Uids <- MCUids
    Rebuilds <- MCRebuilds
    MaxTokens = 2
    LocalBs = 3
    MaxStops = 1
    MaxFaults = 1
INVARIANTS
    SealIsComplete
    RebuildClosesGate
    NeverWedged
    DecodeStateReleased
    ActiveIsAnswerable
    WholeAnswer
PROPERTY StopUndoneOnlyAtStartup
CHECK_DEADLOCK FALSE
