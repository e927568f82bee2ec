\* A request ended for its length in the overlapped loop.
SPECIFICATION Spec
CONSTANTS
    Uids = {1, 2}
    InputLen <- Input2
    MaxTokens <- Output2
    Slots = {s1, s2}
    Pages = {p1, p2, p3, p4, p5}
    InitialPages = {p1, p2, p3, p4, p5}
    PageSize = 1
    PrefillBudget = 2
    ConfigMaxSeqLen = 8
    Overlap = TRUE
    MaxAborts = 0
    TombstoneCap = 3
    RebuildIds = {}
    RebuildPages <- NoRebuilds
    RebuildSupported = TRUE
    None = None
SYMMETRY Symmetry
INVARIANT LengthMeansBudgetSpent
