\* The overlapped loop: two requests that together need one page more than
\* there are, aborts, and two rebuilds; what is safe and what is answered.
SPECIFICATION Spec
CONSTANTS
    Uids = {1, 2}
    InputLen <- Input2
    MaxTokens <- Output2
    Slots = {s1, s2}
    Pages = {p1, p2, p3}
    InitialPages = {p1, p2, p3}
    PageSize = 2
    PrefillBudget = 1
    ConfigMaxSeqLen = 8
    Overlap = TRUE
    MaxAborts = 1
    TombstoneCap = 2
    RebuildIds = {"b1", "b2"}
    RebuildPages <- Rebuilds2
    RebuildSupported = TRUE
    None = None
INVARIANT SlotsPartitioned
INVARIANT PagesPartitioned
INVARIANT InFlightKeepsResources
INVARIANT NoOrphans
INVARIANT NeverOutOfPages
PROPERTY RepliesWellFormed
PROPERTY RebuildOnlyWhenIdle
PROPERTY EveryRequestAnswered
PROPERTY EveryAbortAcked
PROPERTY EveryRebuildAnswered
