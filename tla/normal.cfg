\* The loop without overlap, short requests on pages of four tokens, no runtime rebuild.
SPECIFICATION Spec
CONSTANTS
    Uids = {1, 2, 3}
    InputLen <- InputShort
    MaxTokens <- OutputShort
    Slots = {s1, s2, s3}
    Pages = {p1, p2}
    InitialPages = {p1, p2}
    PageSize = 4
    PrefillBudget = 3
    ConfigMaxSeqLen = 8
    Overlap = FALSE
    MaxAborts = 1
    TombstoneCap = 1
    RebuildIds = {"b1"}
    RebuildPages <- Rebuilds1
    RebuildSupported = FALSE
    None = None
SYMMETRY Symmetry
INVARIANT PagesMatchProgress
INVARIANT LengthMeansBudgetSpent
