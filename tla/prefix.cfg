SPECIFICATION Spec
CONSTANTS
    u1 = u1  u2 = u2  u3 = u3
    a = a  b = b
    img = img  pic = pic
    Uids <- MCUids
    Tokens <- MCTokens
    Prompt <- MCPrompt
    OutputLen <- MCOutputLen
    Sampled <- MCSampled
    Items <- MCItems
    KeepWhole = TRUE
    NumPages = 7
    PageSize = 2
    PrefillBudget = 4
    Overlap = TRUE
INVARIANTS
    EachPageInOnePlace
    RowsHoldOwnTokens
    TreeAccountsExact
    EvictionSuffices
    ClaimsExact
    ImagesWhole
PROPERTY ImplementsStore
