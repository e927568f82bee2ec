SPECIFICATION Spec
CONSTANTS
    Uids <- MCUids
    Text <- MCText
    PromptLen <- MCPromptLen
    PageSize = 1
    Window = 2
    RetainGap = 1
    PrefillBudget = 4
    NumSlots = 15
    NumSwaSlots = 7
INVARIANTS
    SwaAccountsExact
    SlotsConserved
    RowsLive
CHECK_DEADLOCK FALSE
