SPECIFICATION Spec
CONSTANTS
    Uids <- ShortUids
    Text <- ShortText
    PromptLen <- ShortPromptLen
    PageSize = 1
    Window = 2
    RetainGap = 1
    PrefillBudget = 5
    NumSlots = 14
    NumSwaSlots = 8
INVARIANT RowsLive
CHECK_DEADLOCK FALSE
