CONSTANTS
    Lists <- MCLists
    Results <- MCResults
    RemoveCanFail = TRUE
    ResultParams = {FALSE, TRUE}
    ReadCanFail = FALSE
SPECIFICATION Spec
INVARIANTS
    OwnVerdict
