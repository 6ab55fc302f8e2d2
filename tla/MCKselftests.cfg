CONSTANTS
    Envs <- MCEnvs
    NewCanFail = TRUE
    Digits <- MCDigits
    Letters <- MCLetters
    Infos <- MCInfos
    Filters <- MCFilters
    Results <- MCResults
    RemoveCanFail = TRUE
    ResultParams = {FALSE, TRUE}
    ReadCanFail = FALSE
SPECIFICATION Spec
INVARIANTS
    TypeOK
    PathsAreSegments
    DiscoveryOrder
    
