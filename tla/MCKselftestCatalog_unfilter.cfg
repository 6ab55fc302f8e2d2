CONSTANTS
    Digits <- MCDigits
    Letters <- MCLetters
    Infos <- MCInfos
    Filters <- MCFilters
SPECIFICATION Spec
INVARIANTS
    DynamicNameWithinName
