CONSTANTS
    Digits <- MCDigits
    Letters <- MCLetters
    Infos <- MCInfosMalformed
    Filters <- MCFilters
SPECIFICATION Spec
INVARIANTS
    NameWithinParam
