\* A result content is shown whole or cut at a character boundary, in the
\* tool output (limit 2 for 200) and in the expanded card (3 for 300).
CONSTANTS
    Calls = {t1}
    v1 = v1
    v2 = v2
    IdValues <- MCIdValues
    Empty = Empty
    None = None
    NoSync = NoSync
    Invalid = Invalid
    NotSent = NotSent
    CallerFilters <- MCCallerFilters
    StoreValues <- MCStoreValues
    Contents <- MCContents
    MaxResults = 1
    OutputLimit = 2
    CardLimit = 3

SPECIFICATION Spec

INVARIANT ResultTextCutAtCharBoundary
