\* Both searches of a tool call are scoped by the caller and by the
\* context synced when the tool ran, while the sync side rewrites it.
CONSTANTS
    Calls = {t1}
    v1 = v1
    v2 = v2
    IdValues <- MCIdValues
    Empty = Empty
    None = None
    NoSync = NoSync
    Invalid = Invalid
    NotSent = NotSent
    CallerFilters <- MCCallerFilters
    StoreValues <- MCStoreValues
    Contents <- MCContents
    MaxResults = 1
    OutputLimit = 2
    CardLimit = 3

SPECIFICATION Spec

INVARIANT TypeOK
INVARIANT SentFilterScopedToDispatch
