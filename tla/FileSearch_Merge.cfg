\* spec.md 4.6: the sent filter is the spec's merge of the caller filter and
\* the synced context (a caller filter with board_id "" and a synced
\* context with board_id "" included).
CONSTANTS
    Calls = {t1}
    v1 = v1
    v2 = v2
    IdValues <- MCIdValues
    Empty = Empty
    None = None
    NoSync = NoSync
    Invalid = Invalid
    NotSent = NotSent
    CallerFilters <- MCCallerFiltersEmptyId
    StoreValues <- MCStoreValuesEmptyId
    Contents <- MCContents
    MaxResults = 1
    OutputLimit = 2
    CardLimit = 3

SPECIFICATION Spec

INVARIANT SentFilterIsSpecMerge
