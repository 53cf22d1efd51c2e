\* spec.md 4.4: a sync the browser was told is complete scopes the searches
\* that follow it, even when its panel was closed while it waited.
CONSTANTS
    Attempts = {a1}
    Windows = {w1}
    v1 = v1
    v2 = v2
    IdValues <- MCIdValues
    Empty = Empty
    None = None
    NoSync = NoSync
    MaxGen = 1
    Budget = 1
    MaxInbox = 1
    Queries <- MCQueries
    Calls = {t1}
    CallerFilters <- MCCallerFilters
    Invalid = Invalid
    NotSent = NotSent

SPECIFICATION Spec

INVARIANT SearchScopedByLatestCompletedSync

\* Attempts, entities and tool calls come from finite pools.
CHECK_DEADLOCK FALSE
