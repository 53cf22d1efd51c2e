\* spec.md 1, 2: the panel shows the store's current value.
CONSTANTS
    Attempts = {a1}
    Windows = {w1}
    v1 = v1
    v2 = v2
    IdValues <- MCIdValues
    Empty = Empty
    None = None
    NoSync = NoSync
    MaxGen = 2
    Budget = 2
    MaxInbox = 2
    Queries <- MCQueries

SPECIFICATION Spec

INVARIANT PanelShowsStore

\* Attempts and configuration entities come from finite pools.
CHECK_DEADLOCK FALSE
