\* spec.md 4.2 and 7: an attempt ends in an AuthError, a Timeout or a
\* published context; parse and respond failures and panics are not outcomes.
CONSTANTS
    Attempts = {a1}
    Windows = {w1}
    v1 = v1
    v2 = v2
    IdValues <- MCIdValues
    Empty = Empty
    None = None
    NoSync = NoSync
    MaxGen = 1
    Budget = 2
    MaxInbox = 2
    Queries <- MCQueries

SPECIFICATION Spec

INVARIANT AttemptEndsInSpecOutcome

\* Attempts and configuration entities come from finite pools.
CHECK_DEADLOCK FALSE
