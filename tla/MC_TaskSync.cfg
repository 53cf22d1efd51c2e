\* Refinement of the spec's orchestrator state machine and termination of
\* every bound listener: two concurrent attempts, one window whose panel
\* can be dropped while attempts are in flight.
CONSTANTS
    Attempts = {a1, a2}
    Windows = {w1}
    v1 = v1
    v2 = v2
    IdValues <- MCIdValues
    Empty = Empty
    None = None
    NoSync = NoSync
    MaxGen = 2
    Budget = 2
    MaxInbox = 1
    Queries <- MCQueries

SPECIFICATION FairSpec

INVARIANT TypeOK

PROPERTIES
    SyncOrchestratorRefinement
    ListeningAttemptEnds

\* The model's pools of attempts and configuration entities are finite;
\* once they are used up and every attempt has ended the program only
\* waits for user input.
CHECK_DEADLOCK FALSE
