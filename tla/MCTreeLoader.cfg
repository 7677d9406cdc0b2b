\* Changes at any time, lost frames and late answers, a server that restarts, a client
\* that stops.
SPECIFICATION FairSpec
CONSTANTS
    MaxChanges = 1
    MaxRestarts = 1
    MaxWrites = 1
    Stopping = TRUE
    MaxLosses = 1
INVARIANTS
    TypeOK
    NothingForgotten
PROPERTIES
    LockReleased
    LoadsEnd
