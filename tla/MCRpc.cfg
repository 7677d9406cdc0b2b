\* Losses, timeouts, error replies and a restart of the server.
SPECIFICATION FairSpec
CONSTANTS
    reader = reader
    heartbeat = heartbeat
    Callers = {reader, heartbeat}
    Resident <- MCResident
    Priority <- MCPriority
    NumWorkers = 2
    MaxFrames = 2
    MaxId = 3
    MaxRestarts = 1
    Lossy = TRUE
    Timeouts = TRUE
    Errors = TRUE
INVARIANTS
    TypeOK
    AtMostOnce
    AnsweredWasExecuted
    CancelledNeverRuns
    NoOrphanItems
PROPERTIES
    ImplementsAtMostOnceCall
    CallsReturn
