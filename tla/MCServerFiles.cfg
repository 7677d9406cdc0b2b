\* The client gives up on commands, system calls fail, the server restarts.
SPECIFICATION FairSpec
CONSTANTS
    t1 = t1
    t2 = t2
    t3 = t3
    None = None
    Threads = {t1, t2}
    NumHandles = 2
    MaxIO = 2
    MaxRestarts = 1
    CanAbandon = TRUE
    SysErrors = TRUE
    CanStop = TRUE
INVARIANTS
    TypeOK
    OpenAsserts
    IOHitsItsFile
    RefsAlive
    SerializedIO
    HandlesKnown
    NoFdLeak
PROPERTIES
    EveryRequestAnswered
    ThreadsEnd
