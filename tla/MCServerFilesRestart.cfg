\* The server restarts while the client has a file open.
SPECIFICATION Spec
CONSTANTS
    t1 = t1
    t2 = t2
    t3 = t3
    None = None
    Threads = {t1, t2}
    NumHandles = 2
    MaxIO = 1
    MaxRestarts = 1
    CanAbandon = TRUE
    SysErrors = FALSE
    CanStop = FALSE
SYMMETRY Symmetry
INVARIANTS
    AlwaysUp
