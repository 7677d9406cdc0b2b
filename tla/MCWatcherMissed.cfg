\* A change on the server, and a command of a client on the same path within the second.
SPECIFICATION Spec
CONSTANTS
    a = a
    b = b
    Paths = {a, b}
    MaxEdits = 1
    MaxOps = 1
    MaxOthers = 0
    MaxTime = 1
    Duration = 2
    Skew = 1
    CanFail = FALSE
INVARIANTS
    AllEditsReported
\* Without a change nothing happens.
CHECK_DEADLOCK FALSE
