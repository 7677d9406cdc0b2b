\* Changes on both sides, errors, a stop.
SPECIFICATION FairSpec
CONSTANTS
    a = a
    b = b
    Paths = {a, b}
    MaxEdits = 1
    MaxOps = 1
    MaxOthers = 1
    MaxTime = 4
    Duration = 2
    Skew = 1
    CanFail = TRUE
INVARIANTS
    TypeOK
    NoEcho
PROPERTIES
    EditsReachClient
    ForgottenInTime
\* Without a change nothing happens.
CHECK_DEADLOCK FALSE
