\* Three calls on a file of three units, in fragments of two.
SPECIFICATION Spec
CONSTANTS
    Calls = {1, 2, 3}
    Size = 3
    Fragment = 2
    MaxFaults = 1
CHECK_DEADLOCK FALSE
INVARIANTS
    TypeOK
PROPERTIES
    CountIsWritten
    ImplementsWholeRangeIO
