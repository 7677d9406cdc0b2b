\* The older of two overlapping blocks may win.
SPECIFICATION Spec
CONSTANTS
    Size = 5
    Bytes = {1, 2}
    Unknown = Unknown
INVARIANTS
    AlwaysReadsLastWrite
