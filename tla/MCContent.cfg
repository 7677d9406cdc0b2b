\* Every sequence of writes of a file of five bytes.
SPECIFICATION Spec
CONSTANTS
    Size = 5
    Bytes = {1, 2}
    Unknown = Unknown
INVARIANTS
    TypeOK
    BlocksApart
    HitIffKnown
    ReadsLastWrite
