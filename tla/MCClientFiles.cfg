\* Two threads on two paths.
SPECIFICATION Spec
CONSTANTS
    t1 = t1
    t2 = t2
    Threads = {t1, t2}
    path1 = path1
    path2 = path2
    Paths = {path1, path2}
    NoPath = NoPath
    PageSize = 2
    MaxCalls = 2
    MaxEdits = 1
    CanFail = TRUE
SYMMETRY Symmetry
VIEW View
INVARIANTS
    TypeOK
    CachedIsServed
    
    NoHandleLeak
    RightFile
