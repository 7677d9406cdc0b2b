\* Two threads, changes on the server, loads, failures; the bound counts all of them.
SPECIFICATION Spec
CONSTANTS
    t1 = t1
    t2 = t2
    Threads = {t1, t2}
    a = a
    b = b
    Names = {a, b}
    MaxEvents = 3
    CanFail = TRUE
    CanReplace = TRUE
    Ops = {"mkdir", "symlink", "create", "rmdir", "unlink", "utimens", "chmod", "rename", "exchange"}
SYMMETRY Symmetry
INVARIANTS
    TypeOK
    SameTree
    SameDirectories
    UpdatePossible
\* The events of the bound have happened.
CHECK_DEADLOCK FALSE
