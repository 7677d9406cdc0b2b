--------------------------- MODULE MCClientFiles ---------------------------
(* Instances of ClientFiles for TLC.                                       *)
EXTENDS ClientFiles, TLC

CONSTANTS t1, t2, path1, path2

\* Threads are interchangeable, and so are paths.
Symmetry == Permutations(Threads) \cup Permutations(Paths)

\* The value of a stale block is not looked at, and nothing is until the next load once a
\* file was changed by others: states that differ in such values only are taken for one.
View ==
    << serverVars, tableVars, sizes, call, calls, edits, loadVars, lost, moved, due,
       IF due THEN {} ELSE stale,
       IF due THEN {} ELSE unsized,
       [p \in Paths |-> [b \in Blocks |->
           IF (due \/ <<p, b>> \in stale) /\ cached[p][b] # Unknown THEN Garbage
           ELSE cached[p][b]]] >>
=============================================================================
