--------------------------- MODULE MCServerFiles ---------------------------
(* Instances of ServerFiles for TLC.                                       *)
EXTENDS ServerFiles, TLC

CONSTANTS t1, t2, t3

\* The threads are interchangeable; only the runs without liveness use it.
Symmetry == Permutations(Threads)
=============================================================================
