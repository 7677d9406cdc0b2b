---------------------------- MODULE MCCachedTree ----------------------------
(* Instances of CachedTree for TLC.                                        *)
EXTENDS CachedTree, TLC

CONSTANTS t1, t2, a, b

\* Threads are interchangeable, and so are names: Init starts with any of them.
Symmetry == Permutations(Threads) \cup Permutations(Names)
=============================================================================
