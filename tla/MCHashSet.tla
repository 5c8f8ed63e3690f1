------------------------------ MODULE MCHashSet ------------------------------
(* HashSet with interchangeable threads.                                   *)
EXTENDS HashSet, TLC

Symmetric == Permutations(Threads)
=============================================================================
