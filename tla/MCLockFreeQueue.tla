--------------------------- MODULE MCLockFreeQueue ---------------------------
(* LockFreeQueue with interchangeable threads, nodes and values.           *)
EXTENDS LockFreeQueue, TLC
Symmetric == Permutations(Threads) \cup Permutations(Nodes) \cup Permutations(Values)
=============================================================================
