---------------------------- MODULE MCLockFreeList ----------------------------
(* LockFreeList with interchangeable threads and nodes; a freed node leads *)
(* nowhere.                                                                *)
EXTENDS LockFreeList, TLC

Symmetric == Permutations(Threads) \cup Permutations(Nodes)
Nothing   == {[word |-> Plain(NULL), key |-> 0]}
=============================================================================
