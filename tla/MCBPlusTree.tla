----------------------------- MODULE MCBPlusTree -----------------------------
(* BPlusTree with interchangeable threads.                                 *)
EXTENDS BPlusTree, TLC

Symmetric == Permutations(Threads)
=============================================================================
