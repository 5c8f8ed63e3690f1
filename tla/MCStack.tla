------------------------------- MODULE MCStack -------------------------------
(* Stack with interchangeable threads and nodes.                           *)
EXTENDS Stack, TLC

Symmetric == Permutations(Threads) \cup Permutations(Nodes)
=============================================================================
