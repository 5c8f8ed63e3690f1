------------------------------- MODULE Chains -------------------------------
(***************************************************************************)
(* The nodes that a walk along the links of a list meets.  N is the set of *)
(* nodes, succ[n] the link word of node n, from the word the walk starts   *)
(* at; a word that is not a node ends the walk.                            *)
(*                                                                         *)
(* The set is defined as the least one that holds the first node and the   *)
(* successor of each of its nodes, so that ChainTheorems can prove how a   *)
(* push, a pop or a swap of one link changes it without induction.         *)
(***************************************************************************)
EXTENDS Naturals, FiniteSets

Closed(N, C, succ, from) ==
    /\ from \in N => from \in C
    /\ \A n \in C : succ[n] \in N => succ[n] \in C

Chain(N, succ, from) ==
    LET closed == {C \in SUBSET N : Closed(N, C, succ, from)}
    IN  {n \in N : \A C \in closed : n \in C}

(* No walk meets a node twice.                                             *)
Acyclic(N, succ, from) ==
    \A n \in Chain(N, succ, from) : n \notin Chain(N, succ, succ[n])

(* The word the walk has come to after k links.                            *)
After(N, succ, p) == IF p \in N THEN succ[p] ELSE p

Path(N, succ, from) ==
    LET w[k \in Nat] == IF k = 0 THEN from ELSE After(N, succ, w[k - 1])
    IN  w

(* The nodes on the path, which are the chain.                             *)
Visited(N, succ, from) ==
    LET path == Path(N, succ, from)
    IN  N \cap {path[k] : k \in 0 .. Cardinality(N) - 1}

(* How many nodes it meets.                                                *)
PathLength(N, succ, from) ==
    LET path == Path(N, succ, from)
    IN  Cardinality({k \in 0 .. Cardinality(N) - 1 : path[k] \in N})
=============================================================================
