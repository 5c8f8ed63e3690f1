----------------------------- MODULE GracePeriod -----------------------------
(***************************************************************************)
(* What the structures that call ebr_enter, ebr_exit and ebr_put rely on:  *)
(* a node handed to ebr_put is freed only when every thread that was       *)
(* inside its critical section at that time has left it.  EBR models how   *)
(* far reclamation/ebr.c keeps this.                                       *)
(***************************************************************************)
CONSTANT Threads

VARIABLES inside,       \* the threads between ebr_enter and ebr_exit
          waits         \* retired node -> threads that may still use it

vars == <<inside, waits>>

Init == inside = {} /\ waits = <<>>

Retired == DOMAIN waits

(* A thread that never left enters again with a new epoch, and gives up    *)
(* what it was protecting.                                                 *)
Enter(t) == /\ inside' = inside \cup {t}
            /\ waits' = [n \in Retired |-> waits[n] \ {t}]

Exit(t) == /\ inside' = inside \ {t}
           /\ waits' = [n \in Retired |-> waits[n] \ {t}]

Retire(n) == /\ waits' = [m \in Retired \cup {n} |->
                             IF m \in Retired THEN waits[m] ELSE inside]
             /\ UNCHANGED inside

(* The collector hands n to _free.                                         *)
Collect(n) == /\ n \in Retired /\ waits[n] = {}
              /\ waits' = [m \in Retired \ {n} |-> waits[m]]
              /\ UNCHANGED inside

(* A collection hands it every node of a list at once.                     *)
CollectAll(S) == /\ S \subseteq Retired /\ \A n \in S : waits[n] = {}
                 /\ waits' = [m \in Retired \ S |-> waits[m]]
                 /\ UNCHANGED inside

Next(Nodes) == \/ \E t \in Threads : Enter(t) \/ Exit(t)
               \/ \E n \in Nodes : Retire(n)
               \/ \E S \in SUBSET Nodes : CollectAll(S)
=============================================================================
