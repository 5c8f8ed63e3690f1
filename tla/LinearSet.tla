------------------------------ MODULE LinearSet ------------------------------
(***************************************************************************)
(* What a concurrent set promises about its updates: every call that says  *)
(* it changed the set did so in one step, by one key, and nothing else     *)
(* changes the set.                                                        *)
(***************************************************************************)
CONSTANTS Threads, Keys

VARIABLES keys,         \* the keys in the set
          outcome       \* of each thread's call: none yet, changed or failed

Init == keys = {} /\ outcome = [t \in Threads |-> "none"]

Decide(t, as) == /\ outcome[t] = "none"
                 /\ outcome' = [outcome EXCEPT ![t] = as]

Insert(t, k) == Decide(t, "changed") /\ k \notin keys /\ keys' = keys \cup {k}
Remove(t, k) == Decide(t, "changed") /\ k \in keys /\ keys' = keys \ {k}

(* The call changes nothing: it failed, or it was a lookup.                *)
Fail(t) == Decide(t, "failed") /\ UNCHANGED keys

Return(t) == /\ outcome' = [outcome EXCEPT ![t] = "none"]
             /\ UNCHANGED keys

Next == \E t \in Threads : \/ \E k \in Keys : Insert(t, k) \/ Remove(t, k)
                           \/ Fail(t) \/ Return(t)
=============================================================================
