------------------------------ MODULE LifoStack ------------------------------
(* What a stack promises: what went in last comes out first.               *)
EXTENDS Sequences

CONSTANT Values

VARIABLE contents       \* the values in the stack, the newest first

Init == contents = <<>>

Push == \E v \in Values : contents' = <<v>> \o contents
Pop  == contents # <<>> /\ contents' = Tail(contents)

Spec == Init /\ [][Push \/ Pop]_contents
=============================================================================
