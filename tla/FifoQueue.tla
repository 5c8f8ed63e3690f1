------------------------------ MODULE FifoQueue ------------------------------
(* What an unbounded queue promises: values come out in the order they     *)
(* went in.                                                                *)
EXTENDS Sequences

CONSTANT Values

VARIABLE contents       \* the values in the queue, oldest first

Init == contents = <<>>

Push == \E v \in Values : contents' = Append(contents, v)
Pop  == contents # <<>> /\ contents' = Tail(contents)

Spec == Init /\ [][Push \/ Pop]_contents
=============================================================================
