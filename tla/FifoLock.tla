------------------------------ MODULE FifoLock ------------------------------
(***************************************************************************)
(* What a fair lock promises: threads are granted the lock one at a time,  *)
(* in the order in which they asked for it.  TicketSpinlock implements it; *)
(* RWLock uses it for the wait queue "slock" of the queue rwlock.          *)
(***************************************************************************)
EXTENDS Naturals, Sequences, SequencesExt

CONSTANT Threads        \* the threads that may ask for the lock

VARIABLES queue,        \* the threads that asked and have not released, in order
          granted       \* TRUE when the head of the queue owns the lock

vars == <<queue, granted>>

TypeOK == /\ queue \in Seq(Threads)
          /\ granted \in BOOLEAN

Init == queue = <<>> /\ granted = FALSE

Waiting(t) == t \in ToSet(queue)
Holds(t)   == granted /\ queue # <<>> /\ Head(queue) = t

(* t joins the queue; it owns the lock at once when nobody is before it.   *)
Request(t) == /\ ~Waiting(t)
              /\ queue' = Append(queue, t)
              /\ granted' = (granted \/ queue = <<>>)

(* The head of the queue notices that it is its turn.                      *)
Acquire(t) == /\ ~granted
              /\ queue # <<>> /\ Head(queue) = t
              /\ granted' = TRUE
              /\ UNCHANGED queue

(* The owner leaves; its successor has still to notice.                    *)
Release(t) == /\ Holds(t)
              /\ queue' = Tail(queue)
              /\ granted' = FALSE

Next == \E t \in Threads : Request(t) \/ Acquire(t) \/ Release(t)

Fairness == \A t \in Threads : WF_vars(Acquire(t)) /\ WF_vars(Release(t))

Spec == Init /\ [][Next]_vars /\ Fairness
=============================================================================
