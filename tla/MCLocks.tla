------------------------------- MODULE MCLocks -------------------------------
(* One of the three things that threads wait at: the ticket lock, the      *)
(* reader-writer lock, or the queue with its condition variable.  Which    *)
(* one is settled at the start; the two others stay as they were made.     *)
EXTENDS TicketSpinlock, RWLock, BlockingQueue

VARIABLE shared         \* what the threads share

lockVars == <<spinVars, vars, queueVars, shared>>

LockInit == /\ shared \in {"spinlock", "rwlock", "queue"}
            /\ SpinInit /\ Init /\ QueueInit
            /\ shared # "queue" => \E w \in Values : /\ buffer = [i \in 0 .. Cap - 1 |-> w]
                                                     /\ v = [t \in Clients |-> w]

LockNext == \/ shared = "spinlock" /\ SpinNext /\ UNCHANGED <<vars, queueVars, shared>>
            \/ shared = "rwlock" /\ Next /\ UNCHANGED <<spinVars, queueVars, shared>>
            \/ shared = "queue" /\ QueueNext /\ UNCHANGED <<spinVars, vars, shared>>

LockSpec == LockInit /\ [][LockNext]_lockVars /\ SpinFairness /\ Fairness
=============================================================================
