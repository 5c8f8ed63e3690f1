--------------------------- MODULE BlockingQueue ---------------------------
(***************************************************************************)
(* The bounded producer-consumer queue of queue/blocking/queue.c.  One     *)
(* mutex covers q_push and q_pop, and one condition variable is shared by  *)
(* the threads that wait for room and those that wait for a value, so a    *)
(* signal may wake a thread of the wrong kind, which waits again and has   *)
(* used the signal up.                                                     *)
(*                                                                         *)
(* What a thread does while it holds the mutex is one step.  q_front takes *)
(* no lock, changes nothing, and reads past the end of the buffer: it is   *)
(* not modelled.                                                           *)
(*                                                                         *)
(* An operator named Faulty... is a variant of the next definition with a  *)
(* defect that some property must detect.                                  *)
(***************************************************************************)
EXTENDS Naturals, FiniteSets

CONSTANTS Clients,      \* the threads that use the queue
          Values,
          Cap           \* the size given to q_create

ASSUME BlockingQueueAssumption == IsFiniteSet(Clients) /\ Cap \in Nat \ {0}

(* At most one thread more than places.  No wake-up is lost then.  Many    *)
(* more threads lose one: 3 on one place, 5 on two, 6 on three.  The test  *)
(* runs 8 threads on 10000 places.                                         *)
FewThreads == Cardinality(Clients) <= Cap + 1

VARIABLES buffer, used,         \* struct queue
          waiting,              \* the threads asleep on cond
          call,                 \* the call a thread is in: push, pop or none
          v                     \* the argument of q_push, the result of q_pop

queueVars == <<buffer, used, waiting, call, v>>

QueueInit ==
    /\ buffer \in [0 .. Cap - 1 -> Values]          \* as malloc left it
    /\ used = 0
    /\ waiting = {}
    /\ call = [t \in Clients |-> "idle"]
    /\ v \in [Clients -> Values]

(* The threads in a call that run, or wait for the mutex.                  *)
Awake(kind) == {t \in Clients \ waiting : call[t] = kind}

-----------------------------------------------------------------------------
Call(t) == /\ call[t] = "idle"
           /\ \/ /\ call' = [call EXCEPT ![t] = "push"]
                 /\ \E w \in Values : v' = [v EXCEPT ![t] = w]
              \/ call' = [call EXCEPT ![t] = "pop"] /\ UNCHANGED v
           /\ UNCHANGED <<buffer, used, waiting>>

(* pthread_cond_wait: sleeps and gives the mutex up.                       *)
Wait(t) == waiting' = waiting \cup {t} /\ UNCHANGED <<buffer, used, call, v>>

(* pthread_cond_signal: wakes some sleeper, if there is one.               *)
Signal == \/ waiting = {} /\ UNCHANGED waiting
          \/ \E t \in waiting : waiting' = waiting \ {t}

(* Signals on the first value only.                                        *)
FaultyPush(t) ==
    /\ t \in Awake("push")
    /\ \/ used >= Cap /\ Wait(t)
       \/ /\ used < Cap
          /\ buffer' = [buffer EXCEPT ![used] = v[t]]
          /\ used' = used + 1
          /\ IF used = 0 THEN Signal ELSE UNCHANGED waiting
          /\ call' = [call EXCEPT ![t] = "idle"]
          /\ UNCHANGED v

Push(t) ==
    /\ t \in Awake("push")
    /\ \/ used >= Cap /\ Wait(t)
       \/ /\ used < Cap
          /\ buffer' = [buffer EXCEPT ![used] = v[t]]
          /\ used' = used + 1
          /\ Signal
          /\ call' = [call EXCEPT ![t] = "idle"]
          /\ UNCHANGED v

(* Does not signal the producers.                                          *)
FaultyPop(t) ==
    /\ t \in Awake("pop")
    /\ \/ used = 0 /\ Wait(t)
       \/ /\ used # 0
          /\ v' = [v EXCEPT ![t] = buffer[used - 1]]
          /\ used' = used - 1
          /\ UNCHANGED waiting
          /\ call' = [call EXCEPT ![t] = "idle"]
          /\ UNCHANGED buffer

Pop(t) ==
    /\ t \in Awake("pop")
    /\ \/ used = 0 /\ Wait(t)
       \/ /\ used # 0
          /\ v' = [v EXCEPT ![t] = buffer[used - 1]]
          /\ used' = used - 1
          /\ Signal
          /\ call' = [call EXCEPT ![t] = "idle"]
          /\ UNCHANGED buffer

(* pthread_cond_wait may return without a signal.                          *)
Spurious(t) == /\ t \in waiting
               /\ waiting' = waiting \ {t}
               /\ UNCHANGED <<buffer, used, call, v>>

QueueNext == \E t \in Clients : Call(t) \/ Push(t) \/ Pop(t) \/ Spurious(t)

QueueSpec == QueueInit /\ [][QueueNext]_queueVars
-----------------------------------------------------------------------------
QueueTypeOK ==
    /\ buffer \in [0 .. Cap - 1 -> Values]
    /\ used \in 0 .. Cap
    /\ waiting \subseteq Clients
    /\ call \in [Clients -> {"idle", "push", "pop"}]
    /\ v \in [Clients -> Values]

(* No lost wake-up when FewThreads holds: while a sleeper could go on,     *)
(* some thread is awake in a call and will signal before it leaves,        *)
(* whatever sleeper each signal woke.                                      *)
NoLostWakeup ==
    \A t \in waiting :
        (call[t] = "push" /\ used < Cap) \/ (call[t] = "pop" /\ used > 0)
            => Awake("push") \cup Awake("pop") # {}

(* While consumers sleep, every stored value has a consumer awake to take  *)
(* it; while producers sleep, every empty place has a producer awake.      *)
Covered(kind, count) ==
    (\E t \in waiting : call[t] = kind) => Cardinality(Awake(kind)) >= count

QueueInv ==
    /\ QueueTypeOK
    /\ \A t \in waiting : call[t] # "idle"
    /\ Covered("pop", used)
    /\ Covered("push", Cap - used)

(* Sleepers of both kinds never meet when FewThreads holds, so a signal    *)
(* never wakes the wrong kind.                                             *)
OneKindSleeps == \A t, u \in waiting : call[t] = call[u]
=============================================================================
