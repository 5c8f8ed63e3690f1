--------------------------- MODULE TicketSpinlock ---------------------------
(***************************************************************************)
(* The ticket spinlock of include/spinlock.h.  The lock is one word: its   *)
(* low byte is the ticket being served, its high byte the next ticket to   *)
(* hand out.  Both bytes wrap (xaddw loses the carry out of the high byte, *)
(* incb the carry out of the low one).  The threads call spin_lock and     *)
(* spin_unlock in turn for ever.  An operator named Faulty... is a variant *)
(* of the next definition with a defect that some property must detect.    *)
(* Init, Next and what else RWLock also has are named Spin... here, since  *)
(* LockProofs extends both modules.                                        *)
(***************************************************************************)
EXTENDS Integers, FiniteSets

CONSTANTS Callers,      \* the threads that use the lock
          Tickets       \* the number of tickets: 256, the values of a byte

ASSUME TicketsAssumption == Tickets \in Nat \ {0}

(* A ticket identifies one thread only while no more threads use the lock  *)
(* than there are tickets: util.h allows 32 threads, a byte 256 tickets.   *)
ASSUME CallersAssumption == /\ IsFiniteSet(Callers)
                            /\ Cardinality(Callers) <= Tickets

VARIABLES serving,      \* low byte of slock
          next,         \* high byte of slock
          ticket,       \* %h0 of each thread: the ticket xaddw gave it
          place         \* "idle", "spin" (label 1 of the asm loop) or "held"

spinVars == <<serving, next, ticket, place>>

Ticket == 0 .. Tickets - 1

FaultyInc(x) == IF x = Tickets THEN 0 ELSE x + 1   \* carries into next byte

(* Increment of one byte of the lock word, and the distance between two.   *)
Inc(x) == IF x = Tickets - 1 THEN 0 ELSE x + 1
Dist(a, b) == IF a >= b THEN a - b ELSE a - b + Tickets

SpinTypeOK == /\ serving \in Ticket
              /\ next \in Ticket
              /\ ticket \in [Callers -> Ticket]
              /\ place \in [Callers -> {"idle", "spin", "held"}]

SpinInit == /\ serving = 0
            /\ next = 0
            /\ ticket = [t \in Callers |-> 0]
            /\ place = [t \in Callers |-> "idle"]

(* xaddw fetches both bytes at once: the thread whose ticket is already    *)
(* being served leaves without another load.                               *)
TakeTicket(t) ==
    /\ place[t] = "idle"
    /\ ticket' = [ticket EXCEPT ![t] = next]
    /\ next' = Inc(next)
    /\ place' = [place EXCEPT ![t] = IF serving = next THEN "held" ELSE "spin"]
    /\ UNCHANGED serving

(* A comparison that a wrap of the ticket defeats.                         *)
FaultySpinOrder(t) ==
    /\ place[t] = "spin"
    /\ serving >= ticket[t]
    /\ place' = [place EXCEPT ![t] = "held"]
    /\ UNCHANGED <<serving, next, ticket>>

(* A test-and-set lock in disguise: any waiter may take a free lock.       *)
FaultySpinBarges(t) ==
    /\ place[t] = "spin"
    /\ \A u \in Callers : place[u] # "held"
    /\ place' = [place EXCEPT ![t] = "held"]
    /\ UNCHANGED <<serving, next, ticket>>

(* movb/cmpb: reload the low byte; an unequal byte goes round the loop.    *)
Spin(t) ==
    /\ place[t] = "spin"
    /\ serving = ticket[t]
    /\ place' = [place EXCEPT ![t] = "held"]
    /\ UNCHANGED <<serving, next, ticket>>

(* The increment of the low byte is lost.                                  *)
FaultyUnlock(t) ==
    /\ place[t] = "held"
    /\ place' = [place EXCEPT ![t] = "idle"]
    /\ UNCHANGED <<serving, next, ticket>>

Unlock(t) ==
    /\ place[t] = "held"
    /\ serving' = Inc(serving)
    /\ place' = [place EXCEPT ![t] = "idle"]
    /\ UNCHANGED <<next, ticket>>

SpinNext == \E t \in Callers : TakeTicket(t) \/ Spin(t) \/ Unlock(t)

(* A spinning thread keeps running and a critical section ends; nothing    *)
(* makes an idle thread ask for the lock.                                  *)
SpinFairness ==
    \A t \in Callers : WF_spinVars(Spin(t)) /\ WF_spinVars(Unlock(t))

SpinSpec == SpinInit /\ [][SpinNext]_spinVars /\ SpinFairness
-----------------------------------------------------------------------------
Engaged == {t \in Callers : place[t] # "idle"}
Behind(t) == Dist(ticket[t], serving)   \* how many threads t waits for

(* Two threads never both hold the lock, although tickets are reused after *)
(* a wrap of the byte (spin_lock, spinlock.h:26-38).                       *)
MutualExclusion ==
    \A t, u \in Callers : place[t] = "held" /\ place[u] = "held" => t = u

(* The inductive invariant: n engaged threads hold the n tickets from      *)
(* "serving" on, one each, "next" is the ticket after them, and the owner  *)
(* has the one being served.                                               *)
TicketsDistinct ==
    \A t, u \in Engaged : ticket[t] = ticket[u] => t = u
TicketsAhead ==
    \A t \in Engaged : Behind(t) < Cardinality(Engaged)
NextFollows ==
    LET n == Cardinality(Engaged)
    IN  next = IF serving + n >= Tickets THEN serving + n - Tickets
                                         ELSE serving + n
OwnerIsServed ==
    \A t \in Callers : place[t] = "held" => ticket[t] = serving

SpinInv == /\ SpinTypeOK
           /\ TicketsDistinct
           /\ TicketsAhead
           /\ NextFollows
           /\ OwnerIsServed

(* Every thread that takes a ticket gets the lock.                         *)
EventuallyHeld ==
    \A t \in Callers : (place[t] = "spin") ~> (place[t] = "held")

(* The lock word implements a fair queue: the queue is the engaged threads *)
(* in the order of their tickets.                                          *)
Before(t) == {u \in Engaged : Behind(u) < Behind(t)}
Queue == [i \in 1 .. Cardinality(Engaged) |->
             CHOOSE t \in Engaged : Cardinality(Before(t)) = i - 1]
Granted == \E t \in Callers : place[t] = "held"

Fifo == INSTANCE FifoLock
            WITH Threads <- Callers, queue <- Queue, granted <- Granted
ImplementsFifoLock == Fifo!Spec
=============================================================================
