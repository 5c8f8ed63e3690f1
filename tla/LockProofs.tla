----------------------------- MODULE LockProofs -----------------------------
(***************************************************************************)
(* Proofs about the locks.  The ticket spinlock: mutual exclusion, and     *)
(* that it serves its threads as a queue does, for any number of tickets   *)
(* and any set of at most that many threads.  The reader-writer lock:      *)
(* readers and writers exclude each other, and a writer that has raised    *)
(* its flag is not overtaken, for any finite set of threads.               *)
(***************************************************************************)
EXTENDS TicketSpinlock, RWLock, ChainTheorems

(* The engaged threads are a finite set, never more than there are tickets. *)
LEMMA EngagedFinite ==
    /\ IsFiniteSet(Engaged)
    /\ Cardinality(Engaged) \in Nat
    /\ Cardinality(Engaged) <= Tickets
    /\ \A t \in Callers \ Engaged : Cardinality(Engaged) < Tickets
<1>1. Engaged \subseteq Callers
  BY DEF Engaged
<1>2. /\ IsFiniteSet(Engaged)
      /\ Cardinality(Engaged) \in Nat
      /\ Cardinality(Callers) \in Nat
      /\ Cardinality(Engaged) <= Cardinality(Callers)
      /\ Engaged # Callers => Cardinality(Engaged) < Cardinality(Callers)
  BY <1>1, CallersAssumption, FS_Subset, FS_CardinalityType
<1>3. Cardinality(Engaged) <= Tickets
  BY <1>2, CallersAssumption, TicketsAssumption
<1>4. ASSUME NEW t \in Callers \ Engaged
      PROVE  Cardinality(Engaged) < Tickets
  BY <1>2, <1>4, CallersAssumption, TicketsAssumption
<1> QED
  BY <1>2, <1>3, <1>4

LEMMA InitSpinInv == SpinInit => SpinInv
<1> SUFFICES ASSUME SpinInit PROVE SpinInv
  OBVIOUS
<1>1. Engaged = {}
  BY DEF SpinInit, Engaged
<1>2. Cardinality(Engaged) = 0
  BY <1>1, FS_EmptySet
<1>3. SpinTypeOK
  BY TicketsAssumption DEF SpinInit, SpinTypeOK, Ticket
<1>4. TicketsDistinct /\ TicketsAhead
  BY <1>1 DEF TicketsDistinct, TicketsAhead
<1>5. NextFollows
  BY <1>2, TicketsAssumption DEF SpinInit, NextFollows
<1>6. OwnerIsServed
  BY DEF SpinInit, OwnerIsServed
<1> QED
  BY <1>3, <1>4, <1>5, <1>6 DEF SpinInv

LEMMA TakeTicketInv ==
    ASSUME SpinInv, NEW t \in Callers, TakeTicket(t)
    PROVE  SpinInv'
<1> DEFINE n == Cardinality(Engaged)
<1>0. /\ SpinTypeOK /\ TicketsDistinct /\ TicketsAhead /\ NextFollows /\ OwnerIsServed
      /\ Tickets \in Nat \ {0}
      /\ next \in 0 .. Tickets - 1 /\ serving \in 0 .. Tickets - 1
  BY TicketsAssumption DEF SpinInv, SpinTypeOK, Ticket
<1>1. /\ Engaged' = Engaged \cup {t}
      /\ t \notin Engaged
  BY <1>0 DEF TakeTicket, Engaged, SpinTypeOK
<1>2. /\ n \in Nat /\ n < Tickets
      /\ Cardinality(Engaged)' = n + 1
  BY <1>1, EngagedFinite, FS_AddElement
<1>3. Dist(next, serving) = n
  BY <1>0, <1>2 DEF Dist, NextFollows
<1>4. /\ ticket' = [ticket EXCEPT ![t] = next]
      /\ ticket'[t] = next
      /\ \A u \in Engaged : ticket'[u] = ticket[u]
      /\ serving' = serving /\ next' = Inc(next)
  BY <1>0, <1>1 DEF TakeTicket, SpinTypeOK, Engaged
<1>5. \A u \in Engaged : ticket[u] # next
  <2> SUFFICES ASSUME NEW u \in Engaged, ticket[u] = next PROVE FALSE
    OBVIOUS
  <2>1. Dist(ticket[u], serving) < n
    BY <1>0 DEF TicketsAhead, Behind
  <2> QED
    BY <2>1, <1>2, <1>3
<1>6. SpinTypeOK'
  BY <1>0 DEF SpinTypeOK, TakeTicket, Ticket, Inc
<1>7. TicketsDistinct'
  BY <1>0, <1>1, <1>4, <1>5 DEF TicketsDistinct
<1>8. TicketsAhead'
  <2> SUFFICES ASSUME NEW u \in Engaged' PROVE Dist(ticket'[u], serving) < n + 1
    BY <1>2, <1>4 DEF TicketsAhead, Behind, Dist
  <2>1. CASE u = t
    BY <2>1, <1>2, <1>3, <1>4
  <2>2. CASE u # t
    <3>1. /\ u \in Engaged
          /\ Dist(ticket[u], serving) < n
          /\ ticket[u] \in 0 .. Tickets - 1
      BY <2>2, <1>0, <1>1 DEF TicketsAhead, Behind, SpinTypeOK, Ticket, Engaged
    <3> QED
      BY <3>1, <1>0, <1>2, <1>4 DEF Dist
  <2> QED
    BY <2>1, <2>2
<1>9. NextFollows'
  <2>1. next = IF serving + n >= Tickets THEN serving + n - Tickets
                                         ELSE serving + n
    BY <1>0 DEF NextFollows
  <2>2. Inc(next) = IF serving + (n + 1) >= Tickets
                      THEN serving + (n + 1) - Tickets
                      ELSE serving + (n + 1)
    BY <2>1, <1>0, <1>2 DEF Inc
  <2> QED
    BY <2>2, <1>2, <1>4 DEF NextFollows
<1>10. OwnerIsServed'
  BY <1>0, <1>4 DEF OwnerIsServed, TakeTicket, SpinTypeOK
<1> QED
  BY <1>6, <1>7, <1>8, <1>9, <1>10 DEF SpinInv

LEMMA SpinKeepsInv ==
    ASSUME SpinInv, NEW t \in Callers, Spin(t)
    PROVE  SpinInv'
<1>0. /\ SpinTypeOK /\ TicketsDistinct /\ TicketsAhead /\ NextFollows /\ OwnerIsServed
  BY DEF SpinInv
<1>1. Engaged' = Engaged
  BY <1>0 DEF Spin, Engaged, SpinTypeOK
<1>2. SpinTypeOK'
  BY <1>0 DEF Spin, SpinTypeOK
<1>3. TicketsDistinct' /\ TicketsAhead' /\ NextFollows'
  BY <1>0, <1>1 DEF Spin, TicketsDistinct, TicketsAhead, NextFollows, Behind, Dist
<1>4. OwnerIsServed'
  BY <1>0 DEF Spin, OwnerIsServed, SpinTypeOK
<1> QED
  BY <1>2, <1>3, <1>4 DEF SpinInv

LEMMA UnlockInv ==
    ASSUME SpinInv, NEW t \in Callers, Unlock(t)
    PROVE  SpinInv'
<1> DEFINE n == Cardinality(Engaged)
<1>0. /\ SpinTypeOK /\ TicketsDistinct /\ TicketsAhead /\ NextFollows /\ OwnerIsServed
      /\ Tickets \in Nat \ {0}
      /\ next \in 0 .. Tickets - 1 /\ serving \in 0 .. Tickets - 1
  BY TicketsAssumption DEF SpinInv, SpinTypeOK, Ticket
<1>1. /\ Engaged' = Engaged \ {t}
      /\ t \in Engaged
      /\ ticket[t] = serving
  BY <1>0 DEF Unlock, Engaged, SpinTypeOK, OwnerIsServed
<1>2. /\ n \in Nat /\ n <= Tickets /\ n > 0
      /\ Cardinality(Engaged)' = n - 1
  BY <1>1, EngagedFinite, FS_RemoveElement, FS_EmptySet
<1>3. serving' = Inc(serving) /\ next' = next /\ ticket' = ticket
  BY DEF Unlock
<1>4. \A u \in Engaged' : /\ u \in Engaged
                          /\ ticket[u] # serving
                          /\ ticket[u] \in 0 .. Tickets - 1
                          /\ Dist(ticket[u], serving) < n
  BY <1>0, <1>1 DEF TicketsDistinct, TicketsAhead, Behind, SpinTypeOK, Ticket, Engaged
<1>5. SpinTypeOK'
  BY <1>0 DEF SpinTypeOK, Unlock, Ticket, Inc
<1>6. TicketsDistinct'
  BY <1>0, <1>3, <1>4 DEF TicketsDistinct
<1>7. TicketsAhead'
  <2> SUFFICES ASSUME NEW u \in Engaged'
               PROVE  Dist(ticket[u], Inc(serving)) < n - 1
    BY <1>2, <1>3 DEF TicketsAhead, Behind, Dist
  <2> QED
    BY <1>0, <1>2, <1>4 DEF Dist, Inc
<1>8. NextFollows'
  BY <1>0, <1>2, <1>3 DEF NextFollows, Inc
<1>9. OwnerIsServed'
  <2> SUFFICES ASSUME NEW u \in Callers, place'[u] = "held" PROVE FALSE
    BY DEF OwnerIsServed
  <2>1. u \in Engaged' /\ place[u] = "held"
    BY <1>0 DEF Unlock, Engaged, SpinTypeOK
  <2> QED
    BY <2>1, <1>0, <1>4 DEF OwnerIsServed
<1> QED
  BY <1>5, <1>6, <1>7, <1>8, <1>9 DEF SpinInv

LEMMA StepSpinInv == SpinInv /\ [SpinNext]_spinVars => SpinInv'
<1> SUFFICES ASSUME SpinInv, [SpinNext]_spinVars PROVE SpinInv'
  OBVIOUS
<1>1. ASSUME NEW t \in Callers, TakeTicket(t) PROVE SpinInv'
  BY <1>1, TakeTicketInv
<1>2. ASSUME NEW t \in Callers, Spin(t) PROVE SpinInv'
  BY <1>2, SpinKeepsInv
<1>3. ASSUME NEW t \in Callers, Unlock(t) PROVE SpinInv'
  BY <1>3, UnlockInv
<1>4. CASE UNCHANGED spinVars
  BY <1>4 DEF SpinInv, SpinTypeOK, TicketsDistinct, TicketsAhead, NextFollows,
              OwnerIsServed, Engaged, Behind, Dist, spinVars
<1> QED
  BY <1>1, <1>2, <1>3, <1>4 DEF SpinNext

(* The tickets in use are those from "serving" on, whatever the threads do. *)
THEOREM SpinInvariance == SpinSpec => []SpinInv
<1> QED
  BY InitSpinInv, StepSpinInv, PTL DEF SpinSpec

(* spin_lock and spin_unlock keep two threads out of each other's critical *)
(* section for any number of threads a ticket can tell apart.              *)
THEOREM SpinSafety == SpinSpec => []MutualExclusion
<1>1. SpinInv => MutualExclusion
  BY DEF SpinInv, SpinTypeOK, OwnerIsServed, TicketsDistinct, MutualExclusion, Engaged
<1> QED
  BY <1>1, SpinInvariance, PTL

-----------------------------------------------------------------------------
(* The queue.  No ticket between the one served and the next is missing,   *)
(* so a thread is as many places behind as there are threads before it.    *)
NoGap == \A i \in 0 .. Cardinality(Engaged) - 1 : \E t \in Engaged : Behind(t) = i

LEMMA Places ==
    ASSUME SpinInv
    PROVE  /\ Cardinality(Engaged) \in Nat
           /\ \A t \in Engaged : Behind(t) \in 0 .. Cardinality(Engaged) - 1
           /\ \A t, u \in Engaged : Behind(t) = Behind(u) => t = u
<1>1. Cardinality(Engaged) \in Nat /\ Cardinality(Engaged) <= Tickets
  BY EngagedFinite
<1>2. \A t \in Engaged : ticket[t] \in 0 .. Tickets - 1 /\ serving \in 0 .. Tickets - 1
  BY DEF SpinInv, SpinTypeOK, Ticket, Engaged
<1>3. \A t \in Engaged : Behind(t) \in Nat /\ Behind(t) < Cardinality(Engaged)
  BY <1>2, TicketsAssumption DEF SpinInv, TicketsAhead, Behind, Dist
<1>4. \A t, u \in Engaged : Behind(t) = Behind(u) => ticket[t] = ticket[u]
  BY <1>2, TicketsAssumption DEF Behind, Dist
<1> QED
  BY <1>1, <1>3, <1>4 DEF SpinInv, TicketsDistinct

(* How the places change with a request and with a release. *)
LEMMA Joins ==
    ASSUME SpinInv, NEW t \in Callers, TakeTicket(t)
    PROVE  /\ t \notin Engaged /\ Engaged' = Engaged \cup {t}
           /\ Cardinality(Engaged') = Cardinality(Engaged) + 1
           /\ \A u \in Engaged : Behind(u)' = Behind(u)
           /\ \A u \in Callers : u = t => Behind(u)' = Cardinality(Engaged)
           /\ serving = next <=> Cardinality(Engaged) = 0
<1> DEFINE n == Cardinality(Engaged)
<1>0. /\ SpinTypeOK /\ NextFollows
      /\ Tickets \in Nat \ {0}
      /\ next \in 0 .. Tickets - 1 /\ serving \in 0 .. Tickets - 1
  BY TicketsAssumption DEF SpinInv, SpinTypeOK, Ticket
<1>1. t \notin Engaged /\ Engaged' = Engaged \cup {t}
  BY <1>0 DEF TakeTicket, Engaged, SpinTypeOK
<1>2. n \in Nat /\ n < Tickets /\ Cardinality(Engaged') = n + 1
  BY <1>1, EngagedFinite, FS_AddElement
<1>3. Dist(next, serving) = n /\ (serving = next <=> n = 0)
  BY <1>0, <1>2 DEF Dist, NextFollows
<1>4. /\ ticket'[t] = next /\ serving' = serving
      /\ \A u \in Engaged : ticket'[u] = ticket[u]
  BY <1>0, <1>1 DEF TakeTicket, SpinTypeOK, Engaged
<1>5. \A u \in Engaged : Behind(u)' = Behind(u)
  BY <1>4 DEF Behind, Dist
<1>6. \A u \in Callers : u = t => Behind(u)' = n
  BY <1>3, <1>4 DEF Behind, Dist
<1> QED
  BY <1>1, <1>2, <1>3, <1>5, <1>6

LEMMA Leaves ==
    ASSUME SpinInv, NEW t \in Callers, Unlock(t)
    PROVE  /\ t \in Engaged /\ Behind(t) = 0 /\ Engaged' = Engaged \ {t}
           /\ Cardinality(Engaged') = Cardinality(Engaged) - 1
           /\ \A u \in Engaged \ {t} : Behind(u)' = Behind(u) - 1
<1>0. /\ SpinTypeOK /\ OwnerIsServed
      /\ Tickets \in Nat \ {0} /\ serving \in 0 .. Tickets - 1
  BY TicketsAssumption DEF SpinInv, SpinTypeOK, Ticket
<1>1. t \in Engaged /\ ticket[t] = serving /\ Engaged' = Engaged \ {t}
  BY <1>0 DEF Unlock, Engaged, SpinTypeOK, OwnerIsServed
<1>2. Cardinality(Engaged') = Cardinality(Engaged) - 1
  BY <1>1, EngagedFinite, FS_RemoveElement
<1>3. Behind(t) = 0
  BY <1>0, <1>1 DEF Behind, Dist
<1>4. serving' = Inc(serving) /\ ticket' = ticket
  BY DEF Unlock
<1>5. ASSUME NEW u \in Engaged \ {t} PROVE Behind(u)' = Behind(u) - 1
  <2>1. ticket[u] # serving /\ ticket[u] \in 0 .. Tickets - 1
    BY <1>0, <1>1 DEF SpinInv, TicketsDistinct, SpinTypeOK, Ticket, Engaged
  <2>2. Dist(ticket[u], Inc(serving)) = Dist(ticket[u], serving) - 1
    BY <1>0, <2>1 DEF Dist, Inc
  <2>3. Behind(u)' = Dist(ticket[u], Inc(serving))
    BY <1>4 DEF Behind, Dist
  <2> QED
    BY <2>2, <2>3 DEF Behind
<1> QED
  BY <1>1, <1>2, <1>3, <1>5

LEMMA Stays ==
    ASSUME SpinInv, NEW t \in Callers, Spin(t)
    PROVE  Engaged' = Engaged /\ \A u : Behind(u)' = Behind(u)
<1>1. Engaged' = Engaged
  BY DEF SpinInv, SpinTypeOK, Spin, Engaged
<1>2. \A u : Behind(u)' = Behind(u)
  BY DEF Spin, Behind, Dist
<1> QED
  BY <1>1, <1>2

LEMMA NoGapStep ==
    ASSUME SpinInv, NoGap, [SpinNext]_spinVars
    PROVE  NoGap'
<1> DEFINE n == Cardinality(Engaged)
<1>0. /\ n \in Nat
      /\ \A i \in 0 .. n - 1 : \E u \in Engaged : Behind(u) = i
  BY Places DEF NoGap
<1>1. ASSUME NEW t \in Callers, TakeTicket(t) PROVE NoGap'
  <2> SUFFICES ASSUME NEW i \in 0 .. Cardinality(Engaged)' - 1
               PROVE  \E u \in Engaged' : Behind(u)' = i
    BY DEF NoGap
  <2>1. i \in 0 .. n - 1 \/ i = n
    BY <1>0, <1>1, Joins
  <2>2. CASE i \in 0 .. n - 1
    BY <1>0, <1>1, <2>2, Joins
  <2>3. CASE i = n
    BY <1>1, <2>3, Joins
  <2> QED
    BY <2>1, <2>2, <2>3
<1>2. ASSUME NEW t \in Callers, Unlock(t) PROVE NoGap'
  <2> SUFFICES ASSUME NEW i \in 0 .. Cardinality(Engaged)' - 1
               PROVE  \E u \in Engaged' : Behind(u)' = i
    BY DEF NoGap
  <2>1. i + 1 \in 0 .. n - 1 /\ i \in Nat
    BY <1>0, <1>2, Leaves
  <2>2. PICK u \in Engaged : Behind(u) = i + 1
    BY <1>0, <2>1
  <2>3. u \in Engaged \ {t} /\ Behind(u)' = i
    BY <1>2, <2>1, <2>2, Leaves
  <2> QED
    BY <1>2, <2>3, Leaves
<1>3. ASSUME NEW t \in Callers, Spin(t) PROVE NoGap'
  BY <1>3, Stays DEF NoGap
<1>4. CASE UNCHANGED spinVars
  BY <1>4 DEF NoGap, Engaged, Behind, Dist, spinVars
<1> QED
  BY <1>1, <1>2, <1>3, <1>4 DEF SpinNext

(* The i-th thread of the queue is the one with i - 1 before it. *)
LEMMA Ranks ==
    ASSUME SpinInv, NoGap
    PROVE  \A t \in Engaged : Cardinality(Before(t)) = Behind(t)
<1> DEFINE n == Cardinality(Engaged)
           Below(m) == {u \in Engaged : Behind(u) < m}
           T == {m \in Nat : m <= n => /\ IsFiniteSet(Below(m))
                                      /\ Cardinality(Below(m)) = m}
<1>1. /\ n \in Nat
      /\ \A t \in Engaged : Behind(t) \in 0 .. n - 1
      /\ \A t, u \in Engaged : Behind(t) = Behind(u) => t = u
  BY Places
<1>2. 0 \in T
  <2>1. Below(0) = {}
    BY <1>1
  <2> QED
    BY <2>1, FS_EmptySet
<1>3. ASSUME NEW m \in T \cap Nat, m + 1 <= n
      PROVE  IsFiniteSet(Below(m + 1)) /\ Cardinality(Below(m + 1)) = m + 1
  <2>1. IsFiniteSet(Below(m)) /\ Cardinality(Below(m)) = m
    BY <1>1, <1>3
  <2>2. PICK w \in Engaged : Behind(w) = m
    BY <1>1, <1>3 DEF NoGap
  <2>3. Below(m + 1) = Below(m) \cup {w} /\ w \notin Below(m)
    BY <1>1, <2>2
  <2> HIDE DEF Below
  <2> QED
    BY <2>1, <2>3, FS_AddElement
<1>4. \A m \in T \cap Nat : m + 1 \in T
  BY <1>3
<1>5. Nat \subseteq T
  <2> HIDE DEF T
  <2> QED
    BY <1>2, <1>4, SetInduction
<1>6. ASSUME NEW t \in Engaged PROVE Cardinality(Before(t)) = Behind(t)
  <2>1. Before(t) = Below(Behind(t)) /\ Behind(t) \in Nat /\ Behind(t) <= n
    BY <1>1 DEF Before
  <2> QED
    BY <1>5, <2>1
<1> QED
  BY <1>6

Ordered == /\ Queue \in Seq(Engaged) /\ Len(Queue) = Cardinality(Engaged)
           /\ \A i \in 1 .. Len(Queue) : Behind(Queue[i]) = i - 1
           /\ \A t \in Engaged : Queue[Behind(t) + 1] = t

LEMMA QueueIs ==
    ASSUME SpinInv, NoGap
    PROVE  Ordered
<1> DEFINE n == Cardinality(Engaged)
<1>1. /\ n \in Nat
      /\ \A t \in Engaged : Behind(t) \in 0 .. n - 1
      /\ \A t, u \in Engaged : Behind(t) = Behind(u) => t = u
  BY Places
<1>2. ASSUME NEW i \in 1 .. n
      PROVE  Queue[i] \in Engaged /\ Behind(Queue[i]) = i - 1
  <2>1. \E t \in Engaged : Cardinality(Before(t)) = i - 1
    BY <1>1, Ranks DEF NoGap
  <2>2. Queue[i] = CHOOSE t \in Engaged : Cardinality(Before(t)) = i - 1
    BY DEF Queue
  <2>3. Queue[i] \in Engaged /\ Cardinality(Before(Queue[i])) = i - 1
    BY <2>1, <2>2
  <2> QED
    BY <2>3, Ranks
<1>3. Queue \in Seq(Engaged) /\ Len(Queue) = n
  <2>1. Queue = [i \in 1 .. n |-> Queue[i]]
    BY DEF Queue
  <2> QED
    BY <1>1, <1>2, <2>1
<1>4. ASSUME NEW t \in Engaged PROVE Queue[Behind(t) + 1] = t
  <2>1. Behind(t) + 1 \in 1 .. n
    BY <1>1
  <2>2. Behind(Queue[Behind(t) + 1]) = Behind(t) /\ Queue[Behind(t) + 1] \in Engaged
    BY <1>1, <1>2, <2>1
  <2> QED
    BY <1>1, <2>2
<1> QED
  BY <1>2, <1>3, <1>4 DEF Ordered

LEMMA QueueNext == SpinInv' /\ NoGap' => Ordered'
<1>1. SpinInv /\ NoGap => Ordered
  BY QueueIs
<1> QED
  BY <1>1, PTL

-----------------------------------------------------------------------------
(* The steps of the lock are those of the queue. *)
LEMMA TakeTicketRefines ==
    ASSUME SpinInv, NoGap, SpinInv', NoGap', NEW t \in Callers, TakeTicket(t)
    PROVE  Fifo!Request(t)
<1> DEFINE n == Cardinality(Engaged)
<1>1. Ordered /\ Ordered' /\ n \in Nat
  BY QueueIs, QueueNext, Places
<1>2. /\ t \notin Engaged /\ Engaged' = Engaged \cup {t}
      /\ Cardinality(Engaged') = n + 1
      /\ \A u \in Engaged : Behind(u)' = Behind(u)
      /\ \A u \in Callers : u = t => Behind(u)' = n
      /\ serving = next <=> n = 0
  BY Joins
<1>3. ~ Fifo!Waiting(t)
  BY <1>1, <1>2 DEF Ordered, Fifo!Waiting, Fifo!ToSet
<1>4. Queue' = Append(Queue, t)
  <2>1. /\ Queue' \in Seq(Engaged') /\ Append(Queue, t) \in Seq(Engaged')
        /\ Len(Queue') = n + 1 /\ Len(Append(Queue, t)) = n + 1 /\ Len(Queue) = n
    BY <1>1, <1>2 DEF Ordered
  <2>2. ASSUME NEW i \in 1 .. n + 1 PROVE Queue'[i] = Append(Queue, t)[i]
    <3>1. CASE i = n + 1
      <4>1. Queue'[n + 1] = t
        BY <1>1, <1>2 DEF Ordered
      <4>2. Append(Queue, t)[n + 1] = t
        BY <1>1 DEF Ordered
      <4> QED
        BY <3>1, <4>1, <4>2
    <3>2. CASE i # n + 1
      <4>1. i \in 1 .. n /\ Queue[i] \in Engaged /\ Behind(Queue[i]) = i - 1
        BY <1>1, <3>2 DEF Ordered
      <4>2. PICK u \in Engaged : u = Queue[i]
        BY <4>1
      <4>3. Behind(u)' = i - 1 /\ u \in Engaged'
        BY <1>2, <4>1, <4>2
      <4>4. Queue'[i] = u
        BY <1>1, <4>3 DEF Ordered
      <4>5. Append(Queue, t)[i] = Queue[i]
        BY <1>1, <4>1 DEF Ordered
      <4> QED
        BY <4>2, <4>4, <4>5
    <3> QED
      BY <3>1, <3>2
  <2> QED
    BY <2>1, <2>2, SeqEqual
<1>5. Granted' = (Granted \/ Queue = <<>>)
  <2>1. Queue = <<>> <=> n = 0
    BY <1>1 DEF Ordered
  <2>2. Granted' <=> Granted \/ serving = next
    BY DEF Granted, TakeTicket, SpinInv, SpinTypeOK
  <2> QED
    BY <1>2, <2>1, <2>2 DEF Granted
<1> QED
  BY <1>3, <1>4, <1>5 DEF Fifo!Request

(* The first thread of the queue is the one whose ticket is served. *)
LEMMA ServedFirst ==
    ASSUME SpinInv, NoGap, NEW t \in Engaged, ticket[t] = serving
    PROVE  Queue # <<>> /\ Head(Queue) = t
<1>1. Behind(t) = 0
  BY DEF SpinInv, SpinTypeOK, Ticket, Behind, Dist
<1>2. Ordered
  BY QueueIs
<1>3. Len(Queue) \in Nat /\ Len(Queue) # 0
  BY <1>2, Places DEF Ordered
<1> QED
  BY <1>1, <1>2, <1>3 DEF Ordered

LEMMA SpinRefines ==
    ASSUME SpinInv, NoGap, SpinInv', NoGap', NEW t \in Callers, Spin(t)
    PROVE  Fifo!Acquire(t)
<1>1. t \in Engaged /\ ticket[t] = serving /\ place[t] = "spin"
  BY DEF Spin, Engaged
<1>2. ~ Granted
  BY <1>1 DEF SpinInv, OwnerIsServed, TicketsDistinct, Granted, Engaged
<1>3. Granted'
  BY DEF Granted, Spin, SpinInv, SpinTypeOK
<1>4. Queue' = Queue
  <2>1. Engaged' = Engaged /\ \A u : Behind(u)' = Behind(u)
    BY Stays
  <2>2. \A u : Before(u)' = Before(u)
    BY <2>1 DEF Before
  <2> QED
    BY <2>1, <2>2 DEF Queue
<1>5. Granted' = TRUE
  BY <1>3 DEF Granted
<1> QED
  BY <1>1, <1>2, <1>4, <1>5, ServedFirst DEF Fifo!Acquire

LEMMA UnlockRefines ==
    ASSUME SpinInv, NoGap, SpinInv', NoGap', NEW t \in Callers, Unlock(t)
    PROVE  Fifo!Release(t)
<1> DEFINE n == Cardinality(Engaged)
<1>1. Ordered /\ Ordered' /\ n \in Nat
  BY QueueIs, QueueNext, Places
<1>2. /\ t \in Engaged /\ Behind(t) = 0 /\ Engaged' = Engaged \ {t}
      /\ Cardinality(Engaged') = n - 1
      /\ \A u \in Engaged \ {t} : Behind(u)' = Behind(u) - 1
  BY Leaves
<1>3. ticket[t] = serving /\ Granted
  BY DEF SpinInv, OwnerIsServed, Unlock, Granted
<1>4. Queue # <<>> /\ Head(Queue) = t
  BY <1>2, <1>3, ServedFirst
<1>5. Granted' = FALSE
  <2>1. \A u \in Callers : place'[u] # "held"
    BY <1>2, <1>3 DEF Unlock, SpinInv, SpinTypeOK, OwnerIsServed, TicketsDistinct, Engaged
  <2> QED
    BY <2>1 DEF Granted
<1>6. Queue' = Tail(Queue)
  <2>1. /\ Queue \in Seq(Engaged) /\ Len(Queue) = n /\ n # 0
        /\ Queue' \in Seq(Engaged') /\ Len(Queue') = n - 1
    BY <1>1, <1>2, <1>4 DEF Ordered
  <2>2. /\ Tail(Queue) \in Seq(Engaged) /\ Len(Tail(Queue)) = n - 1
        /\ \A i \in 1 .. n - 1 : Tail(Queue)[i] = Queue[i + 1]
    BY <1>1, <1>4, <2>1
  <2>3. ASSUME NEW i \in 1 .. n - 1 PROVE Queue'[i] = Tail(Queue)[i]
    <3>1. i + 1 \in 1 .. n /\ Queue[i + 1] \in Engaged /\ Behind(Queue[i + 1]) = i
      BY <1>1, <2>1 DEF Ordered
    <3>2. PICK u \in Engaged : u = Queue[i + 1]
      BY <3>1
    <3>3. u # t /\ Behind(u)' = i - 1 /\ u \in Engaged'
      BY <1>2, <3>1, <3>2
    <3>4. Queue'[i] = u
      BY <1>1, <3>3 DEF Ordered
    <3> QED
      BY <2>2, <3>2, <3>4
  <2>4. Queue' \in Seq(Engaged)
    BY <1>2, <2>1
  <2> QED
    BY <2>1, <2>2, <2>3, <2>4, SeqEqual
<1> QED
  BY <1>3, <1>4, <1>5, <1>6 DEF Fifo!Release, Fifo!Holds

(* spin_lock and spin_unlock implement FifoLock but for its fairness: the  *)
(* threads are granted the lock in the order of their xaddw, however the   *)
(* bytes wrap.                                                             *)
THEOREM FirstComeFirstServed == SpinSpec => Fifo!Init /\ [][Fifo!Next]_(Fifo!vars)
<1>1. SpinInit => Fifo!Init /\ NoGap
  <2> SUFFICES ASSUME SpinInit PROVE Fifo!Init /\ NoGap
    OBVIOUS
  <2>1. Engaged = {} /\ Cardinality(Engaged) = 0
    BY FS_EmptySet DEF SpinInit, Engaged
  <2>2. Queue = <<>> /\ NoGap
    BY <2>1 DEF Queue, NoGap
  <2>3. Granted = FALSE
    BY DEF SpinInit, Granted
  <2> QED
    BY <2>2, <2>3 DEF Fifo!Init
<1>2. SpinInv /\ NoGap /\ [SpinNext]_spinVars => NoGap'
  BY NoGapStep
<1>3. SpinInv /\ NoGap /\ SpinInv' /\ NoGap' /\ [SpinNext]_spinVars => [Fifo!Next]_(Fifo!vars)
  <2> SUFFICES ASSUME SpinInv, NoGap, SpinInv', NoGap', [SpinNext]_spinVars
               PROVE  [Fifo!Next]_(Fifo!vars)
    OBVIOUS
  <2>1. ASSUME NEW t \in Callers, TakeTicket(t) \/ Spin(t) \/ Unlock(t)
        PROVE  Fifo!Next
    BY <2>1, TakeTicketRefines, SpinRefines, UnlockRefines DEF Fifo!Next
  <2>2. CASE UNCHANGED spinVars
    <3>1. Engaged' = Engaged /\ \A u : Behind(u)' = Behind(u)
      BY <2>2 DEF spinVars, Engaged, Behind, Dist
    <3>2. \A u : Before(u)' = Before(u)
      BY <3>1 DEF Before
    <3>3. Queue' = Queue /\ Granted' = Granted
      BY <2>2, <3>1, <3>2 DEF spinVars, Queue, Granted
    <3> QED
      BY <3>3 DEF Fifo!vars
  <2> QED
    BY <2>1, <2>2 DEF SpinNext
<1> QED
  BY <1>1, <1>2, <1>3, SpinInvariance, PTL DEF SpinSpec

-----------------------------------------------------------------------------
(* The reader-writer lock.                                                *)

LEMMA BiasedFinite ==
    IsFiniteSet(Biased) /\ Cardinality(Biased) \in Nat
<1>1. Biased \subseteq Threads
  BY DEF Biased
<1> QED
  BY <1>1, ThreadsFinite, FS_Subset, FS_CardinalityType

(* A thread that counts itself in or out moves the number of biases by one. *)
LEMMA CountIn ==
    ASSUME CountExact, NEW t \in Threads, t \notin Biased,
           Biased' = Biased \cup {t}, rd' = rd + 1
    PROVE  CountExact'
BY BiasedFinite, FS_AddElement DEF CountExact

LEMMA CountOut ==
    ASSUME CountExact, NEW t \in Threads, t \in Biased,
           Biased' = Biased \ {t}, rd' = rd - 1
    PROVE  CountExact' /\ rd' \in Nat
<1>1. Cardinality(Biased \ {t}) = Cardinality(Biased) - 1
  BY BiasedFinite, FS_RemoveElement
<1>2. Cardinality(Biased \ {t}) \in Nat
  BY BiasedFinite, FS_Subset, FS_CardinalityType
<1> QED
  BY <1>1, <1>2 DEF CountExact

(* With no bias counted nobody reads. *)
LEMMA NoBiasNoReader ==
    ASSUME CountExact, rd = 0
    PROVE  Biased = {} /\ Readers = {}
<1>1. Biased = {}
  BY BiasedFinite, FS_EmptySet DEF CountExact
<1> QED
  BY <1>1 DEF Biased, Readers

LEMMA InitCounted == Init => Counted
<1> SUFFICES ASSUME Init PROVE Counted
  OBVIOUS
<1>1. TypeOK
  BY EmptySeq DEF Init, TypeOK, Slock!Init
<1>2. Biased = {} /\ Readers = {} /\ Writers = {}
  BY DEF Init, Biased, Readers, Writers
<1>3. CountExact
  BY <1>2, FS_EmptySet DEF Init, CountExact
<1>4. ByteExact /\ Exclusion
  BY <1>2 DEF Init, ByteExact, Exclusion
<1> QED
  BY <1>1, <1>3, <1>4 DEF Counted

(* The wait queue stays a sequence of threads. *)
LEMMA QueueType ==
    ASSUME TypeOK, NEW t \in Threads,
           Slock!Request(t) \/ Slock!Acquire(t) \/ Slock!Release(t)
    PROVE  queue' \in Seq(Threads) /\ granted' \in BOOLEAN
<1>1. CASE Slock!Request(t)
  BY <1>1 DEF TypeOK, Slock!Request
<1>2. CASE Slock!Acquire(t)
  BY <1>2 DEF TypeOK, Slock!Acquire
<1>3. CASE Slock!Release(t)
  BY <1>3, HeadTailProperties DEF TypeOK, Slock!Release, Slock!Holds
<1> QED
  BY <1>1, <1>2, <1>3

-----------------------------------------------------------------------------
(* Steps in the wait queue: cnts is untouched and nobody starts or stops   *)
(* reading, writing or being counted.                                      *)
LEMMA QueueStep ==
    ASSUME Counted, NEW t \in Threads,
           ReadQueue(t) \/ WriteQueue(t) \/ ReadLeave(t) \/ WriteLeave(t)
    PROVE  Counted'
<1>0. TypeOK /\ CountExact /\ ByteExact /\ Exclusion
  BY DEF Counted
<1>1. /\ UNCHANGED <<wr, rd>>
      /\ Slock!Request(t) \/ Slock!Acquire(t) \/ Slock!Release(t)
  BY DEF ReadQueue, WriteQueue, ReadLeave, WriteLeave, JoinQueue, HeadOfQueue,
         LeaveQueue, cnts
<1>2. pc' \in [Threads -> {"idle"} \cup ReaderPoints \cup WriterPoints]
  BY <1>0 DEF ReadQueue, WriteQueue, ReadLeave, WriteLeave, JoinQueue,
         HeadOfQueue, LeaveQueue, Goto, TypeOK, ReaderPoints, WriterPoints
<1>3. Biased' = Biased /\ Readers' = Readers /\ Writers' = Writers
  BY <1>0 DEF ReadQueue, WriteQueue, ReadLeave, WriteLeave, JoinQueue,
         HeadOfQueue, LeaveQueue, Goto, TypeOK, Biased, Readers, Writers
<1>4. TypeOK'
  BY <1>0, <1>1, <1>2, QueueType DEF TypeOK
<1>5. CountExact' /\ ByteExact' /\ Exclusion'
  BY <1>0, <1>1, <1>3 DEF CountExact, ByteExact, Exclusion
<1> QED
  BY <1>4, <1>5 DEF Counted

(* Every other step leaves slock alone. *)
LEMMA TypeStep ==
    ASSUME TypeOK, NEW t \in Threads, NEW from, UNCHANGED slock,
           NEW to \in {"idle"} \cup ReaderPoints \cup WriterPoints,
           Goto(t, from, to), wr' \in {"free", "waiting", "locked"}, rd' \in Nat
    PROVE  TypeOK'
BY DEF TypeOK, Goto, slock

LEMMA ReaderStep ==
    ASSUME Counted, NEW t \in Threads,
           \/ ReadLock(t) \/ ReadBackOff(t) \/ ReadSpin(t) \/ ReadAdd(t)
           \/ ReadUntil(t) \/ ReadUnlock(t)
    PROVE  Counted'
<1>0. /\ TypeOK /\ CountExact /\ ByteExact /\ Exclusion
      /\ wr' = wr /\ UNCHANGED slock /\ rd \in Nat
      /\ pc \in [Threads -> {"idle"} \cup ReaderPoints \cup WriterPoints]
  BY DEF Counted, ReadLock, ReadBackOff, ReadSpin, ReadAdd, ReadUntil, ReadUnlock,
         cnts, TypeOK
<1>1. Writers' = Writers
  BY <1>0 DEF ReadLock, ReadBackOff, ReadSpin, ReadAdd, ReadUntil, ReadUnlock,
         Goto, Writers
<1>2. ByteExact'
  BY <1>0, <1>1 DEF ByteExact
<1>3. CASE ReadLock(t)
  <2>1. /\ t \notin Biased /\ Biased' = Biased \cup {t}
        /\ rd' = rd + 1
    BY <1>0, <1>3 DEF ReadLock, Goto, Biased
  <2>2. Readers' \subseteq Readers \cup {u \in {t} : wr = "free"}
    BY <1>0, <1>3 DEF ReadLock, Goto, Readers
  <2>3. TypeOK'
    BY <1>0, <1>3 DEF ReadLock, Goto, TypeOK, ReaderPoints, WriterPoints, slock
  <2> QED
    BY <1>0, <1>1, <1>2, <2>1, <2>2, <2>3, CountIn DEF Counted, Exclusion, ByteExact
<1>4. CASE ReadBackOff(t)
  <2>1. /\ t \in Biased /\ Biased' = Biased \ {t}
        /\ rd' = rd - 1 /\ Readers' = Readers
    BY <1>0, <1>4 DEF ReadBackOff, Goto, Biased, Readers
  <2>2. CountExact' /\ rd' \in Nat
    BY <1>0, <2>1, CountOut
  <2>3. TypeOK'
    BY <1>0, <1>4, <2>2 DEF ReadBackOff, Goto, TypeOK, ReaderPoints, slock
  <2> QED
    BY <1>0, <1>1, <1>2, <2>1, <2>2, <2>3 DEF Counted, Exclusion
<1>5. CASE ReadSpin(t)
  <2>1. Biased' = Biased /\ Readers' = Readers /\ rd' = rd
    BY <1>0, <1>5 DEF ReadSpin, Goto, Biased, Readers, cnts
  <2>2. TypeOK'
    BY <1>0, <1>5, <2>1 DEF ReadSpin, Goto, TypeOK, ReaderPoints, slock
  <2> QED
    BY <1>0, <1>1, <1>2, <2>1, <2>2 DEF Counted, Exclusion, CountExact
<1>6. CASE ReadAdd(t)
  <2>1. /\ t \notin Biased /\ Biased' = Biased \cup {t}
        /\ rd' = rd + 1
    BY <1>0, <1>6 DEF ReadAdd, Goto, Biased
  <2>2. Readers' \subseteq Readers \cup {u \in {t} : wr # "locked"}
    BY <1>0, <1>6 DEF ReadAdd, Goto, Readers
  <2>3. TypeOK'
    BY <1>0, <1>6 DEF ReadAdd, Goto, TypeOK, ReaderPoints, slock
  <2> QED
    BY <1>0, <1>1, <1>2, <2>1, <2>2, <2>3, CountIn DEF Counted, Exclusion, ByteExact
<1>7. CASE ReadUntil(t)
  <2>1. Biased' = Biased /\ rd' = rd /\ wr # "locked"
    BY <1>0, <1>7 DEF ReadUntil, Goto, Biased, cnts
  <2>2. Writers' = {}
    BY <1>0, <1>1, <2>1 DEF ByteExact
  <2>3. TypeOK'
    BY <1>0, <1>7, <2>1 DEF ReadUntil, Goto, TypeOK, ReaderPoints, slock
  <2> QED
    BY <1>0, <1>2, <2>1, <2>2, <2>3 DEF Counted, Exclusion, CountExact
<1>8. CASE ReadUnlock(t)
  <2>1. /\ t \in Biased /\ Biased' = Biased \ {t}
        /\ rd' = rd - 1 /\ Readers' \subseteq Readers
    BY <1>0, <1>8 DEF ReadUnlock, Goto, Biased, Readers
  <2>2. CountExact' /\ rd' \in Nat
    BY <1>0, <2>1, CountOut
  <2>3. TypeOK'
    BY <1>0, <1>8, <2>2 DEF ReadUnlock, Goto, TypeOK, slock
  <2> QED
    BY <1>0, <1>1, <1>2, <2>1, <2>2, <2>3 DEF Counted, Exclusion
<1> QED
  BY <1>3, <1>4, <1>5, <1>6, <1>7, <1>8

LEMMA WriterStep ==
    ASSUME Counted, NEW t \in Threads,
           \/ WriteLock(t) \/ WriteTry(t) \/ WriteFlag(t) \/ WriteDrain(t)
           \/ WriteUnlock(t)
    PROVE  Counted'
<1>0. /\ TypeOK /\ CountExact /\ ByteExact /\ Exclusion
      /\ rd' = rd /\ UNCHANGED slock
      /\ pc \in [Threads -> {"idle"} \cup ReaderPoints \cup WriterPoints]
  BY DEF Counted, WriteLock, WriteTry, WriteFlag, WriteDrain, WriteUnlock, TypeOK
<1>1. Biased' = Biased /\ Readers' = Readers
  BY <1>0 DEF WriteLock, WriteTry, WriteFlag, WriteDrain, WriteUnlock, Goto,
         Biased, Readers
<1>2. CountExact'
  BY <1>0, <1>1 DEF CountExact
<1>3. TypeOK'
  BY <1>0 DEF WriteLock, WriteTry, WriteFlag, WriteDrain, WriteUnlock, Goto,
         TypeOK, WriterPoints, slock
<1>4. ASSUME Writers' = Writers \cup {t}, wr # "locked", rd = 0, wr' = "locked"
      PROVE  Counted'
  <2>1. Readers' = {}
    BY <1>0, <1>1, <1>4, NoBiasNoReader
  <2>2. Writers' = {t}
    BY <1>0, <1>4 DEF ByteExact
  <2> QED
    BY <1>2, <1>3, <1>4, <2>1, <2>2 DEF Counted, ByteExact, Exclusion
<1>5. ASSUME Writers' = Writers, wr' = "locked" <=> wr = "locked"
      PROVE  Counted'
  BY <1>0, <1>1, <1>2, <1>3, <1>5 DEF Counted, ByteExact, Exclusion
<1>6. CASE WriteLock(t)
  <2>1. CASE wr = "free" /\ rd = 0
    BY <1>0, <1>4, <1>6, <2>1 DEF WriteLock, Goto, Writers
  <2>2. CASE ~(wr = "free" /\ rd = 0)
    BY <1>0, <1>5, <1>6, <2>2 DEF WriteLock, Goto, Writers
  <2> QED
    BY <2>1, <2>2
<1>7. CASE WriteTry(t)
  <2>1. CASE wr = "free" /\ rd = 0
    BY <1>0, <1>4, <1>7, <2>1 DEF WriteTry, Goto, Writers
  <2>2. CASE ~(wr = "free" /\ rd = 0)
    BY <1>0, <1>5, <1>7, <2>2 DEF WriteTry, Goto, Writers
  <2> QED
    BY <2>1, <2>2
<1>8. CASE WriteFlag(t)
  BY <1>0, <1>5, <1>8 DEF WriteFlag, Goto, Writers
<1>9. CASE WriteDrain(t)
  BY <1>0, <1>4, <1>9 DEF WriteDrain, Goto, Writers
<1>10. CASE WriteUnlock(t)
  <2>1. t \in Writers /\ Writers' = Writers \ {t} /\ wr' = "free"
    BY <1>0, <1>10 DEF WriteUnlock, Goto, Writers
  <2>2. Writers' = {}
    BY <1>0, <2>1 DEF Exclusion
  <2> QED
    BY <1>2, <1>3, <2>1, <2>2 DEF Counted, ByteExact, Exclusion
<1> QED
  BY <1>6, <1>7, <1>8, <1>9, <1>10

-----------------------------------------------------------------------------
LEMMA InitIInv == Init => IInv
<1> SUFFICES ASSUME Init PROVE IInv
  OBVIOUS
<1>1. SlockOwned /\ FlagOwned
  BY DEF Init, SlockOwned, FlagOwned, Heads
<1> QED
  BY <1>1, InitCounted DEF IInv

LEMMA StepCounted == Counted /\ [Next]_vars => Counted'
<1> SUFFICES ASSUME Counted, [Next]_vars PROVE Counted'
  OBVIOUS
<1>1. ASSUME NEW t \in Threads,
             ReadLock(t) \/ WriteLock(t) \/ WriteFlag(t) \/ Continue(t)
      PROVE  Counted'
  BY <1>1, QueueStep, ReaderStep, WriterStep DEF Continue
<1>2. CASE UNCHANGED vars
  BY <1>2 DEF vars, Counted, TypeOK, CountExact, ByteExact, Exclusion, Biased,
              Readers, Writers
<1> QED
  BY <1>1, <1>2 DEF Next

(* Nobody is at the head of the queue unless slock is granted to it. *)
LEMMA OneHead ==
    ASSUME SlockOwned, NEW t \in Heads, NEW u \in Heads
    PROVE  t = u /\ granted /\ queue # <<>> /\ Head(queue) = t
BY DEF SlockOwned, Slock!Holds

(* A step outside the queue keeps the owner of slock: it enters the slow   *)
(* path's critical section only from another point of it.                  *)
LEMMA InsideStep ==
    ASSUME TypeOK, SlockOwned, Heads' \subseteq Heads, UNCHANGED slock
    PROVE  SlockOwned'
BY DEF SlockOwned, Slock!Holds, slock

LEMMA JoinOwned ==
    ASSUME TypeOK, SlockOwned, NEW t \in Threads, NEW ask, NEW wait, NEW in,
           JoinQueue(t, ask, wait, in), wait \in {"r_queue", "w_queue"},
           in \in {"r_spin", "w_try"}
    PROVE  SlockOwned'
<1>0. /\ pc' = [pc EXCEPT ![t] = IF queue = <<>> THEN in ELSE wait]
      /\ queue \in Seq(Threads) /\ queue' = Append(queue, t)
      /\ granted' = (granted \/ queue = <<>>)
      /\ pc \in [Threads -> {"idle"} \cup ReaderPoints \cup WriterPoints]
  BY DEF JoinQueue, Goto, Slock!Request, TypeOK
<1>1. CASE queue = <<>>
  <2>1. Heads = {}
    BY <1>1, OneHead
  <2>2. Heads' \subseteq {t}
    BY <1>0, <1>1, <2>1 DEF Heads
  <2>3. granted' /\ Head(queue') = t
    BY <1>0, <1>1, HeadTailAppend
  <2>4. queue' # <<>>
    BY <1>0, AppendProperties
  <2> QED
    BY <2>2, <2>3, <2>4 DEF SlockOwned, Slock!Holds
<1>2. CASE queue # <<>>
  <2>1. Heads' \subseteq Heads
    BY <1>0, <1>2 DEF Heads
  <2>2. queue' # <<>> /\ Head(queue') = Head(queue) /\ granted' = granted
    BY <1>0, <1>2, AppendProperties, HeadTailAppend DEF TypeOK
  <2> QED
    BY <2>1, <2>2 DEF SlockOwned, Slock!Holds
<1> QED
  BY <1>1, <1>2

LEMMA HeadOwned ==
    ASSUME TypeOK, SlockOwned, NEW t \in Threads, NEW wait, NEW in,
           HeadOfQueue(t, wait, in)
    PROVE  SlockOwned'
<1>1. Heads = {}
  BY OneHead DEF HeadOfQueue, Slock!Acquire
<1>2. Heads' \subseteq {t}
  BY <1>1 DEF HeadOfQueue, Goto, TypeOK, Heads
<1> QED
  BY <1>2 DEF SlockOwned, Slock!Holds, HeadOfQueue, Slock!Acquire

LEMMA LeaveOwned ==
    ASSUME TypeOK, SlockOwned, NEW t \in Threads, NEW from, NEW to,
           LeaveQueue(t, from, to), from \in {"r_leave", "w_leave"},
           to \in {"reading", "writing"}
    PROVE  SlockOwned'
<1>1. Heads \subseteq {t}
  BY OneHead DEF LeaveQueue, Goto, Heads
<1>2. Heads' = {}
  BY <1>1 DEF LeaveQueue, Goto, TypeOK, Heads
<1> QED
  BY <1>2 DEF SlockOwned

LEMMA StepOwned ==
    ASSUME TypeOK, SlockOwned, [Next]_vars
    PROVE  SlockOwned'
<1>1. ASSUME NEW t \in Threads,
             ReadQueue(t) \/ WriteQueue(t) \/ ReadLeave(t) \/ WriteLeave(t)
      PROVE  SlockOwned'
  BY <1>1, JoinOwned, HeadOwned, LeaveOwned
     DEF ReadQueue, WriteQueue, ReadLeave, WriteLeave
<1>2. ASSUME NEW t \in Threads,
             \/ ReadLock(t) \/ ReadBackOff(t) \/ ReadSpin(t) \/ ReadAdd(t)
             \/ ReadUntil(t) \/ ReadUnlock(t)
      PROVE  SlockOwned'
  <2>1. Heads' \subseteq Heads /\ UNCHANGED slock
    BY <1>2 DEF ReadLock, ReadBackOff, ReadSpin, ReadAdd, ReadUntil, ReadUnlock,
                Goto, Heads, TypeOK
  <2> QED
    BY <2>1, InsideStep
<1>3. ASSUME NEW t \in Threads,
             \/ WriteLock(t) \/ WriteTry(t) \/ WriteFlag(t) \/ WriteDrain(t)
             \/ WriteUnlock(t)
      PROVE  SlockOwned'
  <2>1. Heads' \subseteq Heads /\ UNCHANGED slock
    BY <1>3 DEF WriteLock, WriteTry, WriteFlag, WriteDrain, WriteUnlock, Goto,
                Heads, TypeOK
  <2> QED
    BY <2>1, InsideStep
<1>4. CASE UNCHANGED vars
  BY <1>4 DEF vars, SlockOwned, Heads, Slock!Holds
<1> QED
  BY <1>1, <1>2, <1>3, <1>4 DEF Next, Continue

(* The writer that raised the flag stays in w_drain until it takes it down. *)
LEMMA StepFlag ==
    ASSUME TypeOK, FlagOwned, [Next]_vars
    PROVE  FlagOwned'
<1>1. ASSUME NEW t \in Threads,
             \/ ReadLock(t) \/ ReadBackOff(t) \/ ReadQueue(t) \/ ReadSpin(t)
             \/ ReadAdd(t) \/ ReadUntil(t) \/ ReadLeave(t) \/ ReadUnlock(t)
      PROVE  FlagOwned'
  <2>1. wr' = wr
    BY <1>1 DEF ReadLock, ReadBackOff, ReadQueue, ReadSpin, ReadAdd, ReadUntil,
                ReadLeave, ReadUnlock, JoinQueue, HeadOfQueue, LeaveQueue, cnts
  <2>2. pc[t] # "w_drain" /\ \A u \in Threads \ {t} : pc'[u] = pc[u]
    BY <1>1 DEF ReadLock, ReadBackOff, ReadQueue, ReadSpin, ReadAdd, ReadUntil,
                ReadLeave, ReadUnlock, JoinQueue, HeadOfQueue, LeaveQueue, Goto,
                TypeOK
  <2> QED
    BY <2>1, <2>2 DEF FlagOwned
<1>2. ASSUME NEW t \in Threads,
             \/ WriteLock(t) \/ WriteQueue(t) \/ WriteTry(t) \/ WriteLeave(t)
      PROVE  FlagOwned'
  <2>1. wr' = "waiting" => wr = "waiting"
    BY <1>2 DEF WriteLock, WriteQueue, WriteTry, WriteLeave, JoinQueue,
                HeadOfQueue, LeaveQueue, cnts
  <2>2. pc[t] # "w_drain" /\ \A u \in Threads \ {t} : pc'[u] = pc[u]
    BY <1>2 DEF WriteLock, WriteQueue, WriteTry, WriteLeave, JoinQueue,
                HeadOfQueue, LeaveQueue, Goto, TypeOK
  <2> QED
    BY <2>1, <2>2 DEF FlagOwned
<1>3. ASSUME NEW t \in Threads, WriteFlag(t)
      PROVE  FlagOwned'
  BY <1>3 DEF WriteFlag, Goto, TypeOK, FlagOwned
<1>4. ASSUME NEW t \in Threads, WriteDrain(t) \/ WriteUnlock(t)
      PROVE  FlagOwned'
  BY <1>4 DEF WriteDrain, WriteUnlock, FlagOwned
<1>5. CASE UNCHANGED vars
  BY <1>5 DEF vars, FlagOwned
<1> QED
  BY <1>1, <1>2, <1>3, <1>4, <1>5 DEF Next, Continue

LEMMA StepIInv == IInv /\ [Next]_vars => IInv'
BY StepCounted, StepOwned, StepFlag DEF IInv, Counted

-----------------------------------------------------------------------------
(* cnts counts the biases and shows the writer in every reachable state. *)
THEOREM Invariance == Spec => []IInv
<1> QED
  BY InitIInv, StepIInv, PTL DEF Spec

(* A write_lock that returned excludes every reader and other writer until *)
(* its write_unlock.                                                       *)
THEOREM Safety == Spec => []Exclusion
<1>1. IInv => Exclusion
  BY DEF IInv, Counted
<1> QED
  BY <1>1, Invariance, PTL

(* The critical section of the slow paths, between spin_lock and           *)
(* spin_unlock of slock, has one thread in it, the owner of slock.         *)
THEOREM Owner == Spec => []SlockOwned
<1>1. IInv => SlockOwned
  BY DEF IInv
<1> QED
  BY <1>1, Invariance, PTL

(* A reader gets in past a raised flag neither through the fast path, which *)
(* sees the flag, nor through the slow path, whose place in slock the       *)
(* writer holds.                                                            *)
THEOREM Preference == Spec => WriterPreference
<1>1. ASSUME IInv, [Next]_vars, wr = "waiting", wr' = "waiting"
      PROVE  Readers' \subseteq Readers
  <2>0. /\ TypeOK /\ SlockOwned
        /\ pc \in [Threads -> {"idle"} \cup ReaderPoints \cup WriterPoints]
    BY <1>1 DEF IInv, Counted, TypeOK
  <2>1. PICK w \in Threads : pc[w] = "w_drain"
    BY <1>1 DEF IInv, FlagOwned
  <2>2. \A t \in Threads : pc[t] \notin {"r_add", "r_until"}
    BY <2>0, <2>1, OneHead DEF Heads
  <2>3. ASSUME NEW t \in Threads,
               \/ ReadLock(t) \/ ReadBackOff(t) \/ ReadQueue(t) \/ ReadSpin(t)
               \/ ReadAdd(t) \/ ReadUntil(t) \/ ReadLeave(t) \/ ReadUnlock(t)
        PROVE  Readers' \subseteq Readers
    BY <1>1, <2>0, <2>2, <2>3
       DEF ReadLock, ReadBackOff, ReadQueue, ReadSpin, ReadAdd, ReadUntil,
           ReadLeave, ReadUnlock, JoinQueue, HeadOfQueue, LeaveQueue, Goto, Readers
  <2>4. ASSUME NEW t \in Threads,
               \/ WriteLock(t) \/ WriteQueue(t) \/ WriteTry(t) \/ WriteFlag(t)
               \/ WriteDrain(t) \/ WriteLeave(t) \/ WriteUnlock(t)
        PROVE  Readers' \subseteq Readers
    BY <2>0, <2>4
       DEF WriteLock, WriteQueue, WriteTry, WriteFlag, WriteDrain, WriteLeave,
           WriteUnlock, JoinQueue, HeadOfQueue, LeaveQueue, Goto, Readers
  <2>5. CASE UNCHANGED vars
    BY <2>5 DEF vars, Readers
  <2> QED
    BY <1>1, <2>3, <2>4, <2>5 DEF Next, Continue
<1>2. IInv /\ [Next]_vars
        => [wr = "waiting" /\ wr' = "waiting" => Readers' \subseteq Readers]_vars
  BY <1>1
<1> QED
  BY <1>2, Invariance, PTL DEF Spec, WriterPreference
=============================================================================
