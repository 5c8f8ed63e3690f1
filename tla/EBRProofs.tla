----------------------------- MODULE EBRProofs -----------------------------
(***************************************************************************)
(* What epoch-based reclamation guarantees for any number of threads and   *)
(* items.                                                                  *)
(***************************************************************************)
EXTENDS EBR, TLAPS

(* The three epochs form a cycle. *)
LEMMA Cycle ==
    \A e \in Epochs : /\ Succ(e) \in Epochs
                      /\ Succ(e) # e
                      /\ Succ(Succ(e)) # e
                      /\ Succ(Succ(e)) # Succ(e)
                      /\ (e + 1) % 3 = Succ(e)
                      /\ (e + 2) % 3 = Succ(Succ(e))
                      /\ (e + ACTIVE) - ACTIVE = e
BY DEF Epochs, Succ, ACTIVE

LEMMA ThreadFacts ==
    /\ NumThreads \in Nat
    /\ None \notin Threads
    /\ Threads \subseteq Nat
    /\ 0 \in Threads /\ 0 \in Items
BY EBRAssumption DEF Threads, Items, None

LEMMA InitIInv == Init => IInv
<1> SUFFICES ASSUME Init PROVE IInv
  OBVIOUS
<1>1. InCS = {} /\ Putting = {} /\ Fresh = {}
  BY DEF Init, InCS, Putting, Fresh
<1>2. TypeOK
  BY ThreadFacts DEF Init, TypeOK, Epochs, Points, Words
<1>3. Published /\ MutexOwned /\ Collecting /\ GlobalNear
  BY <1>1, ThreadFacts DEF Init, Published, MutexOwned, Collecting, GlobalNear
<1>4. Conservation
  BY <1>1 DEF Init, Conservation, Limbo
<1>5. Filed /\ Awaited /\ FreshProtected
  BY <1>1 DEF Init, Filed, Awaited, FreshProtected
<1> QED
  BY <1>2, <1>3, <1>4, <1>5 DEF IInv

-----------------------------------------------------------------------------
LEMMA TypeStep ==
    ASSUME IInv, NEW t \in Threads, Step(t)
    PROVE  TypeOK'
<1> USE DEF Goto, Points, ebr, nodes, items, hist
<1>0. TypeOK
  BY DEF IInv
<1>1. CASE Register(t) \/ Unregister(t)
  BY <1>0, <1>1 DEF Register, Unregister, TypeOK
<1>2. CASE EnterRead(t)
  BY <1>0, <1>2 DEF EnterRead, TypeOK
<1>3. CASE EnterPublish(t)
  <2>1. epoch[t] + ACTIVE \in Words
    BY <1>0 DEF TypeOK, Words, Epochs, ACTIVE
  <2> QED
    BY <1>0, <1>3, <2>1, ThreadFacts DEF EnterPublish, TypeOK
<1>4. CASE Exit(t)
  <2>1. 0 \in Words
    BY DEF Words
  <2> QED
    BY <1>0, <1>4, <2>1 DEF Exit, TypeOK
<1>5. CASE Visable(t) \/ Access(t) \/ Delete(t)
  BY <1>0, <1>5 DEF Visable, Access, Delete, Onward, TypeOK
<1>6. CASE Put(t)
  <2>1. local_epoch[t] - ACTIVE \in Epochs
    <3>1. t \in InCS
      BY <1>6 DEF Put, InCS
    <3> QED
      BY <1>0, <3>1, Cycle DEF IInv, Published, TypeOK
  <2>2. InCS \subseteq Threads
    BY DEF InCS
  <2> QED
    BY <1>0, <1>6, <2>1, <2>2 DEF Put, TypeOK
<1>7. CASE GcSkip(t) \/ GcStart(t) \/ GcScan(t) \/ GcAdvance(t)
  <2>1. /\ gc' \in [epoch : Epochs, i : Nat, victim : Epochs]
        /\ global_epoch' \in Epochs
        /\ lock' \in Threads \cup {None}
    <3>1. CASE GcSkip(t)
      BY <1>0, <3>1 DEF GcSkip, TypeOK
    <3>2. CASE GcStart(t)
      BY <1>0, <3>2 DEF GcStart, TypeOK
    <3>3. CASE GcScan(t)
      BY <1>0, <3>3, Cycle DEF GcScan, TypeOK
    <3>4. CASE GcAdvance(t)
      <4>1. gc.epoch \in Epochs
        BY <1>0 DEF TypeOK
      <4> QED
        BY <1>0, <3>4, <4>1, Cycle DEF GcAdvance, TypeOK
    <3> QED
      BY <1>7, <3>1, <3>2, <3>3, <3>4
  <2> QED
    BY <1>0, <1>7, <2>1 DEF GcSkip, GcStart, GcScan, GcAdvance, TypeOK
<1>8. CASE GcFree(t)
  BY <1>0, <1>8 DEF GcFree, TypeOK
<1> QED
  BY <1>1, <1>2, <1>3, <1>4, <1>5, <1>6, <1>7, <1>8 DEF Step

(* Who is inside, and who owns the mutex. *)
LEMMA ControlStep ==
    ASSUME IInv, NEW t \in Threads, Step(t)
    PROVE  Published' /\ MutexOwned'
<1> USE DEF Goto, ebr, nodes, items, hist, Published, MutexOwned, InCS
<1>0. TypeOK /\ Published /\ MutexOwned /\ None \notin Threads
  BY ThreadFacts DEF IInv
<1>1. CASE Register(t) \/ Unregister(t)
  BY <1>0, <1>1 DEF Register, Unregister, TypeOK
<1>2. CASE EnterRead(t)
  BY <1>0, <1>2 DEF EnterRead, TypeOK
<1>3. CASE EnterPublish(t)
  BY <1>0, <1>3 DEF EnterPublish, TypeOK
<1>4. CASE Exit(t)
  BY <1>0, <1>4 DEF Exit, TypeOK
<1>5. CASE Visable(t) \/ Access(t) \/ Delete(t)
  BY <1>0, <1>5 DEF Visable, Access, Delete, Onward, TypeOK
<1>6. CASE Put(t)
  BY <1>0, <1>6 DEF Put, TypeOK
<1>7. CASE GcSkip(t)
  BY <1>0, <1>7 DEF GcSkip, TypeOK
<1>8. CASE GcStart(t)
  BY <1>0, <1>8 DEF GcStart, TypeOK
<1>9. CASE GcScan(t)
  BY <1>0, <1>9 DEF GcScan, TypeOK
<1>10. CASE GcAdvance(t)
  BY <1>0, <1>10 DEF GcAdvance, TypeOK
<1>11. CASE GcFree(t)
  BY <1>0, <1>11 DEF GcFree, TypeOK
<1> QED
  BY <1>1, <1>2, <1>3, <1>4, <1>5, <1>6, <1>7, <1>8, <1>9, <1>10, <1>11 DEF Step

(* The readers that are inside with the epoch that was global when they    *)
(* published it: only EnterPublish adds one.                               *)
LEMMA FreshStep ==
    ASSUME IInv, NEW t \in Threads, Step(t)
    PROVE  /\ ~EnterPublish(t) => Fresh' \subseteq Fresh
           /\ EnterPublish(t) => /\ Fresh' \subseteq Fresh \cup {t}
                                 /\ t \in Fresh' => epoch[t] = global_epoch
           /\ \A u \in Fresh' : epoch'[u] = epoch[u]
           /\ Fresh \subseteq Threads /\ Fresh' \subseteq Threads
<1> USE DEF Goto, hist, InCS, Fresh
<1>0. TypeOK
  BY DEF IInv
<1>1. CASE Register(t) \/ Unregister(t) \/ EnterRead(t) \/ Exit(t)
  BY <1>0, <1>1 DEF Register, Unregister, EnterRead, Exit, TypeOK, EnterPublish
<1>2. CASE EnterPublish(t)
  BY <1>0, <1>2 DEF EnterPublish, TypeOK
<1>3. CASE Visable(t) \/ Access(t) \/ Delete(t)
  BY <1>0, <1>3 DEF Visable, Access, Delete, Onward, TypeOK, EnterPublish
<1>4. CASE Put(t) \/ GcSkip(t) \/ GcStart(t)
  BY <1>0, <1>4 DEF Put, GcSkip, GcStart, TypeOK, EnterPublish
<1>5. CASE GcScan(t) \/ GcAdvance(t) \/ GcFree(t)
  BY <1>0, <1>5 DEF GcScan, GcAdvance, GcFree, TypeOK, EnterPublish
<1> QED
  BY <1>1, <1>2, <1>3, <1>4, <1>5 DEF Step

LEMMA CollectingStep ==
    ASSUME IInv, NEW t \in Threads, Step(t)
    PROVE  Collecting' /\ GlobalNear'
<1> DEFINE Collects(u) == pc[u] \in {"scan", "advance", "free"}
<1>0. /\ TypeOK /\ Published /\ MutexOwned /\ Collecting /\ GlobalNear
      /\ global_epoch \in Epochs /\ gc.epoch \in Epochs
      /\ None \notin Threads /\ 0 \in Threads /\ Threads \subseteq Nat
  BY ThreadFacts DEF IInv, TypeOK
<1>1. /\ \A u \in Fresh' : epoch'[u] = epoch[u]
      /\ Fresh \subseteq Threads /\ Fresh' \subseteq Threads
  BY FreshStep
\* Steps of a thread that is not collecting.
<1>2. ASSUME UNCHANGED <<global_epoch, gc>>,
             \A u \in Threads : Collects(u)' => pc'[u] = pc[u],
             \A u \in Fresh' : u \in Fresh \/ epoch[u] = global_epoch
      PROVE  Collecting' /\ GlobalNear'
  BY <1>0, <1>1, <1>2 DEF Collecting, GlobalNear
<1>3. CASE EnterPublish(t)
  <2>1. /\ UNCHANGED <<global_epoch, gc>>
        /\ \A u \in Threads : Collects(u)' => pc'[u] = pc[u]
    BY <1>0, <1>3 DEF EnterPublish, Goto, TypeOK, ebr
  <2> QED
    BY <1>2, <1>3, <2>1, FreshStep
<1>4. CASE \/ Register(t) \/ Unregister(t) \/ EnterRead(t) \/ Exit(t)
           \/ Visable(t) \/ Access(t) \/ Delete(t) \/ Put(t) \/ GcSkip(t)
  <2>1. /\ UNCHANGED <<global_epoch, gc>>
        /\ \A u \in Threads : Collects(u)' => pc'[u] = pc[u]
        /\ ~EnterPublish(t)
    BY <1>0, <1>4 DEF Register, Unregister, EnterRead, Exit, Visable, Access,
           Delete, Onward, Put, GcSkip, EnterPublish, Goto, TypeOK, ebr
  <2> QED
    BY <1>2, <2>1, FreshStep
\* Steps of the collector: by MutexOwned there is no other one.
<1>5. ASSUME GcStart(t) \/ GcScan(t) \/ GcAdvance(t) \/ GcFree(t)
      PROVE  /\ \A u \in Threads : Collects(u)' => u = t
             /\ Fresh' \subseteq Fresh
             /\ pc' = [pc EXCEPT ![t] = pc'[t]]
  <2>1. ~EnterPublish(t)
    BY <1>5 DEF GcStart, GcScan, GcAdvance, GcFree, EnterPublish, Goto
  <2>2. \A u \in Threads : Collects(u) => u = t
    BY <1>0, <1>5 DEF GcStart, GcScan, GcAdvance, GcFree, Goto, MutexOwned
  <2> QED
    BY <1>0, <1>5, <2>1, <2>2, FreshStep
       DEF GcStart, GcScan, GcAdvance, GcFree, Goto, TypeOK
<1>6. CASE GcStart(t)
  <2>1. /\ gc'.epoch = global_epoch /\ gc'.i = 0
        /\ global_epoch' = global_epoch /\ pc'[t] = "scan"
    BY <1>0, <1>6 DEF GcStart, Goto, TypeOK
  <2>2. \A u \in Fresh' : ~(u < gc'.i)
    BY <1>0, <1>1, <2>1
  <2>3. /\ \A u \in Threads : Collects(u)' => u = t
        /\ Fresh' \subseteq Fresh
    BY <1>5, <1>6
  <2>4. Collecting'
    BY <1>0, <2>1, <2>2, <2>3 DEF Collecting
  <2> QED
    BY <1>0, <1>1, <2>1, <2>3, <2>4 DEF GlobalNear
<1>7. CASE GcScan(t)
  <2>1. /\ gc'.epoch = global_epoch /\ global_epoch' = global_epoch
        /\ pc[t] = "scan" /\ gc.i \in Threads /\ gc.epoch = global_epoch
    BY <1>0, <1>7 DEF GcScan, Goto, TypeOK, Collecting, ebr
  <2>2. CASE Behind(gc.i)
    <3>1. pc'[t] = "free" /\ gc'.victim = Succ(global_epoch)
      BY <1>0, <1>7, <2>1, <2>2 DEF GcScan, Goto, TypeOK, Succ
    <3> QED
      BY <1>0, <1>1, <1>5, <1>7, <2>1, <3>1 DEF Collecting, GlobalNear
  <2>3. CASE ~Behind(gc.i)
    <3>1. gc'.i = gc.i + 1 /\ gc.i \in Nat
      BY <1>0, <1>7, <2>3 DEF GcScan, TypeOK
    <3>2. pc'[t] = IF gc.i + 1 \in Threads THEN "scan" ELSE "advance"
      BY <1>0, <1>7, <2>3 DEF GcScan, Goto, TypeOK
    <3>3. gc.i \in Fresh => epoch[gc.i] = global_epoch
      BY <1>0, <2>1, <2>3, Cycle
         DEF Behind, Published, Fresh, InCS, TypeOK, ACTIVE, Epochs
    <3>4. \A u \in Fresh : u < gc.i + 1 => epoch[u] = global_epoch
      <4> SUFFICES ASSUME NEW u \in Fresh, u < gc.i + 1
                   PROVE  epoch[u] = global_epoch
        OBVIOUS
      <4>1. u \in Nat /\ u \in Fresh
        BY <1>0, <1>1
      <4>2. u < gc.i \/ u = gc.i
        BY <3>1, <4>1
      <4> QED
        BY <1>0, <2>1, <3>3, <4>2 DEF Collecting
    <3>5. gc.i + 1 \notin Threads => \A u \in Fresh : u < gc.i + 1
      BY <1>1, <2>1, <3>1, EBRAssumption DEF Threads
    <3> QED
      BY <1>0, <1>1, <1>5, <1>7, <2>1, <3>1, <3>2, <3>4, <3>5
         DEF Collecting, GlobalNear
  <2> QED
    BY <2>2, <2>3
<1>8. CASE GcAdvance(t)
  <2>1. /\ gc.epoch = global_epoch /\ \A u \in Fresh : epoch[u] = global_epoch
    BY <1>0, <1>8 DEF GcAdvance, Goto, Collecting
  <2>2. /\ global_epoch' = Succ(global_epoch)
        /\ gc'.victim = Succ(global_epoch') /\ pc'[t] = "free"
    BY <1>0, <1>8, <2>1, Cycle DEF GcAdvance, Goto, TypeOK
  <2> QED
    BY <1>0, <1>1, <1>5, <1>8, <2>1, <2>2 DEF Collecting, GlobalNear
<1>9. CASE GcFree(t)
  <2>1. /\ global_epoch' = global_epoch /\ gc' = gc /\ pc'[t] = "exit"
    BY <1>0, <1>9 DEF GcFree, Goto, TypeOK
  <2> QED
    BY <1>0, <1>1, <1>5, <1>9, <2>1 DEF Collecting, GlobalNear
<1> QED
  BY <1>3, <1>4, <1>6, <1>7, <1>8, <1>9 DEF Step

-----------------------------------------------------------------------------
(* Only a delete, a put and a collection move an item. *)
LEMMA ItemFrame ==
    ASSUME IInv, NEW t \in Threads, Step(t),
           ~Delete(t), ~Put(t), ~GcFree(t)
    PROVE  /\ UNCHANGED <<vis, freed, rt_lists, lagged>>
           /\ Putting' = Putting
           /\ \A u \in Putting : pos'[u] = pos[u]
<1> USE DEF Goto, ebr, items, hist, Putting
<1>0. TypeOK
  BY DEF IInv
<1>1. CASE Register(t) \/ Unregister(t) \/ EnterRead(t) \/ EnterPublish(t) \/ Exit(t)
  BY <1>0, <1>1 DEF Register, Unregister, EnterRead, EnterPublish, Exit, TypeOK
<1>2. CASE Visable(t) \/ Access(t)
  BY <1>0, <1>2 DEF Visable, Access, Onward, TypeOK
<1>3. CASE GcSkip(t) \/ GcStart(t) \/ GcScan(t) \/ GcAdvance(t)
  BY <1>0, <1>3 DEF GcSkip, GcStart, GcScan, GcAdvance, TypeOK
<1> QED
  BY <1>1, <1>2, <1>3 DEF Step

LEMMA PutFacts ==
    ASSUME IInv, NEW t \in Threads, Put(t)
    PROVE  \E label \in Epochs :
              /\ rt_lists' = [rt_lists EXCEPT ![label] = @ \cup {pos[t]}]
              /\ lagged' = IF label = global_epoch THEN lagged
                                                  ELSE lagged \cup {pos[t]}
              /\ t \in Putting /\ Putting' = Putting \ {t}
              /\ UNCHANGED <<vis, freed, pos, global_epoch>>
<1>1. local_epoch[t] - ACTIVE \in Epochs
  BY Cycle DEF IInv, Published, InCS, TypeOK, Put, Goto
<1>2. t \in Putting /\ Putting' = Putting \ {t}
  BY DEF IInv, TypeOK, Put, Goto, Putting
<1> QED
  BY <1>1, <1>2 DEF Put, items

LEMMA ConservationStep ==
    ASSUME IInv, NEW t \in Threads, Step(t)
    PROVE  Conservation'
<1>0. /\ TypeOK /\ Conservation
      /\ rt_lists \in [Epochs -> SUBSET Items] /\ pos \in [Threads -> Items]
      /\ Putting \subseteq Threads
  BY DEF IInv, TypeOK, Putting
<1>1. CASE ~Delete(t) /\ ~Put(t) /\ ~GcFree(t)
  <2>1. /\ UNCHANGED <<vis, freed, rt_lists>> /\ Putting' = Putting
        /\ \A u \in Putting : pos'[u] = pos[u]
    BY <1>1, ItemFrame
  <2>2. {pos[u] : u \in Putting}' = {pos[u] : u \in Putting}
    BY <2>1
  <2> QED
    BY <1>0, <2>1, <2>2 DEF Conservation, Limbo
<1>2. CASE Delete(t)
  <2>1. UNCHANGED <<freed, rt_lists, pos>> /\ vis' = vis \ {pos[t]}
    BY <1>2 DEF Delete, ebr
  <2>2. t \notin Putting
        /\ Putting' = Putting \cup {u \in {t} : pos[t] \in vis}
    BY <1>0, <1>2 DEF Delete, Goto, TypeOK, Putting
  <2> QED
    BY <1>0, <2>1, <2>2 DEF Conservation, Limbo
<1>3. CASE Put(t)
  <2>1. PICK label \in Epochs :
              /\ rt_lists' = [rt_lists EXCEPT ![label] = @ \cup {pos[t]}]
              /\ t \in Putting /\ Putting' = Putting \ {t}
              /\ UNCHANGED <<vis, freed, pos>>
    BY <1>3, PutFacts
  <2>2. Limbo' = Limbo \cup {pos[t]}
    BY <1>0, <2>1 DEF Limbo
  <2>3. /\ pos[t] \notin vis \cup Limbo \cup freed
        /\ \A e \in Epochs : pos[t] \notin rt_lists[e]
        /\ \A u \in Putting' : pos[u] # pos[t]
    BY <1>0, <2>1 DEF Conservation, Limbo
  <2> QED
    BY <1>0, <2>1, <2>2, <2>3 DEF Conservation
<1>4. CASE GcFree(t)
  <2> DEFINE v == gc.victim
  <2>1. /\ v \in Epochs
        /\ rt_lists' = [rt_lists EXCEPT ![v] = {}]
        /\ freed' = freed \cup rt_lists[v]
        /\ UNCHANGED <<vis, pos>> /\ Putting' = Putting
    BY <1>0, <1>4 DEF GcFree, Goto, TypeOK, Putting
  <2>2. /\ Limbo' = Limbo \ rt_lists[v]
        /\ rt_lists[v] \subseteq Limbo
    BY <1>0, <2>1 DEF Limbo, Conservation
  <2> QED
    BY <1>0, <2>1, <2>2 DEF Conservation
<1> QED
  BY <1>1, <1>2, <1>3, <1>4

(* The list that is collected is not one a fresh reader's item is in. *)
LEMMA ProtectedStep ==
    ASSUME IInv, NEW t \in Threads, Step(t)
    PROVE  Filed' /\ FreshProtected'
<1> DEFINE Sees(u) == pc[u] \in {"access", "abort"}
<1>0. /\ TypeOK /\ Conservation /\ Filed /\ FreshProtected
      /\ GlobalNear /\ Collecting
      /\ rt_lists \in [Epochs -> SUBSET Items] /\ pos \in [Threads -> Items]
      /\ epoch \in [Threads -> Epochs] /\ global_epoch \in Epochs
  BY DEF IInv, TypeOK
<1>1. /\ \A u \in Fresh' : epoch'[u] = epoch[u]
      /\ Fresh \subseteq Threads /\ Fresh' \subseteq Threads
      /\ \A u \in Fresh' : u \in Fresh \/ EnterPublish(t)
  BY FreshStep
\* Who looks at an item looked at it before, or has just seen it visible.
<1>2. \A u \in Fresh' : Sees(u)' =>
          /\ u \in Fresh
          /\ pos'[u] = pos[u]
          /\ Sees(u) \/ pos[u] \in vis
  <2> USE DEF Goto, Fresh, InCS
  <2>1. CASE Register(t) \/ Unregister(t) \/ EnterRead(t) \/ EnterPublish(t) \/ Exit(t)
    BY <1>0, <2>1 DEF Register, Unregister, EnterRead, EnterPublish, Exit, TypeOK, hist
  <2>2. CASE Visable(t) \/ Access(t) \/ Delete(t)
    BY <1>0, <2>2 DEF Visable, Access, Delete, Onward, TypeOK, hist
  <2>3. CASE Put(t) \/ GcSkip(t) \/ GcStart(t) \/ GcScan(t) \/ GcAdvance(t) \/ GcFree(t)
    BY <1>0, <2>3 DEF Put, GcSkip, GcStart, GcScan, GcAdvance, GcFree, TypeOK, hist
  <2> QED
    BY <2>1, <2>2, <2>3 DEF Step
<1>3. CASE GcFree(t)
  <2>1. /\ gc.victim = Succ(global_epoch)
        /\ gc.victim \in Epochs
        /\ rt_lists' = [rt_lists EXCEPT ![gc.victim] = {}]
        /\ freed' = freed \cup rt_lists[gc.victim]
        /\ lagged' = lagged /\ global_epoch' = global_epoch /\ vis' = vis
    BY <1>0, <1>3 DEF GcFree, Goto, Collecting, TypeOK, hist
  <2>2. \A u \in Fresh : gc.victim \notin {epoch[u], global_epoch}
    BY <1>0, <1>1, <2>1, Cycle DEF GlobalNear
  <2>3. \A u \in Fresh : /\ Sees(u) /\ pos[u] \in rt_lists[gc.victim] => pos[u] \in lagged
                         /\ pos[u] \in vis => pos[u] \notin rt_lists[gc.victim] \cup freed
    BY <1>0, <1>1, <2>1, <2>2 DEF Filed, Conservation, Limbo
  <2>4. FreshProtected'
    BY <1>0, <1>1, <1>2, <2>1, <2>3 DEF FreshProtected
  <2>5. Filed'
    <3> SUFFICES ASSUME NEW u \in Fresh', NEW e \in Epochs, Sees(u)',
                        pos'[u] \in rt_lists'[e], pos'[u] \notin lagged'
                 PROVE  e \in {epoch'[u], global_epoch'}
      BY DEF Filed
    <3>1. /\ u \in Fresh /\ pos'[u] = pos[u] /\ pos[u] \in rt_lists[e]
          /\ Sees(u)
      BY <1>0, <1>2, <2>1 DEF Conservation, Limbo
    <3> QED
      BY <1>0, <1>1, <2>1, <3>1 DEF Filed
  <2> QED
    BY <2>4, <2>5
<1>4. CASE Put(t)
  <2>1. PICK label \in Epochs :
              /\ rt_lists' = [rt_lists EXCEPT ![label] = @ \cup {pos[t]}]
              /\ lagged' = IF label = global_epoch THEN lagged
                                                  ELSE lagged \cup {pos[t]}
              /\ UNCHANGED <<vis, freed, pos, global_epoch>>
    BY <1>4, PutFacts
  <2>2. \A u \in Fresh : pos[u] \in vis => pos[u] \notin Limbo \cup freed
    BY <1>0 DEF Conservation
  <2>3. FreshProtected'
    BY <1>0, <1>1, <1>2, <2>1, <2>2 DEF FreshProtected
  <2>4. Filed'
    <3> SUFFICES ASSUME NEW u \in Fresh', NEW e \in Epochs, Sees(u)',
                        pos'[u] \in rt_lists'[e], pos'[u] \notin lagged'
                 PROVE  e \in {epoch'[u], global_epoch'}
      BY DEF Filed
    <3>1. CASE pos[u] \in rt_lists[e]
      <4>1. u \in Fresh /\ pos'[u] = pos[u] /\ Sees(u) /\ pos[u] \notin lagged
        BY <1>2, <2>1, <2>2, <3>1 DEF Limbo
      <4> QED
        BY <1>0, <1>1, <2>1, <3>1, <4>1 DEF Filed
    <3>2. CASE pos[u] \notin rt_lists[e]
      <4>1. e = label /\ label = global_epoch
        BY <1>0, <1>1, <2>1, <3>2
      <4> QED
        BY <2>1, <4>1
    <3> QED
      BY <3>1, <3>2
  <2> QED
    BY <2>3, <2>4
<1>5. CASE GcAdvance(t)
  <2>1. /\ \A u \in Fresh : epoch[u] = global_epoch
        /\ UNCHANGED <<vis, freed, rt_lists, lagged>>
    BY <1>0, <1>5 DEF GcAdvance, Goto, Collecting, items, hist
  <2>2. \A u \in Fresh : pos[u] \in vis => pos[u] \notin Limbo \cup freed
    BY <1>0 DEF Conservation
  <2> QED
    BY <1>0, <1>1, <1>2, <2>1, <2>2 DEF Filed, FreshProtected, Limbo
<1>6. CASE Delete(t)
  <2>1. UNCHANGED <<freed, rt_lists, lagged, global_epoch>>
    BY <1>6 DEF Delete, ebr, hist
  <2>2. \A u \in Fresh : pos[u] \in vis => pos[u] \notin Limbo \cup freed
    BY <1>0 DEF Conservation
  <2> QED
    BY <1>0, <1>1, <1>2, <2>1, <2>2 DEF Filed, FreshProtected, Limbo
<1>7. CASE ~GcFree(t) /\ ~Put(t) /\ ~GcAdvance(t) /\ ~Delete(t)
  <2>1. UNCHANGED <<vis, freed, rt_lists, lagged>> /\ global_epoch' = global_epoch
    <3>1. UNCHANGED <<vis, freed, rt_lists, lagged>>
      BY <1>7, ItemFrame
    <3>2. global_epoch' = global_epoch
      BY <1>7 DEF Step, Register, Unregister, EnterRead, EnterPublish, Exit, Visable,
             Access, GcSkip, GcStart, GcScan, ebr
    <3> QED
      BY <3>1, <3>2
  <2>2. \A u \in Fresh : pos[u] \in vis => pos[u] \notin Limbo \cup freed
    BY <1>0 DEF Conservation
  <2> QED
    BY <1>0, <1>1, <1>2, <2>1, <2>2 DEF Filed, FreshProtected, Limbo
<1> QED
  BY <1>3, <1>4, <1>5, <1>6, <1>7

(* Who is inside changes when a thread enters or exits, for whom an item   *)
(* waits when one exits or the item is put.                                *)
LEMMA InsideStep ==
    ASSUME IInv, NEW t \in Threads, Step(t)
    PROVE  /\ ~EnterPublish(t) /\ ~Exit(t) => InCS' = InCS /\ Fresh' = Fresh
           /\ ~Exit(t) /\ ~Put(t) => waits' = waits
           /\ EnterPublish(t) => t \notin InCS /\ InCS' = InCS \cup {t}
           /\ Exit(t) => InCS' = InCS \ {t} /\ Fresh' = Fresh \ {t}
<1> USE DEF Goto, hist, InCS, Fresh
<1>0. TypeOK
  BY DEF IInv
<1>1. CASE Register(t) \/ Unregister(t) \/ EnterRead(t)
  BY <1>0, <1>1 DEF Register, Unregister, EnterRead, TypeOK, EnterPublish, Exit
<1>2. CASE EnterPublish(t)
  BY <1>0, <1>2 DEF EnterPublish, TypeOK, Exit
<1>3. CASE Exit(t)
  BY <1>0, <1>3 DEF Exit, TypeOK, EnterPublish
<1>4. CASE Visable(t) \/ Access(t) \/ Delete(t)
  BY <1>0, <1>4 DEF Visable, Access, Delete, Onward, TypeOK, EnterPublish, Exit
<1>5. CASE Put(t) \/ GcSkip(t) \/ GcStart(t)
  BY <1>0, <1>5 DEF Put, GcSkip, GcStart, TypeOK, EnterPublish, Exit
<1>6. CASE GcScan(t) \/ GcAdvance(t) \/ GcFree(t)
  BY <1>0, <1>6 DEF GcScan, GcAdvance, GcFree, TypeOK, EnterPublish, Exit
<1> QED
  BY <1>1, <1>2, <1>3, <1>4, <1>5, <1>6 DEF Step

(* The list that is collected is not one that waits for a fresh reader. *)
LEMMA VictimFree ==
    ASSUME IInv, NEW t \in Threads, GcFree(t)
    PROVE  /\ gc.victim \in Epochs
           /\ \A u \in Fresh : gc.victim \notin {epoch[u], global_epoch}
<1>1. gc.victim = Succ(global_epoch)
  BY DEF IInv, Collecting, GcFree, Goto
<1>2. \A u \in Fresh : epoch[u] \in Epochs
  BY DEF IInv, TypeOK, Fresh, InCS
<1>3. global_epoch \in Epochs
  BY DEF IInv, TypeOK
<1> QED
  BY <1>1, <1>2, <1>3, Cycle DEF IInv, GlobalNear

LEMMA AwaitedStep ==
    ASSUME IInv, NEW t \in Threads, Step(t)
    PROVE  Awaited'
<1>0. /\ TypeOK /\ Conservation /\ Awaited
      /\ rt_lists \in [Epochs -> SUBSET Items] /\ pos \in [Threads -> Items]
      /\ waits \in [Items -> SUBSET Threads]
  BY DEF IInv, TypeOK
<1>8. \A n \in Items : waits[n] \subseteq InCS
  BY <1>0 DEF Awaited
<1>1. /\ \A u \in Fresh' : epoch'[u] = epoch[u]
      /\ \A u \in Fresh' : u \in Fresh \/ (EnterPublish(t) /\ u = t)
  BY FreshStep
<1>2. \A n \in Items : waits'[n] \subseteq InCS'
  <2>1. CASE Exit(t)
    <3>1. waits' = [n \in Items |-> waits[n] \ {t}]
      BY <2>1 DEF Exit
    <3>2. InCS' = InCS \ {t}
      BY <2>1, InsideStep
    <3> QED
      BY <1>0, <1>8, <3>1, <3>2
  <2>2. CASE Put(t)
    <3>1. waits' = [waits EXCEPT ![pos[t]] = InCS]
      BY <2>2 DEF Put
    <3>2. InCS' = InCS
      BY <2>2, InsideStep DEF Put, EnterPublish, Exit, Goto
    <3> QED
      BY <1>0, <1>8, <3>1, <3>2
  <2>3. CASE ~Exit(t) /\ ~Put(t)
    <3>1. waits' = waits /\ InCS \subseteq InCS'
      BY <2>3, InsideStep
    <3> QED
      BY <1>8, <3>1
  <2> QED
    BY <2>1, <2>2, <2>3
<1>3. SUFFICES ASSUME NEW u \in Fresh', NEW e \in Epochs,
                      NEW n \in rt_lists'[e] \ lagged', u \in waits'[n]
               PROVE  e \in {epoch'[u], global_epoch'}
  BY <1>2 DEF Awaited
\* Unless the item is being put, it waited for this reader before.
<1>4. ASSUME n \in rt_lists[e] \ lagged, u \in waits[n]
      PROVE  u \in Fresh /\ e \in {epoch[u], global_epoch}
  <2>1. u \in InCS
    BY <1>0, <1>4, <1>8
  <2>2. u \in Fresh
    BY <1>1, <2>1, InsideStep
  <2> QED
    BY <1>0, <1>4, <2>2 DEF Awaited
<1>5. CASE Put(t)
  <2>1. PICK label \in Epochs :
              /\ rt_lists' = [rt_lists EXCEPT ![label] = @ \cup {pos[t]}]
              /\ lagged' = IF label = global_epoch THEN lagged
                                                  ELSE lagged \cup {pos[t]}
              /\ global_epoch' = global_epoch
    BY <1>5, PutFacts
  <2>2. waits' = [waits EXCEPT ![pos[t]] = InCS]
    BY <1>5 DEF Put
  <2>3. \A d \in Epochs : pos[t] \notin rt_lists[d]
    BY <1>0, <1>5 DEF Put, Goto, Conservation, Putting, Limbo
  <2>4. CASE n = pos[t]
    BY <1>0, <2>1, <2>3, <2>4
  <2>5. CASE n # pos[t]
    <3>1. n \in rt_lists[e] \ lagged /\ u \in waits[n]
      BY <1>0, <1>3, <2>1, <2>2, <2>5
    <3> QED
      BY <1>1, <1>4, <2>1, <3>1
  <2> QED
    BY <2>4, <2>5
<1>6. CASE GcFree(t)
  <2>1. /\ n \in rt_lists[e] \ lagged
        /\ waits' = waits /\ global_epoch' = global_epoch
    BY <1>0, <1>6, VictimFree DEF GcFree, hist
  <2> QED
    BY <1>1, <1>3, <1>4, <2>1
<1>7. CASE ~Put(t) /\ ~GcFree(t)
  <2>1. rt_lists' = rt_lists /\ lagged' = lagged
    <3>1. CASE Delete(t)
      BY <3>1 DEF Delete, ebr, hist
    <3> QED
      BY <1>7, <3>1, ItemFrame
  <2>2. waits'[n] \subseteq waits[n]
    <3>1. n \in Items
      BY <1>0, <2>1
    <3>2. CASE Exit(t)
      BY <1>0, <3>1, <3>2 DEF Exit
    <3> QED
      BY <1>7, <3>2, InsideStep
  <2>3. u \in Fresh /\ e \in {epoch[u], global_epoch}
    BY <1>3, <1>4, <2>1, <2>2
  <2>4. CASE GcAdvance(t)
    <3>1. epoch[u] = global_epoch
      BY <2>3, <2>4 DEF IInv, Collecting, GcAdvance, Goto
    <3> QED
      BY <1>1, <2>3, <3>1
  <2>5. CASE ~GcAdvance(t)
    <3>1. global_epoch' = global_epoch
      BY <1>7, <2>5 DEF Step, Register, Unregister, EnterRead, EnterPublish, Exit,
             Visable, Access, Delete, GcSkip, GcStart, GcScan, ebr
    <3> QED
      BY <1>1, <2>3, <3>1
  <2> QED
    BY <2>4, <2>5
<1> QED
  BY <1>5, <1>6, <1>7

-----------------------------------------------------------------------------
LEMMA DestroyIInv ==
    ASSUME IInv, Destroy
    PROVE  IInv'
<1>0. TypeOK /\ Conservation /\ Published /\ MutexOwned /\ Collecting
  BY DEF IInv
<1>1. InCS' = {} /\ Fresh' = {} /\ Putting' = {} /\ Putting = {}
  BY DEF Destroy, InCS, Fresh, Putting
<1>2. TypeOK'
  BY <1>0 DEF Destroy, TypeOK, nodes, hist
<1>3. Published' /\ MutexOwned'
  BY <1>0, <1>1 DEF Destroy, Published, MutexOwned, InCS, nodes
<1>4. Collecting' /\ GlobalNear' /\ Filed' /\ FreshProtected'
  BY <1>1 DEF Destroy, Collecting, GlobalNear, Filed, FreshProtected
<1>7. Awaited'
  <2>1. InCS = {}
    BY DEF Destroy, InCS
  <2>2. waits' = waits
    BY DEF Destroy, hist
  <2> QED
    BY <1>1, <2>1, <2>2 DEF Awaited, IInv
<1>5. Limbo' = {} /\ vis' = vis /\ freed' = freed \cup Limbo
  BY DEF Destroy, Limbo
<1>6. Conservation'
  BY <1>0, <1>1, <1>5 DEF Conservation, Destroy
<1> QED
  BY <1>2, <1>3, <1>4, <1>6, <1>7 DEF IInv

LEMMA StepIInv == IInv /\ [Next]_vars => IInv'
<1> SUFFICES ASSUME IInv, [Next]_vars PROVE IInv'
  OBVIOUS
<1>1. ASSUME NEW t \in Threads, Step(t) PROVE IInv'
  BY <1>1, TypeStep, ControlStep, CollectingStep, ConservationStep, ProtectedStep,
     AwaitedStep DEF IInv
<1>2. CASE Destroy
  BY <1>2, DestroyIInv
<1>3. CASE UNCHANGED vars
  BY <1>3 DEF vars, ebr, nodes, items, hist, IInv, TypeOK, Published, MutexOwned,
     Collecting, GlobalNear, Conservation, Filed, Awaited, FreshProtected, InCS, Fresh,
     Putting, Limbo
<1> QED
  BY <1>1, <1>2, <1>3 DEF Next

THEOREM Invariance == Spec => []IInv
<1> QED
  BY InitIInv, StepIInv, PTL DEF Spec

(* A reader that published the epoch that was global accesses no freed     *)
(* item, unless its retirer filed it under an epoch already over.          *)
THEOREM Protection == Spec => []FreshProtected
<1>1. IInv => FreshProtected
  BY DEF IInv
<1> QED
  BY <1>1, Invariance, PTL

(* The lists of ebr lose no retired item and hand none to _free twice.     *)
THEOREM NoDoubleFree == Spec => []Conservation
<1>1. IInv => Conservation
  BY DEF IInv
<1> QED
  BY <1>1, Invariance, PTL

(* While a fresh reader is inside, the global epoch moves at most once.    *)
THEOREM OneAdvance == Spec => []GlobalNear
<1>1. IInv => GlobalNear
  BY DEF IInv
<1> QED
  BY <1>1, Invariance, PTL

-----------------------------------------------------------------------------
(* The items that wait, as an observer of the timely threads sees them. *)
Waiting == [n \in Limbo \ lagged |-> waits[n] \cap Fresh]

LEMMA GraceInit == Init => Grace!Init
<1> SUFFICES ASSUME Init PROVE Fresh = {} /\ Waiting = <<>>
  BY DEF Grace!Init, Waiting
<1>1. Fresh = {} /\ Limbo \ lagged = {}
  BY DEF Init, Fresh, InCS, Limbo
<1> QED
  BY <1>1 DEF Waiting

LEMMA GraceStep == IInv /\ IInv' /\ [Next]_vars => [Grace!Next(Items)]_(Grace!vars)
<1> SUFFICES ASSUME IInv, IInv', [Next]_vars
             PROVE  \/ \E t \in Threads : Grace!Enter(t) \/ Grace!Exit(t)
                    \/ \E n \in Items : Grace!Retire(n)
                    \/ \E S \in SUBSET Items : Grace!CollectAll(S)
                    \/ Fresh' = Fresh /\ Waiting' = Waiting
  BY DEF Grace!Next, Grace!vars, Waiting
<1> USE DEF Grace!Enter, Grace!Exit, Grace!Retire, Grace!CollectAll, Grace!Retired
<1>0. /\ TypeOK /\ Conservation /\ Awaited
      /\ rt_lists \in [Epochs -> SUBSET Items] /\ pos \in [Threads -> Items]
      /\ waits \in [Items -> SUBSET Threads] /\ Limbo \subseteq Items
  BY DEF IInv, TypeOK, Limbo
<1>1. \A n \in Items : waits[n] \subseteq InCS
  BY <1>0 DEF Awaited
<1>2. ASSUME NEW t \in Threads, EnterPublish(t)
      PROVE  Grace!Enter(t) \/ (Fresh' = Fresh /\ Waiting' = Waiting)
  <2>1. /\ t \notin InCS /\ InCS' = InCS \cup {t} /\ waits' = waits
        /\ UNCHANGED <<lagged, rt_lists>>
    BY <1>2, InsideStep DEF Step, EnterPublish, Exit, Put, Goto, ebr
  <2>2. Limbo' = Limbo
    BY <2>1 DEF Limbo
  <2>3. \A n \in Limbo \ lagged : t \notin waits[n]
    BY <1>0, <1>1, <2>1
  <2>4. Fresh' = Fresh \cup {t} \/ Fresh' = Fresh
    BY <1>0, <1>2, <2>1 DEF EnterPublish, Fresh
  <2>5. Waiting' = Waiting /\ Waiting = [n \in Limbo \ lagged |-> Waiting[n] \ {t}]
    BY <2>1, <2>2, <2>3, <2>4 DEF Waiting
  <2> QED
    BY <2>4, <2>5 DEF Waiting
<1>3. ASSUME NEW t \in Threads, Exit(t)
      PROVE  Grace!Exit(t)
  <2>1. /\ Fresh' = Fresh \ {t} /\ waits' = [n \in Items |-> waits[n] \ {t}]
        /\ UNCHANGED <<lagged, rt_lists>>
    BY <1>3, InsideStep DEF Step, Exit, ebr
  <2>2. Limbo' = Limbo
    BY <2>1 DEF Limbo
  <2>3. Waiting' = [n \in Limbo \ lagged |-> Waiting[n] \ {t}]
    BY <1>0, <2>1, <2>2 DEF Waiting
  <2> QED
    BY <2>1, <2>3 DEF Waiting
<1>4. ASSUME NEW t \in Threads, Put(t)
      PROVE  \/ \E n \in Items : Grace!Retire(n)
             \/ Fresh' = Fresh /\ Waiting' = Waiting
  <2>1. PICK label \in Epochs :
              /\ rt_lists' = [rt_lists EXCEPT ![label] = @ \cup {pos[t]}]
              /\ lagged' = IF label = global_epoch THEN lagged
                                                  ELSE lagged \cup {pos[t]}
    BY <1>4, PutFacts
  <2>2. /\ InCS' = InCS /\ Fresh' = Fresh
        /\ waits' = [waits EXCEPT ![pos[t]] = InCS] /\ pos[t] \in Items
    BY <1>0, <1>4, InsideStep DEF Step, Put, EnterPublish, Exit, Goto
  <2>3. pos[t] \notin Limbo /\ Limbo' = Limbo \cup {pos[t]}
    BY <1>0, <1>4, <2>1 DEF Conservation, Put, Goto, Putting, Limbo
  <2>4. CASE pos[t] \in lagged'
    <3>1. Limbo' \ lagged' = Limbo \ lagged
      BY <2>1, <2>3, <2>4
    <3>2. \A n \in Limbo \ lagged : waits'[n] = waits[n]
      BY <1>0, <2>2, <2>3
    <3> QED
      BY <2>2, <3>1, <3>2 DEF Waiting
  <2>5. CASE pos[t] \notin lagged'
    <3>1. Limbo' \ lagged' = (Limbo \ lagged) \cup {pos[t]}
      BY <2>1, <2>3, <2>5
    <3>2. /\ \A n \in Limbo \ lagged : waits'[n] = waits[n]
          /\ waits'[pos[t]] \cap Fresh = Fresh
      BY <1>0, <2>2, <2>3 DEF Fresh
    <3> QED
      BY <2>2, <2>3, <3>1, <3>2 DEF Waiting
  <2> QED
    BY <2>4, <2>5
<1>5. ASSUME NEW t \in Threads, GcFree(t)
      PROVE  \E S \in SUBSET Items : Grace!CollectAll(S)
  <2> DEFINE S == rt_lists[gc.victim] \ lagged
  <2>1. /\ gc.victim \in Epochs
        /\ rt_lists' = [rt_lists EXCEPT ![gc.victim] = {}]
        /\ lagged' = lagged /\ waits' = waits /\ Fresh' = Fresh
    BY <1>5, VictimFree, InsideStep
       DEF Step, GcFree, EnterPublish, Exit, Put, Goto, hist
  <2>2. Limbo' \ lagged' = (Limbo \ lagged) \ S
    BY <1>0, <2>1 DEF Limbo, Conservation
  <2>3. S \subseteq Limbo \ lagged
    BY <2>1 DEF Limbo
  <2>4. \A n \in S : waits[n] \cap Fresh = {}
    BY <1>0, <1>5, <2>1, VictimFree DEF Awaited
  <2>5. S \in SUBSET Items
    BY <1>0, <2>3
  <2> QED
    BY <2>1, <2>2, <2>3, <2>4, <2>5 DEF Waiting
<1>6. ASSUME Destroy
      PROVE  \E S \in SUBSET Items : Grace!CollectAll(S)
  <2>1. Fresh = {} /\ Fresh' = {} /\ Limbo' = {}
    BY <1>6 DEF Destroy, Fresh, InCS, Limbo
  <2>2. Limbo \ lagged \in SUBSET Items
    BY <1>0
  <2> QED
    BY <2>1, <2>2 DEF Waiting
<1>7. ASSUME NEW t \in Threads, Step(t),
             ~EnterPublish(t), ~Exit(t), ~Put(t), ~GcFree(t)
      PROVE  Fresh' = Fresh /\ Waiting' = Waiting
  <2>1. Fresh' = Fresh /\ waits' = waits
    BY <1>7, InsideStep
  <2>2. rt_lists' = rt_lists /\ lagged' = lagged
    <3>1. CASE Delete(t)
      BY <3>1 DEF Delete, ebr, hist
    <3> QED
      BY <1>7, <3>1, ItemFrame
  <2> QED
    BY <2>1, <2>2 DEF Waiting, Limbo
<1>8. CASE UNCHANGED vars
  BY <1>8 DEF vars, ebr, hist, Waiting, Limbo, Fresh, InCS
<1> HIDE DEF Grace!Enter, Grace!Exit, Grace!Retire, Grace!CollectAll, Grace!Retired
<1>9. CASE Destroy
  BY <1>6, <1>9
<1>10. ASSUME NEW t \in Threads, Step(t)
       PROVE  \/ Grace!Enter(t) \/ Grace!Exit(t)
              \/ \E n \in Items : Grace!Retire(n)
              \/ \E S \in SUBSET Items : Grace!CollectAll(S)
              \/ Fresh' = Fresh /\ Waiting' = Waiting
  <2>1. CASE EnterPublish(t) \/ Exit(t)
    BY <1>2, <1>3, <2>1
  <2>2. CASE Put(t)
    BY <1>4, <2>2
  <2>3. CASE GcFree(t)
    BY <1>5, <2>3
  <2> QED
    BY <1>7, <1>10, <2>1, <2>2, <2>3
<1> QED
  BY <1>8, <1>9, <1>10 DEF Next

(* ebr.c implements the promise its callers rely on, as the threads that   *)
(* published the current epoch see it, for the items filed under it: none  *)
(* of these is freed while a thread that was inside at its retirement is.  *)
THEOREM Refinement == Spec => ImplementsGrace
<1>1. Init => Grace!Init
  BY GraceInit
<1>2. IInv /\ IInv' /\ [Next]_vars => [Grace!Next(Items)]_(Grace!vars)
  BY GraceStep
<1> QED
  BY <1>1, <1>2, Invariance, PTL DEF Spec, ImplementsGrace
=============================================================================
