---------------------------- MODULE StackProofs ----------------------------
(***************************************************************************)
(* No node of the stack is lost, doubled or used after it was freed, for   *)
(* any number of threads and nodes.                                        *)
(***************************************************************************)
EXTENDS Stack, ChainTheorems

Points == {"idle", "load", "next", "cas", "put", "exit", "enter", "peek", "slot",
           "offer", "answer", "got"} \cup Owning
Regs   == [top : Pointer, next : Pointer, ev : Words]

(* A step of t leaves the other threads where they are. *)
OnlyMoves(t) ==
    \A u \in Threads \ {t} : /\ pc'[u] = pc[u] /\ op'[u] = op[u]
                             /\ node'[u] = node[u] /\ reg'[u] = reg[u]

(* What it may do to the grace periods is drop its own claims. *)
EbrOnly(t) ==
    /\ inside' \subseteq Threads /\ inside \ {t} \subseteq inside'
    /\ Ebr!Retired' = Ebr!Retired
    /\ \A n \in Ebr!Retired : waits[n] \ {t} \subseteq waits'[n]

LEMMA EbrEnter ==
    ASSUME TypeOK, NEW t \in Threads, Ebr!Enter(t)
    PROVE  EbrOnly(t) /\ t \in inside'
BY DEF TypeOK, Ebr!Enter, Ebr!Retired, EbrOnly

LEMMA EbrExit ==
    ASSUME TypeOK, NEW t \in Threads, Ebr!Exit(t)
    PROVE  EbrOnly(t)
BY DEF TypeOK, Ebr!Exit, Ebr!Retired, EbrOnly

LEMMA EbrSame ==
    ASSUME TypeOK, NEW t \in Threads, UNCHANGED ebr
    PROVE  EbrOnly(t) /\ inside' = inside
BY DEF TypeOK, ebr, Ebr!Retired, EbrOnly

LEMMA Typed ==
    ASSUME TypeOK
    PROVE  /\ NULL \notin Nodes /\ Vacant \in Words /\ NoRegs \in Regs
           /\ pc \in [Threads -> Points]
           /\ reg \in [Threads -> Regs]
           /\ \A t \in Threads : Holds(t) \in Pointer
BY StackAssumption DEF TypeOK, Vacant, Word, Words, NoRegs, Regs, Pointer, Points,
   Holds

(* The hands of the others, when the slot is not touched. *)
LEMMA HoldsOthers ==
    ASSUME NEW t \in Threads, OnlyMoves(t), slot' = slot
    PROVE  \A u \in Threads \ {t} : Holds(u)' = Holds(u)
BY DEF OnlyMoves, Holds

-----------------------------------------------------------------------------
(* How a step changes what is in the hands of the calls. *)
LEMMA HandsKept ==
    ASSUME \A u \in Threads : Holds(u)' = Holds(u)
    PROVE  Hands' = Hands
BY DEF Hands

LEMMA HandsGain ==
    ASSUME Partition, NEW t \in Threads, Holds(t) = NULL,
           NEW n \in Nodes \ Hands, Holds(t)' = n,
           \A u \in Threads \ {t} : Holds(u)' = Holds(u)
    PROVE  /\ Hands' = Hands \cup {n}
           /\ \A u, w \in Threads : Holds(u)' = Holds(w)' /\ Holds(u)' # NULL => u = w
BY StackAssumption DEF Hands, Partition

LEMMA HandsDrop ==
    ASSUME Partition, NEW t \in Threads, Holds(t) \in Nodes, Holds(t)' = NULL,
           \A u \in Threads \ {t} : Holds(u)' = Holds(u)
    PROVE  /\ Hands' = Hands \ {Holds(t)} /\ Holds(t) \in Hands
           /\ \A u, w \in Threads : Holds(u)' = Holds(w)' /\ Holds(u)' # NULL => u = w
BY StackAssumption DEF Hands, Partition

LEMMA HandsPass ==
    ASSUME Partition, NEW t \in Threads, NEW r \in Threads, t # r,
           Holds(t) \in Nodes, Holds(r) = NULL,
           Holds(t)' = NULL, Holds(r)' = Holds(t),
           \A u \in Threads \ {t, r} : Holds(u)' = Holds(u)
    PROVE  /\ Hands' = Hands
           /\ \A u, w \in Threads : Holds(u)' = Holds(w)' /\ Holds(u)' # NULL => u = w
BY StackAssumption DEF Hands, Partition

-----------------------------------------------------------------------------
(* What a step of t has to show about t alone. *)
LEMMA LocalsStep ==
    ASSUME TypeOK, Locals, NEW t \in Threads, OnlyMoves(t), build' = build,
           inside \ {t} \subseteq inside', LocalsOf(t)',
           \A u \in Threads \ {t} :
               pc[u] = "cas" /\ op[u] = "push" => next'[node[u]] = next[node[u]]
    PROVE  Locals'
<1>1. ASSUME NEW u \in Threads \ {t} PROVE LocalsOf(u)'
  BY <1>1 DEF Locals, LocalsOf, OnlyMoves
<1> QED
  BY <1>1 DEF Locals

LEMMA ProtectedStep ==
    ASSUME Protected, NEW t \in Threads, OnlyMoves(t), ProtectedOf(t)',
           \A u \in Threads \ {t} :
               Reading(u) => /\ Safe(u, reg[u].top)'
                             /\ next'[reg[u].top] = next[reg[u].top]
    PROVE  Protected'
<1>1. ASSUME NEW u \in Threads \ {t} PROVE ProtectedOf(u)'
  BY <1>1 DEF Protected, ProtectedOf, OnlyMoves, Reading
<1> QED
  BY <1>1 DEF Protected

(* A node stays safe for the others while the stack only grows and t has   *)
(* no node to retire.                                                      *)
LEMMA SafeKept ==
    ASSUME NEW t \in Threads, OnlyMoves(t), EbrOnly(t), pc[t] # "put",
           Listed \subseteq Listed', NEW u \in Threads \ {t},
           Safe(u, reg[u].top)
    PROVE  Safe(u, reg[u].top)'
BY DEF Safe, OnlyMoves, EbrOnly, Ebr!Retired

LEMMA ListedSame ==
    ASSUME UNCHANGED <<head, next>>
    PROVE  Listed' = Listed
BY DEF Listed

(* A step that moves no node and leaves the exchanger alone. *)
LEMMA QuietStep ==
    ASSUME IInv, NEW t \in Threads, OnlyMoves(t), EbrOnly(t),
           UNCHANGED <<build, memory, slot, lost>>,
           TypeOK', LocalsOf(t)', ProtectedOf(t)', Holds(t)' = Holds(t),
           pc[t] # "put", pc'[t] \in Owning <=> pc[t] \in Owning,
           pc'[t] \in Owning =>
               /\ slot.tag = "WAITING" => /\ slot.v = node'[t]
                                          /\ pc'[t] \in {"wait", "withdraw"}
               /\ pc'[t] = "take" => reg'[t].ev = slot
    PROVE  IInv'
<1>0. head' = head /\ next' = next /\ free' = free
  BY DEF memory
<1>1. Locals'
  BY <1>0, LocalsStep DEF IInv, EbrOnly
<1>2. Emptied' /\ Straight'
  BY <1>0 DEF IInv, Emptied, Straight
<1>3. Listed' = Listed
  BY <1>0, ListedSame
<1>4. Protected'
  <2>1. ASSUME NEW u \in Threads \ {t}, Reading(u)
        PROVE  Safe(u, reg[u].top)'
    BY <1>3, <2>1, SafeKept DEF IInv, Protected, ProtectedOf
  <2> QED
    BY <1>0, <2>1, ProtectedStep DEF IInv
<1>5. \A u \in Threads : Holds(u)' = Holds(u)
  BY HoldsOthers
<1>6. Partition'
  BY <1>0, <1>3, <1>5, HandsKept DEF IInv, Partition, EbrOnly
<1>7. Owners' = Owners
  BY DEF Owners, OnlyMoves
<1>8. SlotOwned'
  BY <1>7 DEF IInv, SlotOwned, OnlyMoves, Owners
<1> QED
  BY <1>1, <1>2, <1>4, <1>6, <1>8 DEF IInv
-----------------------------------------------------------------------------
(* The quiet steps. *)
LEMMA StartPopStep ==
    ASSUME IInv, NEW t \in Threads, StartPop(t)
    PROVE  IInv'
<1>0. TypeOK /\ LocalsOf(t) /\ EbrOnly(t) /\ t \in inside'
  BY EbrEnter DEF IInv, Locals, StartPop
<1>1. OnlyMoves(t) /\ pc[t] = "idle" /\ pc'[t] = "load" /\ op'[t] = "pop"
  BY <1>0 DEF StartPop, At, Goto, OnlyMoves, TypeOK
<1>2. TypeOK'
  BY <1>0 DEF StartPop, Goto, TypeOK, memory, EbrOnly
<1>3. LocalsOf(t)' /\ ProtectedOf(t)' /\ Holds(t)' = Holds(t)
  BY <1>0, <1>1 DEF StartPop, LocalsOf, ProtectedOf, Reading, Holds, Owning, Exchanging
<1> QED
  BY <1>0, <1>1, <1>2, <1>3, QuietStep DEF StartPop, Owning

LEMMA LoadNextStep ==
    ASSUME IInv, NEW t \in Threads, LoadNext(t)
    PROVE  IInv'
<1>0. TypeOK /\ LocalsOf(t) /\ ProtectedOf(t) /\ EbrOnly(t) /\ inside' = inside
  BY EbrSame DEF IInv, Locals, Protected, LoadNext
<1>1. /\ OnlyMoves(t) /\ pc[t] = "next" /\ pc'[t] = "cas" /\ op[t] = "pop"
      /\ UNCHANGED <<build, memory, slot, ebr, op, node, lost>>
      /\ reg[t].top \in Nodes
      /\ reg'[t].top = reg[t].top /\ reg'[t].next = next[reg[t].top]
  BY <1>0 DEF LoadNext, At, Goto, Set, OnlyMoves, TypeOK, LocalsOf, Pointer
<1>2. TypeOK'
  BY <1>0, <1>1 DEF LoadNext, Goto, Set, TypeOK, memory, EbrOnly
<1>3. Safe(t, reg[t].top)'
  BY <1>0, <1>1, ListedSame DEF ProtectedOf, Reading, Safe, OnlyMoves, memory, ebr,
     Ebr!Retired
<1>4. LocalsOf(t)' /\ ProtectedOf(t)' /\ Holds(t)' = Holds(t)
  BY <1>0, <1>1, <1>3 DEF LocalsOf, ProtectedOf, Reading, Holds, Owning, Exchanging, memory
<1> QED
  BY <1>0, <1>1, <1>2, <1>4, QuietStep DEF Owning
LEMMA StartTopStep ==
    ASSUME IInv, NEW t \in Threads, StartTop(t)
    PROVE  IInv'
<1>0. TypeOK /\ LocalsOf(t) /\ EbrOnly(t) /\ inside' = inside
  BY EbrSame DEF IInv, Locals, StartTop
<1>1. /\ OnlyMoves(t) /\ pc[t] = "idle" /\ pc'[t] = "enter" /\ op'[t] = "top"
      /\ UNCHANGED <<build, memory, slot, ebr, node, lost>>
  BY <1>0 DEF StartTop, At, Goto, Set, OnlyMoves, TypeOK
<1>2. TypeOK'
  BY <1>0, <1>1, Typed DEF StartTop, Goto, Set, TypeOK, memory, EbrOnly, NoRegs, Regs
<1>3. LocalsOf(t)' /\ ProtectedOf(t)' /\ Holds(t)' = Holds(t)
  BY <1>0, <1>1 DEF LocalsOf, ProtectedOf, Reading, Holds, Owning, Exchanging, memory
<1> QED
  BY <1>0, <1>1, <1>2, <1>3, QuietStep DEF Owning

LEMMA EnterTopStep ==
    ASSUME IInv, NEW t \in Threads, EnterTop(t)
    PROVE  IInv'
<1>0. TypeOK /\ LocalsOf(t) /\ EbrOnly(t) /\ t \in inside'
  BY EbrEnter DEF IInv, Locals, EnterTop
<1>1. /\ OnlyMoves(t) /\ pc[t] = "enter" /\ pc'[t] \in {"exit", "peek"}
      /\ UNCHANGED <<build, memory, slot, op, node, reg, lost>>
  BY <1>0 DEF EnterTop, At, Goto, OnlyMoves, TypeOK
<1>2. TypeOK'
  BY <1>0, <1>1 DEF EnterTop, Goto, TypeOK, memory, EbrOnly
<1>3. LocalsOf(t)' /\ ProtectedOf(t)' /\ Holds(t)' = Holds(t)
  BY <1>0, <1>1 DEF LocalsOf, ProtectedOf, Reading, Holds, Owning, Exchanging, memory
<1> QED
  BY <1>0, <1>1, <1>2, <1>3, QuietStep DEF Owning

(* The call is over; an open critical section stays open. *)
LEMMA ReturnStep ==
    ASSUME IInv, NEW t \in Threads, Return(t), EbrOnly(t),
           pc[t] \in {"load", "peek", "exit"}, pc[t] = "load" => op[t] = "pop",
           UNCHANGED <<build, memory, slot, lost>>
    PROVE  IInv'
<1>0. TypeOK /\ LocalsOf(t)
  BY DEF IInv, Locals
<1>1. /\ OnlyMoves(t) /\ pc'[t] = "idle" /\ op'[t] = "push" /\ node'[t] = NULL
  BY <1>0 DEF Return, Goto, Set, OnlyMoves, TypeOK
<1>2. TypeOK'
  BY <1>0, <1>1, Typed
     DEF Return, Goto, Set, TypeOK, memory, EbrOnly, Regs, Pointer
<1>3. LocalsOf(t)' /\ ProtectedOf(t)' /\ Holds(t)' = Holds(t)
  BY <1>0, <1>1 DEF LocalsOf, ProtectedOf, Reading, Holds, Owning, Exchanging, memory
<1> QED
  BY <1>0, <1>1, <1>2, <1>3, QuietStep DEF Owning

LEMMA ExitStep ==
    ASSUME IInv, NEW t \in Threads, Exit(t) \/ Peek(t)
    PROVE  IInv'
<1>1. TypeOK
  BY DEF IInv
<1> QED
  BY <1>1, ReturnStep, EbrExit, EbrSame DEF Exit, Peek, At

(* A pop that finds the stack empty returns, one that does not may read    *)
(* the top.                                                                *)
LEMMA LoadPopStep ==
    ASSUME IInv, NEW t \in Threads, Load(t), op[t] # "push"
    PROVE  IInv'
<1>0. TypeOK /\ LocalsOf(t) /\ EbrOnly(t) /\ inside' = inside
  BY EbrSame DEF IInv, Locals, Load
<1>1. /\ pc[t] = "load" /\ op[t] = "pop"
      /\ UNCHANGED <<build, memory, slot, ebr, lost>>
  BY DEF Load, At, memory
<1>2. CASE head = NULL
  BY <1>0, <1>1, <1>2, ReturnStep DEF Load
<1>3. CASE head # NULL
  <2>0. /\ pc' = [pc EXCEPT ![t] = "next"] /\ UNCHANGED <<op, node>>
        /\ reg' = [reg EXCEPT ![t] = [reg[t] EXCEPT !.top = head]]
    BY <1>1, <1>3 DEF Load, Goto, Set
  <2>1. /\ OnlyMoves(t) /\ pc'[t] = "next"
        /\ reg'[t].top = head /\ head \in Nodes
    BY <1>0, <1>3, <2>0 DEF OnlyMoves, TypeOK, Pointer
  <2>2. TypeOK'
    BY <1>0, <1>1, <2>0 DEF TypeOK, memory, EbrOnly
  <2>3. head \in Listed
    BY <2>1, ChainPop DEF IInv, Straight, Listed
  <2>4. Safe(t, reg[t].top)'
    BY <1>1, <2>0, <2>1, <2>3, ListedSame DEF Safe, memory
  <2>5. LocalsOf(t)' /\ ProtectedOf(t)' /\ Holds(t)' = Holds(t)
    BY <1>0, <1>1, <2>0, <2>1, <2>4, StackAssumption
       DEF LocalsOf, ProtectedOf, Reading, Holds, Owning, Exchanging, memory
  <2> QED
    BY <1>0, <1>1, <2>0, <2>1, <2>2, <2>5, QuietStep DEF Owning
<1> QED
  BY <1>2, <1>3
(* The loser of the race for the head backs off or goes to the exchanger. *)
LEMMA CasLostStep ==
    ASSUME IInv, NEW t \in Threads, Cas(t), ~ Untouched(t)
    PROVE  IInv'
<1>0. TypeOK /\ LocalsOf(t) /\ EbrOnly(t) /\ inside' = inside
  BY EbrSame DEF IInv, Locals, Cas
<1>1. /\ pc[t] = "cas" /\ reg' = [reg EXCEPT ![t] = NoRegs]
      /\ pc' = [pc EXCEPT ![t] = IF build = "ELIMINATION" THEN "slot" ELSE "load"]
      /\ UNCHANGED <<build, memory, slot, ebr, op, node, lost>>
  BY DEF Cas, At, memory, Goto, Set
<1>2. OnlyMoves(t) /\ pc'[t] = IF build = "ELIMINATION" THEN "slot" ELSE "load"
  BY <1>0, <1>1 DEF OnlyMoves, TypeOK
<1>3. TypeOK'
  BY <1>0, <1>1, Typed DEF TypeOK, memory, EbrOnly, Regs
<1>4. LocalsOf(t)' /\ ProtectedOf(t)' /\ Holds(t)' = Holds(t)
  BY <1>0, <1>1, <1>2 DEF LocalsOf, ProtectedOf, Reading, Holds, Owning, Exchanging
<1> QED
  BY <1>0, <1>1, <1>2, <1>3, <1>4, QuietStep DEF Owning

LEMMA LookStep ==
    ASSUME IInv, NEW t \in Threads, Look(t)
    PROVE  IInv'
<1>0. TypeOK /\ LocalsOf(t) /\ Emptied /\ EbrOnly(t) /\ inside' = inside
  BY EbrSame DEF IInv, Locals, Look
<1>1. /\ pc[t] = "slot" /\ reg' = [reg EXCEPT ![t] = [reg[t] EXCEPT !.ev = slot]]
      /\ pc' = [pc EXCEPT ![t] = IF slot.tag = "EMPTY" THEN "offer" ELSE "answer"]
      /\ UNCHANGED <<build, memory, slot, ebr, op, node, lost>>
      /\ slot.tag # "BUSY"
  BY DEF Look, At, Goto, Set
<1>2. /\ OnlyMoves(t) /\ reg'[t].ev = slot
      /\ pc'[t] = IF slot.tag = "EMPTY" THEN "offer" ELSE "answer"
  BY <1>0, <1>1 DEF OnlyMoves, TypeOK
<1>3. TypeOK'
  BY <1>0, <1>1 DEF TypeOK, memory, EbrOnly
<1>4. slot.tag \in {"EMPTY", "WAITING"}
  BY <1>0, <1>1 DEF TypeOK, Words
<1>5. LocalsOf(t)' /\ ProtectedOf(t)' /\ Holds(t)' = Holds(t)
  BY <1>0, <1>1, <1>2, <1>4
     DEF LocalsOf, ProtectedOf, Reading, Holds, Owning, Exchanging, Emptied
<1> QED
  BY <1>0, <1>1, <1>2, <1>3, <1>5, QuietStep DEF Owning

(* The owner of the slot goes on to withdraw or to take the answer. *)
LEMMA OwnerStep ==
    ASSUME IInv, NEW t \in Threads, Wait(t) \/ Late(t)
    PROVE  IInv'
<1>0. /\ TypeOK /\ LocalsOf(t) /\ SlotOwned /\ EbrOnly(t) /\ inside' = inside
      /\ t \in Owners
  BY EbrSame DEF IInv, Locals, Wait, Late, At, Owners, Owning
<1>1. /\ pc[t] \in {"wait", "late"}
      /\ \/ /\ slot.tag # "WAITING" /\ pc' = [pc EXCEPT ![t] = "take"]
            /\ reg' = [reg EXCEPT ![t] = [reg[t] EXCEPT !.ev = slot]]
         \/ /\ slot.tag = "WAITING" => slot.v = node[t]
            /\ pc' = [pc EXCEPT ![t] = "withdraw"] /\ reg' = reg
      /\ UNCHANGED <<build, memory, slot, ebr, op, node, lost>>
  BY <1>0 DEF Wait, Late, At, Goto, Set, SlotOwned
<1>2. /\ OnlyMoves(t) /\ pc'[t] \in {"take", "withdraw"}
      /\ pc'[t] = "take" => reg'[t].ev = slot /\ slot.tag # "WAITING"
      /\ pc'[t] = "withdraw" /\ slot.tag = "WAITING" => slot.v = node[t]
  BY <1>0, <1>1 DEF OnlyMoves, TypeOK
<1>3. TypeOK'
  <2>1. [reg[t] EXCEPT !.ev = slot] \in Regs
    BY <1>0, Typed DEF TypeOK, Regs
  <2>2. reg' \in [Threads -> Regs]
    BY <1>0, <1>1, <2>1, Typed
  <2>3. pc' \in [Threads -> Points]
    BY <1>0, <1>1, Typed DEF Points, Owning
  <2>4. UNCHANGED <<build, head, next, free, slot, inside, waits, op, node, lost>>
    BY <1>1 DEF memory, ebr
  <2> QED
    BY <1>0, <2>2, <2>3, <2>4 DEF TypeOK, Regs, Points, EbrOnly
<1>4. LocalsOf(t)' /\ ProtectedOf(t)' /\ Holds(t)' = Holds(t)
  BY <1>0, <1>1, <1>2 DEF LocalsOf, ProtectedOf, Reading, Holds, Owning, Exchanging
<1> QED
  BY <1>0, <1>1, <1>2, <1>3, <1>4, QuietStep DEF Owning
-----------------------------------------------------------------------------
(* The steps in the exchanger. *)
LEMMA ExchangeStep ==
    ASSUME IInv, NEW t \in Threads, OnlyMoves(t), UNCHANGED <<build, memory, ebr>>,
           pc[t] # "put", ~ Reading(t)', LocalsOf(t)',
           TypeOK', Emptied', Partition', SlotOwned'
    PROVE  IInv'
<1>0. /\ head' = head /\ next' = next /\ Straight' /\ EbrOnly(t)
      /\ inside' = inside /\ TypeOK
  BY EbrSame DEF memory, IInv, Straight
<1>1. Locals'
  BY <1>0, LocalsStep DEF IInv
<1>2. Listed' = Listed
  BY <1>0, ListedSame
<1>3. ASSUME NEW u \in Threads \ {t}, Reading(u)
      PROVE  Safe(u, reg[u].top)'
  BY <1>0, <1>2, <1>3, SafeKept DEF IInv, Protected, ProtectedOf
<1>4. Protected'
  BY <1>0, <1>3, ProtectedStep DEF IInv, ProtectedOf
<1> QED
  BY <1>0, <1>1, <1>4 DEF IInv

(* A call that does not own the slot keeps what it holds. *)
LEMMA HoldsStrangers ==
    ASSUME NEW t \in Threads, OnlyMoves(t), NEW u \in Threads \ {t}, u \notin Owners
    PROVE  Holds(u)' = Holds(u)
BY DEF OnlyMoves, Holds, Owners

LEMMA PartitionKept ==
    ASSUME Partition, UNCHANGED <<build, memory, ebr, lost>>,
           \A u \in Threads : Holds(u)' = Holds(u)
    PROVE  Partition'
<1>1. Hands' = Hands /\ Listed' = Listed /\ Ebr!Retired' = Ebr!Retired
  BY HandsKept, ListedSame DEF memory, ebr, Ebr!Retired
<1> QED
  BY <1>1 DEF Partition, memory

(* The end of an exchange that gave x. *)
LEMMA OverFacts ==
    ASSUME TypeOK, NEW t \in Threads, LocalsOf(t), NEW x \in Pointer,
           NEW timedOut \in BOOLEAN, Over(t, x, timedOut), pc[t] \in Exchanging,
           UNCHANGED <<build, memory, ebr, op, node>>, slot' \in Words
    PROVE  /\ OnlyMoves(t) /\ ~ Reading(t)' /\ LocalsOf(t)' /\ TypeOK'
           /\ pc'[t] \in {"exit", "load", "got"} /\ op[t] \in {"push", "pop"}
           /\ op[t] = "push" => /\ Holds(t)' = (IF x = NULL THEN NULL ELSE node[t])
                                /\ node[t] \in Nodes
           /\ op[t] = "pop"  => Holds(t)' = x /\ node[t] = NULL
           /\ lost' = IF timedOut /\ op[t] = "push" /\ x = NULL
                      THEN lost \cup {node[t]} ELSE lost
<1>0. /\ reg' = [reg EXCEPT ![t] = [NoRegs EXCEPT !.top =
                                       IF op[t] = "pop" THEN x ELSE NULL]]
      /\ pc' = [pc EXCEPT ![t] = IF op[t] = "push"
                                 THEN IF x = NULL THEN "exit" ELSE "load"
                                 ELSE IF x # NULL THEN "got" ELSE "load"]
      /\ lost' = IF timedOut /\ op[t] = "push" /\ x = NULL
                 THEN lost \cup {node[t]} ELSE lost
  BY DEF Over, Set, Goto, Handed
<1>1. op[t] \in {"push", "pop"} /\ pc[t] \notin {"idle", "enter"}
  BY DEF LocalsOf, TypeOK, Exchanging, Owning
<1>2. op[t] = "push" => node[t] \in Nodes
  BY <1>1 DEF LocalsOf, TypeOK, Pointer
<1>3. OnlyMoves(t)
  BY <1>0 DEF OnlyMoves, TypeOK
<1>4. /\ reg'[t].top = IF op[t] = "pop" THEN x ELSE NULL
      /\ pc'[t] = IF op[t] = "push" THEN IF x = NULL THEN "exit" ELSE "load"
                  ELSE IF x # NULL THEN "got" ELSE "load"
  BY <1>0 DEF TypeOK, NoRegs
<1>5. TypeOK'
  <2>1. [NoRegs EXCEPT !.top = IF op[t] = "pop" THEN x ELSE NULL] \in Regs
    BY Typed DEF NoRegs, Regs, Pointer
  <2> QED
    BY <1>0, <1>2, <2>1 DEF TypeOK, memory, ebr, Ebr!Retired, Regs
<1>6. LocalsOf(t)' /\ ~ Reading(t)'
  BY <1>1, <1>4 DEF LocalsOf, Reading, Exchanging, Owning, ebr
<1>7. /\ op[t] = "push" => Holds(t)' = (IF x = NULL THEN NULL ELSE node[t])
      /\ op[t] = "pop"  => Holds(t)' = x /\ node[t] = NULL
  BY <1>1, <1>4 DEF Holds, Owning, LocalsOf
<1> QED
  BY <1>0, <1>1, <1>2, <1>3, <1>4, <1>5, <1>6, <1>7

(* A push that gives up takes its node with it. *)
LEMMA PartitionOver ==
    ASSUME TypeOK, Partition, NEW t \in Threads, LocalsOf(t), pc[t] \in Exchanging,
           UNCHANGED <<build, memory, ebr, op, node>>, slot' \in Words,
           Over(t, NULL, TRUE), op[t] = "push" => Holds(t) = node[t],
           op[t] = "pop" => Holds(t) = NULL,
           \A u \in Threads \ {t} : Holds(u)' = Holds(u)
    PROVE  Partition'
<1>0. /\ op[t] \in {"push", "pop"}
      /\ op[t] = "push" => Holds(t)' = NULL /\ node[t] \in Nodes
                           /\ lost' = lost \cup {node[t]}
      /\ op[t] = "pop"  => Holds(t)' = NULL /\ lost' = lost
  BY OverFacts DEF Pointer
<1>1. CASE op[t] = "pop"
  BY <1>0, <1>1, PartitionKept
<1>2. CASE op[t] = "push"
  <2>1. /\ Hands' = Hands \ {node[t]} /\ node[t] \in Hands
        /\ \A u, w \in Threads : Holds(u)' = Holds(w)' /\ Holds(u)' # NULL => u = w
    BY <1>0, <1>2, HandsDrop
  <2>2. Listed' = Listed /\ Ebr!Retired' = Ebr!Retired /\ free' = free
    BY ListedSame DEF memory, ebr, Ebr!Retired
  <2>3. build = "ELIMINATION"
    BY DEF LocalsOf
  <2> QED
    BY <1>0, <1>2, <2>1, <2>2, <2>3 DEF Partition
<1> QED
  BY <1>0, <1>1, <1>2
(* The owners of the slot stay the same. *)
LEMMA SlotKept ==
    ASSUME SlotOwned, NEW t \in Threads, OnlyMoves(t), slot' = slot,
           pc[t] \notin Owning, pc'[t] \notin Owning
    PROVE  SlotOwned'
<1>1. Owners' = Owners
  BY DEF Owners, OnlyMoves
<1> QED
  BY <1>1 DEF SlotOwned, OnlyMoves, Owners

LEMMA TimeoutStep ==
    ASSUME IInv, NEW t \in Threads, Timeout(t)
    PROVE  IInv'
<1>0. TypeOK /\ LocalsOf(t) /\ Partition /\ SlotOwned /\ Emptied
  BY DEF IInv, Locals
<1>1. /\ pc[t] = "slot" /\ Over(t, NULL, TRUE) /\ slot' = slot /\ slot' \in Words
      /\ UNCHANGED <<build, memory, ebr, op, node>>
      /\ pc[t] \in Exchanging /\ NULL \in Pointer
  BY <1>0 DEF Timeout, At, TypeOK, Exchanging, Pointer
<1>2. /\ OnlyMoves(t) /\ ~ Reading(t)' /\ LocalsOf(t)' /\ TypeOK'
      /\ pc'[t] \in {"exit", "load", "got"}
  BY <1>0, <1>1, OverFacts
<1>3. \A u \in Threads \ {t} : Holds(u)' = Holds(u)
  BY <1>1, <1>2, HoldsOthers
<1>4. Partition'
  <2>1. /\ op[t] = "push" => Holds(t) = node[t]
        /\ op[t] = "pop" => Holds(t) = NULL
    BY <1>1 DEF Holds, Owning
  <2> QED
    BY <1>0, <1>1, <1>3, <2>1, PartitionOver
<1>5. SlotOwned' /\ Emptied'
  BY <1>0, <1>1, <1>2, SlotKept DEF Owning, Emptied
<1> QED
  BY <1>1, <1>2, <1>4, <1>5, ExchangeStep

(* The slot is empty again once its one owner leaves it. *)
LEMMA SlotLeft ==
    ASSUME SlotOwned, NEW t \in Owners, OnlyMoves(t), slot' = Vacant,
           pc'[t] \notin Owning
    PROVE  /\ SlotOwned' /\ Emptied'
           /\ \A u \in Threads \ {t} : Holds(u)' = Holds(u)
<1>1. Owners = {t}
  BY DEF SlotOwned
<1>2. Owners' = {}
  BY <1>1 DEF Owners, OnlyMoves
<1>3. \A u \in Threads \ {t} : Holds(u)' = Holds(u)
  BY <1>1, HoldsStrangers DEF Owners
<1> QED
  BY <1>2, <1>3 DEF SlotOwned, Emptied, Vacant, Word

LEMMA WithdrawStep ==
    ASSUME IInv, NEW t \in Threads, Withdraw(t)
    PROVE  IInv'
<1>0. /\ TypeOK /\ LocalsOf(t) /\ Partition /\ SlotOwned /\ Emptied
      /\ pc[t] = "withdraw" /\ t \in Owners /\ pc[t] \in Exchanging
      /\ UNCHANGED <<build, memory, ebr, op, node>> /\ EbrOnly(t) /\ inside' = inside
  BY EbrSame DEF IInv, Locals, Withdraw, At, Owners, Owning, Exchanging
<1>1. CASE Unanswered(t)
  <2>1. /\ slot' = Vacant /\ Over(t, NULL, TRUE) /\ slot' \in Words
        /\ slot = Word(node[t], "WAITING") /\ NULL \in Pointer
    BY <1>1, Typed, <1>0 DEF Withdraw, Unanswered, Pointer
  <2>2. /\ OnlyMoves(t) /\ ~ Reading(t)' /\ LocalsOf(t)' /\ TypeOK'
        /\ pc'[t] \in {"exit", "load", "got"}
    BY <1>0, <2>1, OverFacts
  <2>3. /\ SlotOwned' /\ Emptied'
        /\ \A u \in Threads \ {t} : Holds(u)' = Holds(u)
    BY <1>0, <2>1, <2>2, SlotLeft DEF Owning
  <2>4. /\ op[t] = "push" => Holds(t) = node[t]
        /\ op[t] = "pop" => Holds(t) = NULL
    BY <1>0, <2>1 DEF Holds, Owning, Word
  <2>5. Partition'
    BY <1>0, <2>1, <2>3, <2>4, PartitionOver
  <2> QED
    BY <1>0, <2>2, <2>3, <2>5, ExchangeStep
<1>2. CASE ~ Unanswered(t)
  <2>1. /\ pc' = [pc EXCEPT ![t] = "late"]
        /\ UNCHANGED <<build, memory, slot, ebr, op, node, reg, lost>>
    BY <1>2 DEF Withdraw, Goto
  <2>2. OnlyMoves(t) /\ pc'[t] = "late"
    BY <1>0, <2>1 DEF OnlyMoves, TypeOK
  <2>3. TypeOK'
    BY <1>0, <2>1 DEF TypeOK, memory, EbrOnly, Owning
  <2>4. slot.tag # "WAITING"
    BY <1>0, <1>2 DEF SlotOwned, Unanswered, TypeOK, Words, Word
  <2>5. LocalsOf(t)' /\ ProtectedOf(t)' /\ Holds(t)' = Holds(t)
    BY <1>0, <2>1, <2>2 DEF LocalsOf, ProtectedOf, Reading, Holds, Owning, Exchanging
  <2> QED
    BY <1>0, <2>1, <2>2, <2>3, <2>4, <2>5, QuietStep DEF Owning
<1> QED
  BY <1>1, <1>2

LEMMA TakeStep ==
    ASSUME IInv, NEW t \in Threads, Take(t)
    PROVE  IInv'
<1>0. /\ TypeOK /\ LocalsOf(t) /\ Partition /\ SlotOwned /\ Emptied
      /\ pc[t] = "take" /\ t \in Owners /\ pc[t] \in Exchanging
      /\ UNCHANGED <<build, memory, ebr, op, node>>
      /\ slot' = Vacant /\ Vacant \in Words /\ Over(t, reg[t].ev.v, FALSE)
  BY Typed DEF IInv, Locals, Take, At, Owners, Owning, Exchanging
<1>1. /\ reg[t].ev = slot /\ slot \in Words /\ slot.tag = "BUSY"
      /\ reg[t].ev.v \in Pointer
  BY <1>0 DEF SlotOwned, TypeOK, Words
<1>2. /\ OnlyMoves(t) /\ ~ Reading(t)' /\ LocalsOf(t)' /\ TypeOK'
      /\ pc'[t] \in {"exit", "load", "got"} /\ op[t] \in {"push", "pop"}
      /\ op[t] = "push" => Holds(t)' = (IF slot.v = NULL THEN NULL ELSE node[t])
      /\ op[t] = "pop"  => Holds(t)' = slot.v
      /\ lost' = lost
  BY <1>0, <1>1, OverFacts
<1>3. /\ SlotOwned' /\ Emptied'
      /\ \A u \in Threads \ {t} : Holds(u)' = Holds(u)
  BY <1>0, <1>2, SlotLeft DEF Owning
<1>4. Holds(t)' = Holds(t)
  BY <1>0, <1>1, <1>2 DEF Holds, Owning, Word, Words
<1>5. Partition'
  BY <1>0, <1>2, <1>3, <1>4, PartitionKept
<1> QED
  BY <1>0, <1>2, <1>3, <1>5, ExchangeStep

LEMMA OfferStep ==
    ASSUME IInv, NEW t \in Threads, Offer(t)
    PROVE  IInv'
<1>0. /\ TypeOK /\ LocalsOf(t) /\ Partition /\ SlotOwned /\ Emptied
      /\ pc[t] = "offer" /\ reg[t].ev = Vacant /\ reg' = [reg EXCEPT ![t] = NoRegs]
      /\ UNCHANGED <<build, memory, ebr, op, node, lost>>
      /\ EbrOnly(t) /\ inside' = inside
  BY EbrSame DEF IInv, Locals, Offer, At, LocalsOf, Set
<1>1. CASE Seen(t)
  <2>1. /\ slot = Vacant /\ slot' = Word(node[t], "WAITING") /\ slot' \in Words
        /\ pc' = [pc EXCEPT ![t] = "wait"]
    BY <1>0, <1>1 DEF Offer, Seen, Goto, TypeOK, Word, Words
  <2>2. OnlyMoves(t) /\ pc'[t] = "wait"
    BY <1>0, <2>1 DEF OnlyMoves, TypeOK
  <2>3. TypeOK'
    BY <1>0, <2>1, Typed DEF TypeOK, memory, EbrOnly, Owning, Regs
  <2>4. Owners = {}
    BY <1>0, <2>1 DEF SlotOwned, Vacant, Word
  <2>5. Owners' = {t}
    BY <2>2, <2>4 DEF Owners, OnlyMoves, Owning
  <2>6. SlotOwned' /\ Emptied'
    BY <1>0, <2>1, <2>2, <2>5 DEF SlotOwned, Emptied, Word
  <2>7. LocalsOf(t)' /\ ~ Reading(t)'
    BY <1>0, <2>1, <2>2 DEF LocalsOf, Reading, Owning, Exchanging, ebr
  <2>8. Holds(t)' = Holds(t)
    BY <1>0, <2>1, <2>2 DEF Holds, Owning, Word, LocalsOf, TypeOK
  <2>9. Partition'
    BY <1>0, <2>2, <2>4, <2>8, PartitionKept, HoldsStrangers
  <2> QED
    BY <1>0, <2>2, <2>3, <2>6, <2>7, <2>9, ExchangeStep
<1>2. CASE ~ Seen(t)
  <2>1. slot' = slot /\ pc' = [pc EXCEPT ![t] = "slot"]
    BY <1>2 DEF Offer, Goto
  <2>2. OnlyMoves(t) /\ pc'[t] = "slot"
    BY <1>0, <2>1 DEF OnlyMoves, TypeOK
  <2>3. TypeOK'
    BY <1>0, <2>1, Typed DEF TypeOK, memory, EbrOnly, Regs
  <2>4. LocalsOf(t)' /\ ProtectedOf(t)' /\ Holds(t)' = Holds(t)
    BY <1>0, <2>1, <2>2 DEF LocalsOf, ProtectedOf, Reading, Holds, Owning, Exchanging
  <2> QED
    BY <1>0, <2>1, <2>2, <2>3, <2>4, QuietStep DEF Owning
<1> QED
  BY <1>1, <1>2

(* An answer: the node of a push goes to the pop it met, and two calls of  *)
(* the same kind keep what they have.                                      *)
LEMMA AnswerStep ==
    ASSUME IInv, NEW t \in Threads, Answer(t)
    PROVE  IInv'
<1>0. /\ TypeOK /\ LocalsOf(t) /\ Partition /\ SlotOwned /\ Emptied
      /\ pc[t] = "answer" /\ reg[t].ev.tag = "WAITING" /\ pc[t] \in Exchanging
      /\ UNCHANGED <<build, memory, ebr, op, node>>
      /\ EbrOnly(t) /\ inside' = inside
      /\ \A u \in Threads : LocalsOf(u)
  BY EbrSame DEF IInv, Locals, Answer, At, LocalsOf, Exchanging
<1>1. CASE Seen(t)
  <2>1. /\ slot = reg[t].ev /\ slot' = Word(node[t], "BUSY") /\ slot' \in Words
        /\ Over(t, slot.v, FALSE) /\ slot.v \in Pointer
    <3>1. slot = reg[t].ev /\ slot' = Word(node[t], "BUSY") /\ Over(t, reg[t].ev.v, FALSE)
      BY <1>1 DEF Answer, Seen
    <3>2. slot' \in Words /\ slot.v \in Pointer
      BY <1>0, <3>1 DEF TypeOK, Word, Words
    <3> QED
      BY <3>1, <3>2
  <2>2. /\ OnlyMoves(t) /\ ~ Reading(t)' /\ LocalsOf(t)' /\ TypeOK'
        /\ pc'[t] \in {"exit", "load", "got"} /\ op[t] \in {"push", "pop"}
        /\ op[t] = "push" => /\ Holds(t)' = (IF slot.v = NULL THEN NULL ELSE node[t])
                             /\ node[t] \in Nodes
        /\ op[t] = "pop"  => Holds(t)' = slot.v /\ node[t] = NULL
        /\ lost' = lost
    BY <1>0, <2>1, OverFacts
  <2>3. PICK o \in Threads : Owners = {o} /\ o # t
    BY <1>0, <2>1 DEF SlotOwned, Owners, Owning
  <2>4. pc[o] \in {"wait", "withdraw"} /\ slot.v = node[o]
    BY <1>0, <2>1, <2>3 DEF SlotOwned
  <2>5. Owners' = {o}
    BY <2>2, <2>3 DEF Owners, OnlyMoves, Owning
  <2>6. SlotOwned' /\ Emptied'
    BY <2>1, <2>2, <2>3, <2>4, <2>5 DEF SlotOwned, Emptied, Word, OnlyMoves
  <2>7. \A u \in Threads \ {t, o} : Holds(u)' = Holds(u)
    BY <2>2, <2>3, HoldsStrangers
  <2>8. /\ op[o] = "push" => Holds(o) = node[o] /\ node[o] \in Nodes
        /\ op[o] # "push" => Holds(o) = NULL /\ node[o] = NULL
    BY <1>0, <2>1, <2>4 DEF Holds, Owning, Word, LocalsOf, TypeOK, Pointer
  <2>9. /\ op[o] = "push" => Holds(o)' = IF node[t] = NULL THEN NULL ELSE node[o]
        /\ op[o] # "push" => Holds(o)' = node[t]
    BY <2>1, <2>2, <2>3, <2>4 DEF Holds, Owning, Word, OnlyMoves
  <2>10. /\ op[t] = "push" => Holds(t) = node[t]
         /\ op[t] = "pop"  => Holds(t) = NULL
    BY <1>0 DEF Holds, Owning
  <2>11. Listed' = Listed /\ Ebr!Retired' = Ebr!Retired /\ free' = free
    BY <1>0, ListedSame DEF memory, ebr, Ebr!Retired
  <2>12. CASE (op[t] = "push") <=> (op[o] = "push")
    <3>1. Holds(t)' = Holds(t) /\ Holds(o)' = Holds(o)
      BY <2>2, <2>4, <2>8, <2>9, <2>10, <2>12, StackAssumption
    <3>2. Partition'
      BY <1>0, <2>2, <2>7, <3>1, PartitionKept
    <3> QED
      BY <1>0, <2>2, <2>6, <3>2, ExchangeStep
  <2>13. CASE op[t] = "push" /\ op[o] # "push"
    <3>1. /\ Hands' = Hands
          /\ \A u, w \in Threads : Holds(u)' = Holds(w)' /\ Holds(u)' # NULL => u = w
      BY <1>0, <2>2, <2>3, <2>4, <2>7, <2>8, <2>9, <2>10, <2>13, HandsPass
    <3>2. Partition'
      BY <1>0, <2>2, <2>11, <3>1 DEF Partition
    <3> QED
      BY <1>0, <2>2, <2>6, <3>2, ExchangeStep
  <2>14. CASE op[t] = "pop" /\ op[o] = "push"
    <3>1. /\ Hands' = Hands
          /\ \A u, w \in Threads : Holds(u)' = Holds(w)' /\ Holds(u)' # NULL => u = w
      BY <1>0, <2>2, <2>3, <2>4, <2>7, <2>8, <2>9, <2>10, <2>14, HandsPass
    <3>2. Partition'
      BY <1>0, <2>2, <2>11, <3>1 DEF Partition
    <3> QED
      BY <1>0, <2>2, <2>6, <3>2, ExchangeStep
  <2> QED
    BY <2>2, <2>12, <2>13, <2>14
<1>2. CASE ~ Seen(t)
  <2>1. /\ slot' = slot /\ pc' = [pc EXCEPT ![t] = "slot"] /\ lost' = lost
        /\ reg' = [reg EXCEPT ![t] = NoRegs]
    BY <1>2 DEF Answer, Goto, Set
  <2>2. OnlyMoves(t) /\ pc'[t] = "slot"
    BY <1>0, <2>1 DEF OnlyMoves, TypeOK
  <2>3. TypeOK'
    BY <1>0, <2>1, Typed DEF TypeOK, memory, EbrOnly, Regs
  <2>4. LocalsOf(t)' /\ ProtectedOf(t)' /\ Holds(t)' = Holds(t)
    BY <1>0, <2>1, <2>2 DEF LocalsOf, ProtectedOf, Reading, Holds, Owning, Exchanging
  <2> QED
    BY <1>0, <2>1, <2>2, <2>3, <2>4, QuietStep DEF Owning
<1> QED
  BY <1>1, <1>2
-----------------------------------------------------------------------------
(* The steps that move a node.  What a pop reads is in the stack, in limbo *)
(* on its behalf, or in the hands of the pop that took it out.             *)
LEMMA SafePlace ==
    ASSUME IInv, NEW u \in Threads, NEW n, Safe(u, n)
    PROVE  \/ n \in Listed
           \/ n \in Ebr!Retired /\ waits[n] # {}
           \/ \E w \in Threads : pc[w] = "put" /\ Holds(w) = n /\ n \in Hands
BY DEF Safe, IInv, Locals, LocalsOf, Holds, Hands

(* Writing the link of a node that is not in the stack. *)
LEMMA TouchStep ==
    ASSUME IInv, NEW x \in Nodes, NEW w, next' = [next EXCEPT ![x] = w],
           head' = head, x \notin Listed
    PROVE  /\ Listed' = Listed /\ Straight'
           /\ \A n \in Nodes \ {x} : next'[n] = next[n]
<1>1. \A n \in Nodes \ {x} : next'[n] = next[n]
  BY DEF IInv, TypeOK
<1>2. \A n \in Listed : next'[n] = next[n]
  BY <1>1, ChainClosed DEF Listed
<1>3. Chain(Nodes, next', head) = Listed
  BY <1>2, ChainFrame DEF Listed
<1>4. Acyclic(Nodes, next', head)
  BY <1>2, AcyclicFrame DEF Listed, IInv, Straight
<1> QED
  BY <1>1, <1>3, <1>4 DEF Listed, Straight

(* The others neither hold nor read a node that is free, or that t holds.  *)
LEMMA OthersElsewhere ==
    ASSUME IInv, NEW t \in Threads, NEW x \in Nodes,
           x \in free \/ (Holds(t) = x /\ pc[t] # "put"), NEW u \in Threads \ {t}
    PROVE  /\ pc[u] = "cas" /\ op[u] = "push" => node[u] \in Nodes \ {x}
           /\ Reading(u) => reg[u].top \in Nodes \ {x}
<1>0. Partition /\ TypeOK /\ LocalsOf(u) /\ ProtectedOf(u) /\ NULL \notin Nodes
  BY StackAssumption DEF IInv, Locals, Protected
<1>1. ASSUME pc[u] = "cas", op[u] = "push"
      PROVE  node[u] \in Nodes \ {x}
  <2>1. node[u] \in Nodes /\ Holds(u) = node[u]
    BY <1>0, <1>1 DEF LocalsOf, Holds, TypeOK, Pointer
  <2>2. node[u] \in Hands
    BY <1>0, <2>1 DEF Hands
  <2> QED
    BY <1>0, <2>1, <2>2 DEF Partition
<1>2. ASSUME Reading(u)
      PROVE  reg[u].top \in Nodes \ {x}
  <2>1. reg[u].top \in Nodes /\ Safe(u, reg[u].top)
    BY <1>0, <1>2 DEF LocalsOf, ProtectedOf, Reading, TypeOK, Pointer
  <2>2. Holds(t) = x => x \in Hands
    BY <1>0 DEF Hands
  <2> QED
    BY <1>0, <2>1, <2>2, SafePlace DEF Partition
<1> QED
  BY <1>1, <1>2

LEMMA StartPushStep ==
    ASSUME IInv, NEW t \in Threads, StartPush(t)
    PROVE  IInv'
<1>0. /\ TypeOK /\ LocalsOf(t) /\ Partition /\ SlotOwned /\ Emptied
      /\ EbrOnly(t) /\ t \in inside'
      /\ UNCHANGED <<build, head, slot, op, reg, lost>>
      /\ pc[t] = "idle" /\ pc' = [pc EXCEPT ![t] = "load"]
  BY EbrEnter DEF IInv, Locals, StartPush, At, Goto
<1>1. PICK n \in free : /\ node' = [node EXCEPT ![t] = n] /\ free' = free \ {n}
                        /\ next' = [next EXCEPT ![n] = NULL]
  BY DEF StartPush
<1>2. /\ OnlyMoves(t) /\ pc'[t] = "load" /\ node'[t] = n /\ op[t] = "push"
      /\ n \in Nodes /\ n # NULL
  BY <1>0, <1>1, StackAssumption DEF OnlyMoves, TypeOK, LocalsOf
<1>3. TypeOK'
  BY <1>0, <1>1, <1>2 DEF TypeOK, EbrOnly, Pointer
<1>4. n \notin Listed /\ n \notin Hands
  BY <1>0 DEF Partition
<1>5. /\ Listed' = Listed /\ Straight'
      /\ \A m \in Nodes \ {n} : next'[m] = next[m]
  BY <1>0, <1>1, <1>2, <1>4, TouchStep
<1>6. Locals'
  <2>1. LocalsOf(t)'
    BY <1>0, <1>2 DEF LocalsOf, Exchanging, Owning
  <2> QED
    BY <1>0, <1>2, <1>5, <2>1, OthersElsewhere, LocalsStep DEF IInv, EbrOnly
<1>7. Protected'
  <2>1. ASSUME NEW u \in Threads \ {t}, Reading(u)
        PROVE  /\ Safe(u, reg[u].top)'
               /\ next'[reg[u].top] = next[reg[u].top]
    <3>1. Safe(u, reg[u].top)'
      BY <1>0, <1>2, <1>5, <2>1, SafeKept DEF IInv, Protected, ProtectedOf
    <3>2. reg[u].top \in Nodes \ {n}
      BY <1>2, <2>1, OthersElsewhere
    <3> QED
      BY <1>5, <3>1, <3>2
  <2>2. ProtectedOf(t)'
    BY <1>0, <1>2 DEF ProtectedOf, Reading
  <2> QED
    BY <1>2, <2>1, <2>2, ProtectedStep DEF IInv
<1>8. Partition'
  <2>1. Holds(t) = NULL /\ Holds(t)' = n
    BY <1>0, <1>2 DEF Holds, Owning
  <2>2. /\ Hands' = Hands \cup {n}
        /\ \A u, w \in Threads : Holds(u)' = Holds(w)' /\ Holds(u)' # NULL => u = w
    BY <1>0, <1>2, <1>4, <2>1, HoldsOthers, HandsGain
  <2> QED
    BY <1>0, <1>1, <1>5, <2>2 DEF Partition, EbrOnly
<1>9. SlotOwned' /\ Emptied'
  BY <1>0, <1>2, SlotKept DEF Owning, Emptied
<1> QED
  BY <1>3, <1>5, <1>6, <1>7, <1>8, <1>9 DEF IInv

LEMMA LoadPushStep ==
    ASSUME IInv, NEW t \in Threads, Load(t), op[t] = "push"
    PROVE  IInv'
<1>0. /\ TypeOK /\ LocalsOf(t) /\ Partition /\ SlotOwned /\ Emptied
      /\ EbrOnly(t) /\ inside' = inside
      /\ UNCHANGED <<build, head, free, slot, op, node, lost>>
      /\ pc[t] = "load" /\ pc' = [pc EXCEPT ![t] = "cas"]
      /\ next' = [next EXCEPT ![node[t]] = head]
      /\ reg' = [reg EXCEPT ![t] = [reg[t] EXCEPT !.top = head]]
  BY EbrSame DEF IInv, Locals, Load, At, Goto, Set
<1>1. /\ OnlyMoves(t) /\ pc'[t] = "cas" /\ reg'[t].top = head
      /\ node[t] \in Nodes /\ Holds(t) = node[t] /\ Holds(t)' = node[t]
  BY <1>0 DEF OnlyMoves, TypeOK, LocalsOf, Pointer, Holds
<1>2. TypeOK'
  BY <1>0, <1>1 DEF TypeOK, EbrOnly, Pointer
<1>3. node[t] \in Hands /\ node[t] \notin Listed
  BY <1>0, <1>1, StackAssumption DEF Partition, Hands
<1>4. /\ Listed' = Listed /\ Straight'
      /\ \A m \in Nodes \ {node[t]} : next'[m] = next[m]
  BY <1>0, <1>1, <1>3, TouchStep
<1>5. Locals'
  <2>1. LocalsOf(t)'
    BY <1>0, <1>1 DEF LocalsOf, Exchanging, Owning, TypeOK
  <2> QED
    BY <1>0, <1>1, <1>4, <2>1, OthersElsewhere, LocalsStep DEF IInv
<1>6. Protected'
  <2>1. ASSUME NEW u \in Threads \ {t}, Reading(u)
        PROVE  /\ Safe(u, reg[u].top)'
               /\ next'[reg[u].top] = next[reg[u].top]
    <3>1. Safe(u, reg[u].top)'
      BY <1>0, <1>1, <1>4, <2>1, SafeKept DEF IInv, Protected, ProtectedOf
    <3>2. reg[u].top \in Nodes \ {node[t]}
      BY <1>0, <1>1, <2>1, OthersElsewhere
    <3> QED
      BY <1>4, <3>1, <3>2
  <2>2. ProtectedOf(t)'
    BY <1>0 DEF ProtectedOf, Reading
  <2> QED
    BY <1>1, <2>1, <2>2, ProtectedStep DEF IInv
<1>7. Partition'
  <2>1. Hands' = Hands /\ \A u \in Threads : Holds(u)' = Holds(u)
    BY <1>0, <1>1, HoldsOthers, HandsKept
  <2> QED
    BY <1>0, <1>4, <2>1 DEF Partition, EbrOnly
<1>8. SlotOwned' /\ Emptied'
  BY <1>0, <1>1, SlotKept DEF Owning, Emptied
<1> QED
  BY <1>2, <1>4, <1>5, <1>6, <1>7, <1>8 DEF IInv

(* The swap of a push: its node, whose link is the old head, becomes the   *)
(* first one.                                                              *)
LEMMA CasPushStep ==
    ASSUME IInv, NEW t \in Threads, Cas(t), Untouched(t), op[t] = "push"
    PROVE  IInv'
<1>0. /\ TypeOK /\ LocalsOf(t) /\ Partition /\ SlotOwned /\ Emptied
      /\ EbrOnly(t) /\ inside' = inside
      /\ UNCHANGED <<build, next, free, slot, ebr, op, node, lost>>
      /\ pc[t] = "cas" /\ pc' = [pc EXCEPT ![t] = "exit"]
      /\ reg' = [reg EXCEPT ![t] = NoRegs]
      /\ head' = node[t] /\ head = reg[t].top
  BY EbrSame DEF IInv, Locals, Cas, At, Goto, Set, Untouched
<1>1. /\ OnlyMoves(t) /\ pc'[t] = "exit"
      /\ node[t] \in Nodes /\ Holds(t) = node[t] /\ Holds(t)' = NULL
      /\ next[node[t]] = head
  BY <1>0 DEF OnlyMoves, TypeOK, LocalsOf, Pointer, Holds, Owning
<1>2. TypeOK'
  BY <1>0, <1>1, Typed DEF TypeOK, EbrOnly, Pointer, Regs
<1>3. node[t] \in Hands /\ node[t] \notin Listed
  BY <1>0, <1>1, StackAssumption DEF Partition, Hands
<1>4. Listed' = Listed \cup {node[t]} /\ Straight'
  <2>1. /\ Chain(Nodes, next, node[t]) = {node[t]} \cup Chain(Nodes, next, head)
        /\ Acyclic(Nodes, next, node[t])
    BY <1>1, <1>3, ChainPush DEF Listed, IInv, Straight
  <2> QED
    BY <1>0, <2>1 DEF Listed, Straight
<1>5. Locals'
  <2>1. LocalsOf(t)'
    BY <1>0, <1>1 DEF LocalsOf, Exchanging, Owning
  <2> QED
    BY <1>0, <1>1, <2>1, LocalsStep DEF IInv
<1>6. Protected'
  <2>1. ASSUME NEW u \in Threads \ {t}, Reading(u)
        PROVE  Safe(u, reg[u].top)'
    BY <1>0, <1>1, <1>4, <2>1, SafeKept DEF IInv, Protected, ProtectedOf
  <2>2. ProtectedOf(t)'
    BY <1>1 DEF ProtectedOf, Reading
  <2> QED
    BY <1>0, <1>1, <2>1, <2>2, ProtectedStep DEF IInv
<1>7. Partition'
  <2>1. /\ Hands' = Hands \ {node[t]}
        /\ \A u, w \in Threads : Holds(u)' = Holds(w)' /\ Holds(u)' # NULL => u = w
    BY <1>0, <1>1, HoldsOthers, HandsDrop
  <2> QED
    BY <1>0, <1>3, <1>4, <2>1 DEF Partition, EbrOnly
<1>8. SlotOwned' /\ Emptied'
  BY <1>0, <1>1, SlotKept DEF Owning, Emptied
<1> QED
  BY <1>2, <1>4, <1>5, <1>6, <1>7, <1>8 DEF IInv

(* The swap of a pop: the next word it read is still the one of the head,  *)
(* which it now holds.                                                     *)
LEMMA CasPopStep ==
    ASSUME IInv, NEW t \in Threads, Cas(t), Untouched(t), op[t] # "push"
    PROVE  IInv'
<1>0. /\ TypeOK /\ LocalsOf(t) /\ Partition /\ SlotOwned /\ Emptied
      /\ ProtectedOf(t) /\ EbrOnly(t) /\ inside' = inside
      /\ UNCHANGED <<build, next, free, slot, ebr, op, node, reg, lost>>
      /\ pc[t] = "cas" /\ pc' = [pc EXCEPT ![t] = "put"] /\ op[t] = "pop"
      /\ head' = reg[t].next /\ head = reg[t].top
  BY EbrSame DEF IInv, Locals, Protected, Cas, At, Goto, Untouched
<1>1. /\ OnlyMoves(t) /\ pc'[t] = "put" /\ head \in Nodes
      /\ head' = next[head] /\ Holds(t) = NULL /\ Holds(t)' = head
  BY <1>0 DEF OnlyMoves, TypeOK, LocalsOf, ProtectedOf, Reading, Pointer, Holds, Owning
<1>2. TypeOK'
  BY <1>0, <1>1 DEF TypeOK, EbrOnly
<1>3. Listed' = Listed \ {head} /\ head \in Listed /\ Straight'
  <2>1. /\ head \in Chain(Nodes, next, head)
        /\ Chain(Nodes, next, next[head]) = Chain(Nodes, next, head) \ {head}
        /\ Acyclic(Nodes, next, next[head])
    BY <1>1, ChainPop DEF IInv, Straight
  <2> QED
    BY <1>0, <1>1, <2>1 DEF Listed, Straight
<1>4. Locals'
  <2>1. LocalsOf(t)'
    BY <1>0, <1>1 DEF LocalsOf, Exchanging, Owning
  <2> QED
    BY <1>0, <1>1, <2>1, LocalsStep DEF IInv
<1>5. Protected'
  <2>1. ASSUME NEW u \in Threads \ {t}, Reading(u)
        PROVE  Safe(u, reg[u].top)'
    <3>1. Safe(u, reg[u].top)
      BY <2>1 DEF IInv, Protected, ProtectedOf
    <3>2. CASE reg[u].top = head
      BY <1>0, <1>1, <3>2 DEF Safe
    <3>3. CASE reg[u].top # head
      BY <1>0, <1>1, <1>3, <3>1, <3>3 DEF Safe, OnlyMoves, ebr, Ebr!Retired
    <3> QED
      BY <3>2, <3>3
  <2>2. ProtectedOf(t)'
    BY <1>1 DEF ProtectedOf, Reading
  <2> QED
    BY <1>0, <1>1, <2>1, <2>2, ProtectedStep DEF IInv
<1>6. Partition'
  <2>1. head \notin Hands
    BY <1>0, <1>3 DEF Partition
  <2>2. /\ Hands' = Hands \cup {head}
        /\ \A u, w \in Threads : Holds(u)' = Holds(w)' /\ Holds(u)' # NULL => u = w
    BY <1>0, <1>1, <2>1, HoldsOthers, HandsGain
  <2> QED
    BY <1>0, <1>3, <2>2 DEF Partition, EbrOnly
<1>7. SlotOwned' /\ Emptied'
  BY <1>0, <1>1, SlotKept DEF Owning, Emptied
<1> QED
  BY <1>2, <1>3, <1>4, <1>5, <1>6, <1>7 DEF IInv

(* The pop retires the node: every pop that may read it is inside.         *)
LEMMA PutStep ==
    ASSUME IInv, NEW t \in Threads, Put(t)
    PROVE  IInv'
<1> DEFINE n == reg[t].top
<1>0. /\ TypeOK /\ LocalsOf(t) /\ Partition /\ SlotOwned /\ Emptied
      /\ UNCHANGED <<build, head, next, free, slot, op, node, lost>>
      /\ pc[t] = "put" /\ pc' = [pc EXCEPT ![t] = "exit"]
      /\ reg' = [reg EXCEPT ![t] = NoRegs]
      /\ inside' = inside /\ Ebr!Retired' = Ebr!Retired \cup {n}
      /\ waits' = [m \in Ebr!Retired \cup {n} |->
                      IF m \in Ebr!Retired THEN waits[m] ELSE inside]
  BY DEF IInv, Locals, Put, Discard, Ebr!Retire, Ebr!Retired, At, Goto, Set
<1>1. /\ OnlyMoves(t) /\ pc'[t] = "exit" /\ op[t] = "pop"
      /\ n \in Nodes /\ Holds(t) = n /\ Holds(t)' = NULL
  BY <1>0 DEF OnlyMoves, TypeOK, LocalsOf, Pointer, Holds, Owning
<1>2. TypeOK'
  BY <1>0, <1>1, Typed DEF TypeOK, Pointer, Regs
<1>3. Listed' = Listed /\ Straight'
  BY <1>0, ListedSame DEF IInv, Straight
<1>4. n \in Hands /\ n \notin Ebr!Retired
  BY <1>0, <1>1, StackAssumption DEF Partition, Hands
<1>5. Locals'
  <2>1. LocalsOf(t)'
    BY <1>0, <1>1 DEF LocalsOf, Exchanging, Owning
  <2> QED
    BY <1>0, <1>1, <2>1, LocalsStep DEF IInv
<1>6. Protected'
  <2>1. ASSUME NEW u \in Threads \ {t}, Reading(u)
        PROVE  Safe(u, reg[u].top)'
    <3>1. Safe(u, reg[u].top) /\ u \in inside /\ reg'[u].top = reg[u].top
      BY <1>1, <2>1
         DEF IInv, Protected, ProtectedOf, Locals, LocalsOf, Reading, OnlyMoves
    <3>2. CASE reg[u].top = n
      BY <1>0, <1>4, <3>1, <3>2 DEF Safe
    <3>3. CASE reg[u].top # n
      BY <1>0, <1>1, <1>3, <3>1, <3>3 DEF Safe, OnlyMoves
    <3> QED
      BY <3>2, <3>3
  <2>2. ProtectedOf(t)'
    BY <1>1 DEF ProtectedOf, Reading
  <2> QED
    BY <1>0, <1>1, <2>1, <2>2, ProtectedStep DEF IInv
<1>7. Partition'
  <2>1. /\ Hands' = Hands \ {n}
        /\ \A u, w \in Threads : Holds(u)' = Holds(w)' /\ Holds(u)' # NULL => u = w
    BY <1>0, <1>1, HoldsOthers, HandsDrop
  <2> QED
    BY <1>0, <1>3, <1>4, <2>1 DEF Partition
<1>8. SlotOwned' /\ Emptied'
  BY <1>0, <1>1, SlotKept DEF Owning, Emptied
<1> QED
  BY <1>2, <1>3, <1>5, <1>6, <1>7, <1>8 DEF IInv

(* A pop frees the node an exchange gave it: no other call has it. *)
LEMMA GotStep ==
    ASSUME IInv, NEW t \in Threads, Got(t)
    PROVE  IInv'
<1> DEFINE n == reg[t].top
<1>0. /\ TypeOK /\ LocalsOf(t) /\ Partition /\ SlotOwned /\ Emptied
      /\ EbrOnly(t) /\ inside' = inside
      /\ UNCHANGED <<build, head, slot, op, node, lost>>
      /\ pc[t] = "got" /\ pc' = [pc EXCEPT ![t] = "exit"]
      /\ reg' = [reg EXCEPT ![t] = NoRegs]
      /\ free' = free \cup {n} /\ next' = [next EXCEPT ![n] = NULL]
  BY EbrSame DEF IInv, Locals, Got, At, Goto, Set
<1>1. /\ OnlyMoves(t) /\ pc'[t] = "exit" /\ op[t] = "pop"
      /\ n \in Nodes /\ Holds(t) = n /\ Holds(t)' = NULL
  BY <1>0 DEF OnlyMoves, TypeOK, LocalsOf, Pointer, Holds, Owning
<1>2. TypeOK'
  BY <1>0, <1>1, Typed DEF TypeOK, EbrOnly, Pointer, Regs
<1>3. n \in Hands /\ n \notin Listed
  BY <1>0, <1>1, StackAssumption DEF Partition, Hands
<1>4. /\ Listed' = Listed /\ Straight'
      /\ \A m \in Nodes \ {n} : next'[m] = next[m]
  BY <1>0, <1>1, <1>3, TouchStep
<1>5. Locals'
  <2>1. LocalsOf(t)'
    BY <1>0, <1>1 DEF LocalsOf, Exchanging, Owning
  <2> QED
    BY <1>0, <1>1, <1>4, <2>1, OthersElsewhere, LocalsStep DEF IInv
<1>6. Protected'
  <2>1. ASSUME NEW u \in Threads \ {t}, Reading(u)
        PROVE  /\ Safe(u, reg[u].top)'
               /\ next'[reg[u].top] = next[reg[u].top]
    <3>1. Safe(u, reg[u].top)'
      BY <1>0, <1>1, <1>4, <2>1, SafeKept DEF IInv, Protected, ProtectedOf
    <3>2. reg[u].top \in Nodes \ {n}
      BY <1>0, <1>1, <2>1, OthersElsewhere
    <3> QED
      BY <1>4, <3>1, <3>2
  <2>2. ProtectedOf(t)'
    BY <1>1 DEF ProtectedOf, Reading
  <2> QED
    BY <1>1, <2>1, <2>2, ProtectedStep DEF IInv
<1>7. Partition'
  <2>1. /\ Hands' = Hands \ {n}
        /\ \A u, w \in Threads : Holds(u)' = Holds(w)' /\ Holds(u)' # NULL => u = w
    BY <1>0, <1>1, HoldsOthers, HandsDrop
  <2> QED
    BY <1>0, <1>3, <1>4, <2>1 DEF Partition, EbrOnly
<1>8. SlotOwned' /\ Emptied'
  BY <1>0, <1>1, SlotKept DEF Owning, Emptied
<1> QED
  BY <1>2, <1>4, <1>5, <1>6, <1>7, <1>8 DEF IInv

(* The collector frees a node no grace period holds back. *)
LEMMA CollectStep ==
    ASSUME IInv, NEW n \in Nodes, Collect(n)
    PROVE  IInv'
<1>0. /\ TypeOK /\ Locals /\ Partition /\ SlotOwned /\ Emptied /\ Protected
      /\ UNCHANGED <<build, head, slot, pc, op, node, reg, lost>>
      /\ free' = free \cup {n} /\ next' = [next EXCEPT ![n] = NULL]
      /\ inside' = inside /\ n \in Ebr!Retired /\ waits[n] = {}
      /\ waits' = [m \in Ebr!Retired \ {n} |-> waits[m]]
      /\ Ebr!Retired' = Ebr!Retired \ {n}
  BY DEF IInv, Collect, Ebr!Collect, Ebr!Retired
<1>1. TypeOK'
  BY <1>0 DEF TypeOK, Pointer
<1>2. /\ Listed' = Listed /\ Straight'
      /\ \A m \in Nodes \ {n} : next'[m] = next[m]
  BY <1>0, TouchStep DEF Partition
<1>3. Hands' = Hands /\ \A u \in Threads : Holds(u)' = Holds(u)
  BY <1>0 DEF Hands, Holds
<1>4. Partition'
  BY <1>0, <1>2, <1>3 DEF Partition
<1>5. SlotOwned' /\ Emptied'
  BY <1>0 DEF SlotOwned, Emptied, Owners
<1>6. ASSUME NEW u \in Threads
      PROVE  LocalsOf(u)'
  <2>1. pc[u] = "cas" /\ op[u] = "push" => node[u] \in Nodes \ {n}
    <3>1. ASSUME pc[u] = "cas", op[u] = "push"
          PROVE  node[u] \in Hands /\ node[u] \in Nodes
      BY <1>0, <3>1 DEF Locals, LocalsOf, Holds, Hands, TypeOK, Pointer
    <3> QED
      BY <1>0, <3>1 DEF Partition
  <2> QED
    BY <1>0, <1>2, <2>1 DEF Locals, LocalsOf
<1>7. ASSUME NEW u \in Threads
      PROVE  ProtectedOf(u)'
  <2>1. ASSUME Reading(u)
        PROVE  reg[u].top \in Nodes \ {n} /\ Safe(u, reg[u].top)
    <3>1. reg[u].top \in Nodes /\ Safe(u, reg[u].top)
      BY <1>0, <2>1
         DEF Locals, LocalsOf, Protected, ProtectedOf, Reading, TypeOK, Pointer
    <3> QED
      BY <1>0, <3>1, SafePlace DEF Partition
  <2>2. ASSUME Reading(u)
        PROVE  Safe(u, reg[u].top)'
    BY <1>0, <1>2, <2>1, <2>2 DEF Safe
  <2> QED
    BY <1>0, <1>2, <2>1, <2>2 DEF Protected, ProtectedOf, Reading
<1> QED
  BY <1>0, <1>1, <1>2, <1>4, <1>5, <1>6, <1>7 DEF IInv, Locals, Protected

LEMMA DestroyStep ==
    ASSUME IInv, Destroy
    PROVE  IInv'
<1>0. /\ TypeOK /\ Locals /\ Partition /\ SlotOwned /\ Emptied
      /\ UNCHANGED <<next, slot, inside, pc, op, node, reg, lost>>
      /\ free' = free \cup Listed \cup Ebr!Retired
      /\ waits' = <<>> /\ head' = NULL /\ build' = "none"
      /\ \A t \in Threads : pc[t] = "idle"
  BY DEF IInv, Destroy
<1>1. Listed \subseteq Nodes /\ Ebr!Retired' = {}
  BY <1>0, ChainClosed DEF Listed, Ebr!Retired
<1>2. TypeOK'
  BY <1>0, <1>1 DEF TypeOK, Pointer
<1>3. Listed' = {} /\ Straight'
  BY <1>0, ChainEmpty, StackAssumption DEF Listed, Straight, Acyclic
<1>4. Hands' = Hands /\ \A u \in Threads : Holds(u)' = Holds(u)
  BY <1>0 DEF Hands, Holds
<1>5. Partition'
  BY <1>0, <1>1, <1>3, <1>4 DEF Partition
<1>6. SlotOwned' /\ Emptied'
  BY <1>0 DEF SlotOwned, Emptied, Owners
<1>7. Locals' /\ Protected'
  BY <1>0 DEF Locals, LocalsOf, Protected, ProtectedOf, Reading, Exchanging, Owning
<1> QED
  BY <1>2, <1>3, <1>5, <1>6, <1>7 DEF IInv

-----------------------------------------------------------------------------
LEMMA InitIInv == Init => IInv
<1> SUFFICES ASSUME Init PROVE IInv
  OBVIOUS
<1>0. Ebr!Retired = {} /\ inside = {} /\ NoRegs \in Regs /\ Vacant \in Words
  BY DEF Init, Ebr!Init, Ebr!Retired, NoRegs, Regs, Vacant, Word, Words, Pointer
<1>1. TypeOK
  BY <1>0 DEF Init, TypeOK, Pointer, Regs
<1>2. Listed = {} /\ Straight
  BY ChainEmpty, StackAssumption DEF Init, Listed, Straight, Acyclic
<1>3. Hands = {} /\ Owners = {} /\ \A t \in Threads : Holds(t) = NULL
  BY DEF Init, Hands, Owners, Owning, Holds
<1>4. Partition /\ SlotOwned /\ Emptied
  BY <1>0, <1>2, <1>3 DEF Init, Partition, SlotOwned, Emptied, Vacant, Word
<1>5. Locals /\ Protected
  BY DEF Init, Locals, LocalsOf, Protected, ProtectedOf, Reading, Exchanging, Owning
<1> QED
  BY <1>1, <1>2, <1>4, <1>5 DEF IInv

LEMMA StepIInv == IInv /\ [Next]_vars => IInv'
<1> SUFFICES ASSUME IInv, [Next]_vars PROVE IInv'
  OBVIOUS
<1>1. ASSUME NEW t \in Threads, StartPush(t) \/ StartPop(t) \/ Load(t) \/ LoadNext(t)
      PROVE  IInv'
  BY <1>1, StartPushStep, StartPopStep, LoadPushStep, LoadPopStep, LoadNextStep
<1>2. ASSUME NEW t \in Threads, Cas(t) \/ Put(t) \/ Exit(t) \/ Peek(t)
      PROVE  IInv'
  BY <1>2, CasPushStep, CasPopStep, CasLostStep, PutStep, ExitStep
<1>3. ASSUME NEW t \in Threads, StartTop(t) \/ EnterTop(t) \/ Got(t)
      PROVE  IInv'
  BY <1>3, StartTopStep, EnterTopStep, GotStep
<1>4. ASSUME NEW t \in Threads,
             \/ Timeout(t) \/ Look(t) \/ Offer(t) \/ Answer(t)
             \/ Wait(t) \/ Withdraw(t) \/ Late(t) \/ Take(t)
      PROVE  IInv'
  BY <1>4, TimeoutStep, LookStep, OfferStep, AnswerStep, OwnerStep, WithdrawStep,
     TakeStep
<1>5. CASE UNCHANGED vars
  <2>1. /\ Listed' = Listed /\ Owners' = Owners /\ Hands' = Hands
        /\ Ebr!Retired' = Ebr!Retired /\ \A t \in Threads : Holds(t)' = Holds(t)
    BY <1>5 DEF vars, memory, ebr, Listed, Owners, Hands, Holds, Ebr!Retired
  <2>2. TypeOK' /\ Emptied' /\ Straight' /\ Partition' /\ SlotOwned'
    BY <1>5, <2>1
       DEF vars, memory, ebr, IInv, TypeOK, Emptied, Straight, Partition, SlotOwned
  <2>3. Locals' /\ Protected'
    BY <1>5, <2>1
       DEF vars, memory, ebr, IInv, Locals, LocalsOf, Protected, ProtectedOf, Reading,
           Safe
  <2> QED
    BY <2>2, <2>3 DEF IInv
<1> QED
  BY <1>1, <1>2, <1>3, <1>4, <1>5, CollectStep, DestroyStep DEF Next, Step

(* The inductive invariant holds in every reachable state. *)
THEOREM Invariance == Spec => []IInv
<1> QED
  BY InitIInv, StepIInv, PTL DEF Spec

(* Every node is in one place: none is lost but by a timed-out exchange,   *)
(* none is handed to two calls or freed twice.                             *)
THEOREM NothingDoubled == Spec => []Conservation
<1>1. IInv => Conservation
  BY DEF IInv, Conservation
<1> QED
  BY <1>1, Invariance, PTL

(* A slot in use has one owner, and nobody but the owner empties it.       *)
THEOREM OneOwner == Spec => []SlotOwned
<1>1. IInv => SlotOwned
  BY DEF IInv
<1> QED
  BY <1>1, Invariance, PTL

(* No push or pop touches a node that is free, although a node that        *)
(* changes hands in the exchanger is freed at once.                        *)
THEOREM MemorySafety == Spec => []NoUseAfterFree
<1>1. ASSUME IInv, NEW t \in Threads, pc[t] \in {"next", "put", "got"}
      PROVE  reg[t].top \notin free
  <2>1. CASE pc[t] = "next"
    <3>1. Safe(t, reg[t].top)
      BY <1>1, <2>1
         DEF IInv, Locals, LocalsOf, Protected, ProtectedOf, Reading
    <3> QED
      BY <1>1, <3>1, SafePlace DEF IInv, Partition
  <2>2. CASE pc[t] \in {"put", "got"}
    <3>1. Holds(t) = reg[t].top /\ Holds(t) \in Hands
      BY <1>1, <2>2 DEF IInv, Locals, LocalsOf, Holds, Hands
    <3> QED
      BY <1>1, <3>1 DEF IInv, Partition
  <2> QED
    BY <1>1, <2>1, <2>2
<1>2. IInv => NoUseAfterFree
  BY <1>1 DEF NoUseAfterFree
<1> QED
  BY <1>2, Invariance, PTL

-----------------------------------------------------------------------------
(* The order of the nodes on a chain, and how a step changes it. *)
Order(succ, from) ==
    LET path == Path(Nodes, succ, from)
    IN  [k \in 1 .. PathLength(Nodes, succ, from) |-> path[k - 1]]

LEMMA OrderFrame ==
    ASSUME IInv, NEW succ, \A n \in Listed : succ[n] = next[n]
    PROVE  Order(succ, head) = Contents
<1>1. /\ Acyclic(Nodes, next, head)
      /\ \A n \in Chain(Nodes, next, head) : succ[n] = next[n]
  BY DEF IInv, Straight, Listed
<1>2. /\ PathLength(Nodes, next, head) \in Nat
      /\ PathLength(Nodes, succ, head) = PathLength(Nodes, next, head)
  BY <1>1, FiniteAssumption, LengthDef, PathRank, PathFrameLength
<1>3. \A k \in Nat : Path(Nodes, succ, head)[k] = Path(Nodes, next, head)[k]
  BY <1>1, PathFrame
<1> QED
  BY <1>2, <1>3 DEF Order, Contents, Height

LEMMA OrderPush ==
    ASSUME NEW n \in Nodes, Acyclic(Nodes, next, next[n]),
           n \notin Chain(Nodes, next, next[n])
    PROVE  /\ Order(next, n) = <<n>> \o Order(next, next[n])
           /\ Order(next, n) # <<>>
           /\ Order(next, next[n]) = Tail(Order(next, n))
<1> DEFINE h == PathLength(Nodes, next, next[n])
           u == Order(next, n)
           w == Order(next, next[n])
           P == {u[k] : k \in 1 .. h + 1}
<1>1. /\ h \in Nat /\ PathLength(Nodes, next, n) = h + 1
      /\ Path(Nodes, next, n)[0] = n
      /\ \A k \in Nat : Path(Nodes, next, n)[k + 1] = Path(Nodes, next, next[n])[k]
  BY FiniteAssumption, PathPush
<1>2. /\ u = [k \in 1 .. h + 1 |-> Path(Nodes, next, n)[k - 1]]
      /\ w = [k \in 1 .. h |-> Path(Nodes, next, next[n])[k - 1]]
  BY <1>1 DEF Order
<1> HIDE DEF h, u, w
<1>3. u[1] = n
  BY <1>1, <1>2
<1>4. ASSUME NEW k \in 1 .. h
      PROVE  u[k + 1] = w[k]
  <2>1. k - 1 \in Nat /\ (k - 1) + 1 = k /\ (k + 1) - 1 = k /\ k + 1 \in 1 .. h + 1
    BY <1>1
  <2>2. u[k + 1] = Path(Nodes, next, n)[k]
    BY <1>2, <2>1
  <2>3. w[k] = Path(Nodes, next, next[n])[k - 1]
    BY <1>2
  <2> QED
    BY <1>1, <2>1, <2>2, <2>3
<1>5. u \in [1 .. h + 1 -> P]
  <2>1. DOMAIN u = 1 .. h + 1 /\ u = [k \in 1 .. h + 1 |-> u[k]]
    BY <1>2
  <2>2. \A k \in 1 .. h + 1 : u[k] \in P
    OBVIOUS
  <2> QED
    BY <2>1, <2>2
<1>6. w \in [1 .. h -> P]
  <2>1. DOMAIN w = 1 .. h /\ w = [k \in 1 .. h |-> w[k]]
    BY <1>2
  <2>2. \A k \in 1 .. h : k + 1 \in 1 .. h + 1
    BY <1>1
  <2>3. \A k \in 1 .. h : w[k] \in P
    BY <1>4, <2>2
  <2> QED
    BY <2>1, <2>3
<1> HIDE DEF P
<1>7. u = <<u[1]>> \o w /\ u # <<>> /\ w = Tail(u)
  <2>1. h \in Nat /\ \A k \in 1 .. h : u[k + 1] = w[k]
    BY <1>1, <1>4
  <2> HIDE <1>1, <1>4
  <2> QED
    BY <2>1, <1>5, <1>6, SequencePush
<1> QED
  BY <1>3, <1>7 DEF u, w

LEMMA OrderEmpty ==
    ASSUME NEW succ, NEW from, from \notin Nodes
    PROVE  Order(succ, from) = <<>>
<1>1. Chain(Nodes, succ, from) = {} /\ Acyclic(Nodes, succ, from)
  BY ChainEmpty DEF Acyclic
<1>2. PathLength(Nodes, succ, from) = 0
  BY <1>1, FiniteAssumption, LengthDef, FS_EmptySet
<1> QED
  BY <1>2 DEF Order

(* A node that is free, in limbo or in hand is not in the stack, so that   *)
(* writing its link leaves the stack as it is.                             *)
LEMMA OrderTouch ==
    ASSUME IInv, NEW n, n \notin Listed, NEW w, next' = [next EXCEPT ![n] = w],
           head' = head
    PROVE  Contents' = Contents
<1>1. \A m \in Listed : next'[m] = next[m]
  BY ChainClosed DEF IInv, TypeOK, Listed
<1>2. Order(next', head) = Contents
  BY <1>1, OrderFrame
<1>3. Contents' = Order(next', head')
  BY DEF Contents, Height, Order
<1> QED
  BY <1>2, <1>3

LEMMA OrderSame ==
    ASSUME UNCHANGED <<head, next>>
    PROVE  Contents' = Contents
<1>1. Contents = Order(next, head) /\ Contents' = Order(next', head')
  BY DEF Contents, Height, Order
<1> QED
  BY <1>1

(* The steps that change the stack, and the steps that write a link. *)
LEMMA CasOrder ==
    ASSUME IInv, NEW t \in Threads, Cas(t)
    PROVE  Lifo!Push \/ Lifo!Pop \/ Contents' = Contents
<1>0. /\ TypeOK /\ LocalsOf(t) /\ Partition /\ ProtectedOf(t) /\ Straight
      /\ pc[t] = "cas" /\ next' = next
  BY DEF IInv, Locals, Protected, Cas, At
<1>1. CASE ~ Untouched(t)
  BY <1>0, <1>1, OrderSame DEF Cas
<1>2. CASE Untouched(t) /\ op[t] = "push"
  <2>1. /\ node[t] \in Nodes /\ Holds(t) = node[t]
        /\ next[node[t]] = head /\ head' = node[t]
    BY <1>0, <1>2 DEF Cas, Untouched, LocalsOf, TypeOK, Pointer, Holds
  <2>2. node[t] \notin Listed
    BY <1>0, <2>1, StackAssumption DEF Partition, Hands
  <2>3. Order(next, node[t]) = <<node[t]>> \o Order(next, head)
    BY <1>0, <2>1, <2>2, OrderPush DEF Listed, Straight
  <2>4. Contents' = <<node[t]>> \o Contents
    BY <1>0, <2>1, <2>3 DEF Order, Contents, Height
  <2> QED
    BY <2>1, <2>4 DEF Lifo!Push
<1>3. CASE Untouched(t) /\ op[t] # "push"
  <2>1. head \in Nodes /\ head' = next[head]
    BY <1>0, <1>3
       DEF Cas, Untouched, LocalsOf, ProtectedOf, Reading, TypeOK, Pointer
  <2>2. /\ Acyclic(Nodes, next, next[head])
        /\ head \notin Chain(Nodes, next, next[head])
    BY <1>0, <2>1, ChainPop DEF Straight
  <2>3. /\ Order(next, head) # <<>>
        /\ Order(next, next[head]) = Tail(Order(next, head))
    BY <2>1, <2>2, OrderPush
  <2>4. Contents # <<>> /\ Contents' = Tail(Contents)
    BY <1>0, <2>1, <2>3 DEF Order, Contents, Height
  <2> QED
    BY <2>4 DEF Lifo!Pop
<1> QED
  BY <1>1, <1>2, <1>3

LEMMA LinkOrder ==
    ASSUME IInv, NEW t \in Threads, StartPush(t) \/ Load(t) \/ Got(t)
    PROVE  Contents' = Contents
<1>0. TypeOK /\ LocalsOf(t) /\ Partition
  BY DEF IInv, Locals
<1>1. CASE StartPush(t)
  <2>1. PICK n \in free : next' = [next EXCEPT ![n] = NULL]
    BY <1>1 DEF StartPush
  <2>2. n \notin Listed
    BY <1>0 DEF Partition
  <2> QED
    BY <1>1, <2>1, <2>2, OrderTouch DEF StartPush
<1>2. CASE Load(t) /\ op[t] = "push"
  <2>1. node[t] \notin Listed
    BY <1>0, <1>2, StackAssumption
       DEF Load, At, LocalsOf, TypeOK, Pointer, Holds, Hands, Partition
  <2> QED
    BY <1>2, <2>1, OrderTouch DEF Load
<1>3. CASE Load(t) /\ op[t] # "push"
  BY <1>3, OrderSame DEF Load
<1>4. CASE Got(t)
  <2>1. reg[t].top \notin Listed
    BY <1>0, <1>4, StackAssumption
       DEF Got, At, LocalsOf, TypeOK, Pointer, Holds, Hands, Partition
  <2> QED
    BY <1>4, <2>1, OrderTouch DEF Got
<1> QED
  BY <1>1, <1>2, <1>3, <1>4

LEMMA CollectOrder ==
    ASSUME IInv, NEW n \in Nodes, Collect(n)
    PROVE  Contents' = Contents
<1>1. n \notin Listed
  BY DEF IInv, Partition, Collect, Ebr!Collect, Ebr!Retired
<1> QED
  BY <1>1, OrderTouch DEF Collect

LEMMA StepRefines ==
    IInv /\ [Next]_vars => [Lifo!Push \/ Lifo!Pop \/ build' = "none"]_Contents
<1> SUFFICES ASSUME IInv, [Next]_vars
             PROVE  \/ Lifo!Push \/ Lifo!Pop \/ build' = "none"
                    \/ Contents' = Contents
  OBVIOUS
<1>1. ASSUME Destroy PROVE build' = "none"
  BY <1>1 DEF Destroy
<1>2. ASSUME NEW t \in Threads, Step(t), ~ Cas(t)
      PROVE  Contents' = Contents
  <2>1. CASE StartPush(t) \/ Load(t) \/ Got(t)
    BY <2>1, LinkOrder
  <2>2. CASE \/ StartPop(t) \/ LoadNext(t) \/ Put(t) \/ Exit(t) \/ StartTop(t)
             \/ EnterTop(t) \/ Peek(t)
    BY <2>2, OrderSame
       DEF StartPop, LoadNext, Put, Exit, StartTop, EnterTop, Peek, memory
  <2>3. CASE \/ Timeout(t) \/ Look(t) \/ Offer(t) \/ Answer(t) \/ Wait(t)
             \/ Withdraw(t) \/ Late(t) \/ Take(t)
    BY <2>3, OrderSame
       DEF Timeout, Look, Offer, Answer, Wait, Withdraw, Late, Take, memory
  <2> QED
    BY <1>2, <2>1, <2>2, <2>3 DEF Step
<1>3. CASE UNCHANGED vars
  BY <1>3, OrderSame DEF vars, memory
<1> QED
  BY <1>1, <1>2, <1>3, CasOrder, CollectOrder DEF Next

(* The stack implements LifoStack until s_destroy: a node put on the head  *)
(* is one push, a node taken off it is one pop of the newest, and no other *)
(* step, of any call or of the collector, changes what the stack holds.    *)
THEOREM Refinement == Spec => ImplementsLifo
<1>1. Init => Lifo!Init
  BY OrderEmpty, StackAssumption DEF Init, Lifo!Init, Order, Contents, Height
<1>2. IInv /\ [Next]_vars => [Lifo!Push \/ Lifo!Pop \/ build' = "none"]_Contents
  BY StepRefines
<1> QED
  BY <1>1, <1>2, Invariance, PTL DEF Spec, ImplementsLifo
=============================================================================
