------------------------ MODULE LockFreeQueueProofs ------------------------
(***************************************************************************)
(* Until a pop has overtaken the tail, the lock-free queue touches no      *)
(* freed node, loses none and answers rightly, and only a call whose last  *)
(* node was popped under it fails: for any number of threads, nodes and    *)
(* values.                                                                 *)
(***************************************************************************)
EXTENDS LockFreeQueue, ChainTheorems

Points == {"idle", "last", "next", "check", "link", "swing", "first", "help", "read",
           "cas", "put", "exit", "crash"}
Regs    == [first : Pointer, last : Pointer, next : Pointer]
Answers == Values \cup {Empty}

(* A step of t leaves the other threads where they are. *)
Rests(u) == /\ pc'[u] = pc[u] /\ op'[u] = op[u] /\ v'[u] = v[u]
            /\ node'[u] = node[u] /\ reg'[u] = reg[u]

OnlyMoves(t) == \A u \in Threads \ {t} : Rests(u)

(* What it may do to the grace periods is drop its own claims. *)
EbrOnly(t) ==
    /\ inside' \subseteq Threads /\ inside \ {t} \subseteq inside'
    /\ Ebr!Retired' = Ebr!Retired
    /\ \A n \in Ebr!Retired : waits[n] \ {t} \subseteq waits'[n]

LEMMA EbrEnter ==
    ASSUME TypeOK, NEW t \in Threads, Ebr!Enter(t)
    PROVE  EbrOnly(t) /\ t \in inside'
BY DEF TypeOK, Ebr!Enter, Ebr!Retired, EbrOnly

LEMMA EbrExit ==
    ASSUME TypeOK, NEW t \in Threads, Ebr!Exit(t)
    PROVE  EbrOnly(t)
BY DEF TypeOK, Ebr!Exit, Ebr!Retired, EbrOnly

LEMMA EbrSame ==
    ASSUME TypeOK, NEW t \in Threads, UNCHANGED ebr
    PROVE  EbrOnly(t) /\ inside' = inside
BY DEF TypeOK, ebr, Ebr!Retired, EbrOnly

LEMMA Typed ==
    ASSUME TypeOK
    PROVE  /\ NULL \notin Nodes /\ NoRegs \in Regs /\ Empty \in Answers
           /\ pc \in [Threads -> Points]
           /\ reg \in [Threads -> Regs]
           /\ \A t \in Threads : Holds(t) \in Pointer
BY QueueAssumption DEF TypeOK, NoRegs, Regs, Pointer, Points, Holds, Answers

-----------------------------------------------------------------------------
(* The list: it is not empty until q_destroy, and no link leads back to    *)
(* its head.                                                               *)
LEMMA ListShape ==
    ASSUME TypeOK, Straight
    PROVE  /\ Listed \subseteq Nodes
           /\ head # NULL => head \in Listed
           /\ \A n \in Listed : /\ next[n] # NULL => next[n] \in Listed
                                /\ next[n] # head
<1>1. Listed \subseteq Nodes /\ Closed(Nodes, Listed, next, head)
  BY ChainClosed DEF Listed
<1>2. ASSUME NEW n \in Listed
      PROVE  next[n] # NULL => next[n] \in Listed
  BY <1>1 DEF Closed, TypeOK, Pointer
<1>3. head # NULL => head \in Listed
  BY <1>1 DEF Closed, TypeOK, Pointer
<1>4. ASSUME NEW n \in Listed, next[n] = head
      PROVE  FALSE
  <2>1. head \in Nodes
    <3>1. CASE head = NULL
      BY <3>1, <1>4, ChainEmpty, QueueAssumption DEF Listed
    <3> QED
      BY <3>1 DEF TypeOK, Pointer
  <2>2. Chain(Nodes, next, next[n]) = Listed
    BY <1>4 DEF Listed
  <2> QED
    BY <2>2 DEF Straight, Acyclic, Listed
<1> QED
  BY <1>1, <1>2, <1>3, <1>4

(* A write to a node that is not in the list. *)
LEMMA TouchStep ==
    ASSUME TypeOK, Straight, NEW n \in Nodes \ Listed, head' = head,
           next' = [next EXCEPT ![n] = NULL]
    PROVE  /\ Listed' = Listed /\ Straight'
           /\ \A m \in Nodes \ {n} : next'[m] = next[m]
           /\ next'[n] = NULL
           /\ \A m \in Listed : Chain(Nodes, next', m) = Chain(Nodes, next, m)
<1>1. /\ \A m \in Nodes \ {n} : next'[m] = next[m]
      /\ next'[n] = NULL
      /\ Listed \subseteq Nodes
  BY ListShape DEF TypeOK
<1>2. /\ \A m \in Listed : next'[m] = next[m]
      /\ Listed = Chain(Nodes, next, head)
  BY <1>1 DEF Listed
<1>3. \A m \in Chain(Nodes, next, head) : next'[m] = next[m]
  BY <1>2
<1>4. /\ Chain(Nodes, next', head) = Listed
      /\ Acyclic(Nodes, next', head)
  BY <1>3, ChainFrame, AcyclicFrame DEF Listed, Straight
<1>5. ASSUME NEW m \in Listed
      PROVE  Chain(Nodes, next', m) = Chain(Nodes, next, m)
  <2>1. Chain(Nodes, next, m) \subseteq Listed
    BY ChainSuffix DEF Listed
  <2>2. \A k \in Chain(Nodes, next, m) : next'[k] = next[k]
    BY <1>2, <2>1
  <2> QED
    BY <2>2, ChainFrame
<1> QED
  BY <1>1, <1>4, <1>5 DEF Listed, Straight

LEMMA ListedSame ==
    ASSUME UNCHANGED <<head, next>>
    PROVE  Listed' = Listed
BY DEF Listed

(* A node that is safe for someone is not free. *)
LEMMA SafePlace ==
    ASSUME TypeOK, Locals, Placed, Straight, NEW t \in Threads, NEW n, Safe(t, n)
    PROVE  n \in Nodes /\ n \notin free /\ (n \in Ebr!Retired => t \in waits[n])
<1>1. CASE n \in Listed
  BY <1>1, ListShape DEF Placed
<1>2. CASE \E u \in Threads : pc[u] = "put" /\ reg[u].first = n
  <2>1. PICK u \in Threads : pc[u] = "put" /\ reg[u].first = n
    BY <1>2
  <2>2. n \in Hands
    BY <2>1 DEF Locals, LocalsOf, Holds, Hands
  <2> QED
    BY <2>2 DEF Placed
<1>3. CASE n \in Ebr!Retired /\ t \in waits[n]
  BY <1>3 DEF Placed, TypeOK
<1> QED
  BY <1>1, <1>2, <1>3 DEF Safe

-----------------------------------------------------------------------------
(* How a step changes what is in the hands of the calls. *)
LEMMA HoldsOthers ==
    ASSUME NEW t \in Threads, OnlyMoves(t)
    PROVE  \A u \in Threads \ {t} : Holds(u)' = Holds(u)
BY DEF OnlyMoves, Rests, Holds

LEMMA HandsKept ==
    ASSUME NEW t \in Threads, OnlyMoves(t), Holds(t)' = Holds(t)
    PROVE  Hands' = Hands /\ \A u \in Threads : Holds(u)' = Holds(u)
BY HoldsOthers DEF Hands

LEMMA HandsGain ==
    ASSUME Placed, NEW t \in Threads, Holds(t) = NULL, OnlyMoves(t),
           NEW n \in Nodes \ Hands, Holds(t)' = n
    PROVE  /\ Hands' = Hands \cup {n}
           /\ \A u, w \in Threads : Holds(u)' = Holds(w)' /\ Holds(u)' # NULL => u = w
BY QueueAssumption, HoldsOthers DEF Hands, Placed

LEMMA HandsDrop ==
    ASSUME Placed, NEW t \in Threads, Holds(t) \in Nodes, OnlyMoves(t),
           Holds(t)' = NULL
    PROVE  /\ Hands' = Hands \ {Holds(t)} /\ Holds(t) \in Hands
           /\ \A u, w \in Threads : Holds(u)' = Holds(w)' /\ Holds(u)' # NULL => u = w
BY QueueAssumption, HoldsOthers DEF Hands, Placed

-----------------------------------------------------------------------------
(* What a step must leave to a call u of another thread: the nodes that    *)
(* are safe for it stay safe, with their links and values, and do not come *)
(* back into the list.                                                     *)
Steady(u) ==
    \A n \in Nodes : Safe(u, n) =>
        /\ Safe(u, n)' /\ val'[n] = val[n]
        /\ next[n] # NULL => next'[n] = next[n]
        /\ n \in Listed' => n \in Listed

LEMMA OthersStep ==
    ASSUME Sound, NEW u \in Threads, Rests(u), pc[u] # "idle" => Steady(u),
           u \in inside => u \in inside', head # NULL => head' # NULL,
           op[u] = "push" /\ pc[u] \in Unfinished => next'[node[u]] = next[node[u]],
           \A n \in Listed \cap Listed' :
               tail \in Chain(Nodes, next, n) => tail' \in Chain(Nodes, next', n),
           head \in Listed' => head' = head,
           Walking(u) /\ next[reg[u].first] = NULL /\ next'[reg[u].first] # NULL =>
               /\ Safe(u, next[reg[u].first])'
               /\ val'[next'[reg[u].first]] \in seen'[u],
           Asking(u) => Answer' \in seen'[u] /\ seen[u] \subseteq seen'[u]
    PROVE  LocalsOf(u)' /\ TailOf(u)' /\ PushOf(u)' /\ PopOf(u)' /\ AskOf(u)'
<1>0. /\ TypeOK /\ LocalsOf(u) /\ TailOf(u) /\ PushOf(u) /\ PopOf(u) /\ AskOf(u)
      /\ pc'[u] = pc[u] /\ op'[u] = op[u] /\ v'[u] = v[u]
      /\ node'[u] = node[u] /\ reg'[u] = reg[u]
      /\ \A n : Safe(u, n) => n \in Nodes
  BY SafePlace DEF Sound, Locals, Tails, Pushing, Popping, Asked, Rests
<1>1. LocalsOf(u)'
  BY <1>0 DEF LocalsOf
<1> DEFINE n == reg[u].last
<1>2. Loaded(u) =>
          /\ Safe(u, n) /\ Safe(u, n)'
          /\ next[n] # NULL => next'[n] = next[n]
          /\ n \in Listed' => n \in Listed /\ tail' \in Chain(Nodes, next', n)
  BY <1>0 DEF TailOf, Loaded, LocalsOf, Steady, Unfinished
<1>5. TailOf(u)'
  BY <1>0, <1>2 DEF TailOf, Loaded
<1>6. PushOf(u)'
  <2> SUFFICES ASSUME op[u] = "push" PROVE PushOf(u)'
    BY <1>0 DEF PushOf
  <2>2. /\ pc[u] = "check" /\ reg[u].next # NULL => next'[n] = reg[u].next
        /\ pc[u] = "help" => next'[n] = reg[u].next /\ reg[u].next # NULL
        /\ pc[u] = "swing" => next'[n] = node[u]
    BY <1>0, <1>2 DEF PushOf, Loaded, LocalsOf, Unfinished
  <2> QED
    BY <1>0, <2>2 DEF PushOf
<1>3. AskOf(u)'
  BY <1>0 DEF AskOf, Asking
<1>4. PopOf(u)'
  <2> SUFFICES ASSUME Walking(u) PROVE PopOf(u)'
    BY <1>0 DEF PopOf, Walking
  <2> DEFINE f == reg[u].first
  <2>0. /\ op[u] # "push" /\ seen[u] \subseteq seen'[u]
        /\ next[f] # NULL => val[next[f]] \in seen[u]
        /\ pc[u] # "next" =>
              IF reg[u].next = NULL
                THEN /\ pc[u] \in {"check", "read", "crash"} /\ Empty \in seen[u]
                     /\ n \in Listed => f = n
                ELSE next[f] = reg[u].next
    BY <1>0 DEF PopOf, Walking, Asking
  <2>1. /\ Safe(u, f)'
        /\ next[f] # NULL => next'[f] = next[f]
        /\ f \in Listed' => f \in Listed
        /\ next[f] # NULL => Safe(u, next[f])' /\ val'[next[f]] = val[next[f]]
    BY <1>0 DEF PopOf, Steady, Walking
  <2>2. f \in Listed' => head' = f
    BY <1>0, <2>1 DEF PopOf
  <2>4. next'[f] # NULL => /\ Safe(u, next[f])'
                           /\ val'[next'[f]] \in seen'[u]
    BY <1>0, <2>0, <2>1
  <2>5. pc[u] # "next" =>
          IF reg[u].next = NULL
            THEN /\ pc[u] \in {"check", "read", "crash"} /\ Empty \in seen'[u]
                 /\ n \in Listed' => f = n
            ELSE next'[f] = reg[u].next
    BY <1>0, <1>2, <2>0, <2>1 DEF Loaded, Walking
  <2>6. pc[u] = "cas" => v[u] = val'[reg[u].next]
    BY <1>0, <2>1 DEF PopOf
  <2> QED
    BY <1>0, <2>1, <2>2, <2>4, <2>5, <2>6 DEF PopOf, Walking
<1> QED
  BY <1>1, <1>3, <1>4, <1>5, <1>6

(* A step that touches neither the queue nor a node. *)
LEMMA QuietStep ==
    ASSUME Sound, NEW t \in Threads, OnlyMoves(t), EbrOnly(t), UNCHANGED <<queue,
    memory>>,
           pc[t] # "put", pc'[t] # "put", Holds(t)' = Holds(t),
           \A u \in Threads \ {t} : Asking(u) => seen[u] \subseteq seen'[u],
           TypeOK', LocalsOf(t)', TailOf(t)', PushOf(t)', PopOf(t)', AskOf(t)'
    PROVE  Sound'
<1>0. /\ UNCHANGED <<head, tail, next, val, free>>
      /\ Listed' = Listed /\ Answer' = Answer
  BY ListedSame DEF queue, memory, Answer
<1>1. Straight' /\ TailLinked'
  BY <1>0 DEF Sound, Straight, TailLinked
<1>2. Placed'
  BY <1>0, HandsKept DEF Sound, Placed, EbrOnly
<1>3. Linked'
  BY <1>0 DEF Sound, Linked, EbrOnly, OnlyMoves, Rests
<1>4. ASSUME NEW u \in Threads \ {t}
      PROVE  LocalsOf(u)' /\ TailOf(u)' /\ PushOf(u)' /\ PopOf(u)' /\ AskOf(u)'
  <2>1. Steady(u)
    BY <1>0 DEF Steady, Safe, OnlyMoves, Rests, EbrOnly
  <2>2. Asking(u) => Answer' \in seen'[u] /\ seen[u] \subseteq seen'[u]
    BY <1>0 DEF Sound, Asked, AskOf
  <2> QED
    BY <1>0, <2>1, <2>2, OthersStep DEF EbrOnly, OnlyMoves
<1> QED
  BY <1>1, <1>2, <1>3, <1>4 DEF Sound, Locals, Tails, Pushing, Popping, Asked

-----------------------------------------------------------------------------
(* The quiet steps. *)
LEMMA StartPopStep ==
    ASSUME Sound, NEW t \in Threads, StartPop(t)
    PROVE  Sound'
<1>0. TypeOK /\ EbrOnly(t) /\ t \in inside' /\ LocalsOf(t)
  BY EbrEnter DEF Sound, StartPop, Locals
<1>1. /\ pc[t] = "idle" /\ head # NULL /\ UNCHANGED <<queue, memory, local, overtaken>>
      /\ pc' = [pc EXCEPT ![t] = "last"] /\ seen' = [seen EXCEPT ![t] = {Answer}]
      /\ \E o \in {"pop", "front"} : op' = [op EXCEPT ![t] = o]
  BY DEF StartPop, Goto
<1>2. OnlyMoves(t) /\ pc'[t] = "last" /\ op'[t] \in {"pop", "front"}
      /\ seen'[t] = {Answer}
  BY <1>0, <1>1 DEF OnlyMoves, Rests, TypeOK, local
<1>3. Answer \in Answers /\ Answer' = Answer
  BY <1>0, <1>1 DEF Answer, TypeOK, Answers, queue, memory, Pointer
<1>4. TypeOK'
  BY <1>0, <1>1, <1>3 DEF TypeOK, EbrOnly, queue, memory, local, Answers
<1>5. LocalsOf(t)' /\ TailOf(t)' /\ PushOf(t)' /\ PopOf(t)' /\ AskOf(t)'
      /\ Holds(t)' = Holds(t)
  BY <1>0, <1>1, <1>2, <1>3
     DEF LocalsOf, TailOf, Loaded, PushOf, PopOf, AskOf, Walking, Holds, Unfinished, queue
<1>6. \A u \in Threads \ {t} : seen'[u] = seen[u]
  BY <1>0, <1>1 DEF TypeOK
<1> QED
  BY <1>0, <1>1, <1>2, <1>4, <1>5, <1>6, QuietStep

LEMMA LoadLastStep ==
    ASSUME Sound, NEW t \in Threads, LoadLast(t)
    PROVE  Sound'
<1>0. /\ TypeOK /\ TailLinked /\ EbrOnly(t) /\ inside' = inside
      /\ LocalsOf(t) /\ TailOf(t) /\ PushOf(t) /\ PopOf(t) /\ AskOf(t)
      /\ UNCHANGED <<queue, memory, ebr, op, node, v, seen, overtaken>>
  BY EbrSame DEF Sound, LoadLast, Locals, Tails, Pushing, Popping, Asked
<1> DEFINE to == IF op[t] = "push" THEN "next" ELSE "first"
<1>1. /\ pc[t] = "last" /\ pc' = [pc EXCEPT ![t] = to]
      /\ reg' = [reg EXCEPT ![t] = [reg[t] EXCEPT !.last = tail]]
  BY DEF LoadLast, Goto
<1>2. /\ OnlyMoves(t) /\ pc'[t] = to
      /\ reg'[t].last = tail /\ reg'[t].first = reg[t].first
      /\ tail \in Listed /\ Listed' = Listed /\ Answer' = Answer
  BY <1>0, <1>1, ListedSame
     DEF OnlyMoves, Rests, TypeOK, LocalsOf, TailLinked, queue, memory, Answer
<1>3. TypeOK'
  BY <1>0, <1>1 DEF TypeOK, EbrOnly, queue, memory, ebr
<1>4. tail \in Chain(Nodes, next, tail)
  BY <1>2, ChainCons, ChainClosed DEF Listed
<1>5. TailOf(t)' /\ PushOf(t)'
  BY <1>0, <1>1, <1>2, <1>4 DEF TailOf, Loaded, PushOf, Unfinished, Safe, queue, memory
<1>6. PopOf(t)'
  BY <1>0, <1>1, <1>2 DEF PopOf, Walking
<1>7. LocalsOf(t)' /\ AskOf(t)' /\ Holds(t)' = Holds(t)
  BY <1>0, <1>1, <1>2 DEF LocalsOf, AskOf, Asking, Holds, Unfinished, queue
<1> QED
  BY <1>0, <1>1, <1>2, <1>3, <1>5, <1>6, <1>7, QuietStep

LEMMA LoadFirstStep ==
    ASSUME Sound, NEW t \in Threads, LoadFirst(t)
    PROVE  Sound'
<1>0. /\ TypeOK /\ Straight /\ EbrOnly(t) /\ inside' = inside
      /\ LocalsOf(t) /\ TailOf(t) /\ AskOf(t)
      /\ UNCHANGED <<queue, memory, ebr, op, node, v, seen, overtaken>>
  BY EbrSame DEF Sound, LoadFirst, Locals, Tails, Asked
<1>1. /\ pc[t] = "first" /\ pc' = [pc EXCEPT ![t] = "next"]
      /\ reg' = [reg EXCEPT ![t] = [reg[t] EXCEPT !.first = head]]
  BY DEF LoadFirst, Goto
<1>2. /\ OnlyMoves(t) /\ pc'[t] = "next" /\ op[t] # "push" /\ head # NULL
      /\ reg'[t].first = head /\ reg'[t].last = reg[t].last /\ Listed' = Listed
          /\ Answer' = Answer
  BY <1>0, <1>1, ListedSame
     DEF OnlyMoves, Rests, TypeOK, LocalsOf, queue, memory, Answer
<1>3. TypeOK'
  BY <1>0, <1>1 DEF TypeOK, EbrOnly, queue, memory, ebr
<1>4. head \in Listed /\ (next[head] # NULL => next[head] \in Listed)
  BY <1>0, <1>2, ListShape
<1>5. next[head] # NULL => val[next[head]] \in seen[t]
  BY <1>0, <1>1, <1>2 DEF AskOf, Asking, Answer
<1>6. PushOf(t)' /\ PopOf(t)'
  BY <1>0, <1>1, <1>2, <1>4, <1>5 DEF PushOf, PopOf, Walking, Safe, queue, memory
<1>8. TailOf(t)'
  BY <1>0, <1>1, <1>2
     DEF TailOf, Loaded, Safe, queue, memory, OnlyMoves, Rests, ebr, Ebr!Retired
<1>7. LocalsOf(t)' /\ AskOf(t)' /\ Holds(t)' = Holds(t)
  BY <1>0, <1>1, <1>2 DEF LocalsOf, AskOf, Asking, Holds, Unfinished, queue
<1> QED
  BY <1>0, <1>1, <1>2, <1>3, <1>6, <1>7, <1>8, QuietStep

(* A null link is read from the last node only: then the first node is     *)
(* still the head, and the queue is empty.                                 *)
LEMMA LoadNextStep ==
    ASSUME Sound, NEW t \in Threads, LoadNext(t)
    PROVE  Sound'
<1> DEFINE f == reg[t].first
<1>0. /\ TypeOK /\ Straight /\ TailLinked /\ Linked /\ EbrOnly(t) /\ inside' = inside
      /\ LocalsOf(t) /\ TailOf(t) /\ PushOf(t) /\ PopOf(t) /\ AskOf(t)
      /\ UNCHANGED <<queue, memory, ebr, op, node, v, seen, overtaken>>
  BY EbrSame DEF Sound, LoadNext, Locals, Tails, Pushing, Popping, Asked
<1>1. /\ pc[t] = "next" /\ pc' = [pc EXCEPT ![t] = "check"]
      /\ reg' = [reg EXCEPT ![t] = [reg[t] EXCEPT !.next = next[Anchor(t)]]]
  BY DEF LoadNext, Goto
<1>2. \A n : Safe(t, n) => n \in Nodes
  BY SafePlace DEF Sound
<1>3. Safe(t, Anchor(t)) /\ Anchor(t) \in Nodes
  BY <1>0, <1>1, <1>2 DEF Anchor, TailOf, Loaded, PopOf, Unfinished, Walking
<1>4. /\ OnlyMoves(t) /\ pc'[t] = "check"
      /\ reg'[t].last = reg[t].last /\ reg'[t].first = f
      /\ reg'[t].next = next[Anchor(t)]
      /\ Listed' = Listed /\ Answer' = Answer
  BY <1>0, <1>1, ListedSame DEF OnlyMoves, Rests, TypeOK, queue, memory, Answer
<1>5. TypeOK'
  BY <1>0, <1>1, <1>3 DEF TypeOK, EbrOnly, queue, memory, ebr
<1>6. TailOf(t)' /\ PushOf(t)'
  BY <1>0, <1>1, <1>4
     DEF TailOf, Loaded, PushOf, Unfinished, Safe, queue, memory, OnlyMoves, Rests,
          ebr, Ebr!Retired, Anchor
<1>7. op[t] # "push" /\ next[f] = NULL =>
          Empty \in seen[t] /\ (reg[t].last \in Listed => f = reg[t].last)
  <2>1. ASSUME op[t] # "push", next[f] = NULL
        PROVE  f \in Listed /\ f = head
    BY <1>0, <1>1, <1>3, <2>1 DEF Anchor, Safe, Linked, PopOf, Walking
  <2>2. ASSUME op[t] # "push", next[f] = NULL, f # reg[t].last, reg[t].last \in Listed
        PROVE  FALSE
    <3>1. next[head] = NULL /\ head \in Nodes
      BY <1>0, <1>1, <1>3, <2>1, <2>2 DEF Anchor
    <3>2. Listed = {head}
      BY <3>1, ChainCons, ChainEmpty, QueueAssumption DEF Listed
    <3> QED
      BY <2>1, <2>2, <3>2
  <2>3. ASSUME op[t] # "push", next[f] = NULL
        PROVE  Empty \in seen[t]
    BY <1>0, <1>1, <2>1, <2>3 DEF AskOf, Asking, Answer
  <2> QED
    BY <2>2, <2>3
<1>8. PopOf(t)'
  BY <1>0, <1>1, <1>4, <1>7
     DEF PopOf, Walking, Safe, queue, memory, OnlyMoves, Rests, ebr, Ebr!Retired, Anchor
<1>9. LocalsOf(t)' /\ AskOf(t)' /\ Holds(t)' = Holds(t)
  BY <1>0, <1>1, <1>4 DEF LocalsOf, AskOf, Asking, Holds, Unfinished, queue
<1> QED
  BY <1>0, <1>1, <1>4, <1>5, <1>6, <1>8, <1>9, QuietStep

(* What Observe adds to the history. *)
LEMMA ObserveAdds ==
    ASSUME TypeOK, Observe
    PROVE  /\ \A u \in Threads : Asking(u) => /\ seen'[u] = seen[u] \cup {Answer'}
           /\ Answer' \in Answers => seen' \in [Threads -> SUBSET Answers]
BY DEF TypeOK, Observe, Answers

(* A test or a compare-and-swap that fails starts the loop again. *)
LEMMA RetryStep ==
    ASSUME Sound, NEW t \in Threads, Retry(t), pc[t] \in {"check", "help", "link", "cas"},
           UNCHANGED <<queue, memory, ebr, op, node, v, overtaken>>,
           UNCHANGED seen \/ Observe
    PROVE  Sound'
<1>0. /\ TypeOK /\ EbrOnly(t) /\ inside' = inside
      /\ LocalsOf(t) /\ TailOf(t) /\ PushOf(t) /\ AskOf(t)
  BY EbrSame DEF Sound, Locals, Tails, Pushing, Asked
<1>1. /\ pc' = [pc EXCEPT ![t] = "last"]
      /\ reg' = [reg EXCEPT ![t] = NoRegs]
  BY DEF Retry, Goto
<1>2. /\ OnlyMoves(t) /\ pc'[t] = "last"
      /\ Answer' = Answer /\ Answer \in Answers
  BY <1>0, <1>1 DEF OnlyMoves, Rests, TypeOK, queue, memory, Answer, Answers, Pointer
<1>3. /\ seen' \in [Threads -> SUBSET (Values \cup {Empty})]
      /\ \A u \in Threads : Asking(u) => seen[u] \subseteq seen'[u]
  BY <1>0, <1>2, ObserveAdds DEF TypeOK, Answers
<1>4. TypeOK'
  <2>1. /\ reg' \in [Threads -> [first : Pointer, last : Pointer, next : Pointer]]
        /\ pc' \in [Threads -> Points]
    BY <1>0, <1>1, Typed DEF Regs, Points
  <2> QED
    BY <1>0, <1>3, <2>1 DEF TypeOK, EbrOnly, queue, memory, ebr, Points
<1>5. LocalsOf(t)' /\ TailOf(t)' /\ PushOf(t)' /\ PopOf(t)' /\ Holds(t)' = Holds(t)
  BY <1>0, <1>1, <1>2
     DEF LocalsOf, TailOf, Loaded, PushOf, PopOf, Walking, Holds, Unfinished, queue,
          memory
<1>6. AskOf(t)'
  BY <1>0, <1>1, <1>2, <1>3 DEF AskOf, Asking
<1> QED
  BY <1>0, <1>2, <1>3, <1>4, <1>5, <1>6, QuietStep

(* A queue found empty. *)
LEMMA CheckEmptyStep ==
    ASSUME Sound, NEW t \in Threads, Check(t), Unmoved(t),
           op[t] # "push", Follow(t) = "empty"
    PROVE  Sound'
<1>0. /\ TypeOK /\ EbrOnly(t) /\ inside' = inside
      /\ LocalsOf(t) /\ PopOf(t) /\ AskOf(t)
      /\ UNCHANGED <<queue, memory, ebr, op, node, seen, overtaken>>
  BY EbrSame DEF Sound, Check, Locals, Tails, Pushing, Popping, Asked
<1>1. /\ pc[t] = "check" /\ pc' = [pc EXCEPT ![t] = "exit"]
      /\ reg' = [reg EXCEPT ![t] = NoRegs] /\ v' = [v EXCEPT ![t] = Empty]
      /\ reg[t].next = NULL
  BY DEF Check, Goto, Finish, Follow
<1>2. /\ OnlyMoves(t) /\ pc'[t] = "exit" /\ v'[t] = Empty /\ Empty \in seen[t]
      /\ Answer' = Answer
  BY <1>0, <1>1 DEF OnlyMoves, Rests, TypeOK, PopOf, Walking, queue, memory, Answer
<1>3. TypeOK'
  BY <1>0, <1>1, Typed DEF TypeOK, EbrOnly, queue, memory, ebr, Regs, Answers
<1>4. /\ LocalsOf(t)' /\ TailOf(t)' /\ PushOf(t)' /\ PopOf(t)' /\ AskOf(t)'
      /\ Holds(t)' = Holds(t)
  BY <1>0, <1>1, <1>2
     DEF LocalsOf, TailOf, Loaded, PushOf, PopOf, Walking, AskOf, Asking, Holds,
          Unfinished, queue
<1> QED
  BY <1>0, <1>1, <1>2, <1>3, <1>4, QuietStep

LEMMA CheckStep ==
    ASSUME Sound, NEW t \in Threads, Check(t)
    PROVE  Sound'
<1> SUFFICES ASSUME Unmoved(t), ~ (op[t] # "push" /\ Follow(t) = "empty") PROVE Sound'
  BY CheckEmptyStep, RetryStep DEF Check
<1>0. /\ TypeOK /\ EbrOnly(t) /\ inside' = inside
      /\ LocalsOf(t) /\ TailOf(t) /\ PushOf(t) /\ PopOf(t) /\ AskOf(t)
      /\ UNCHANGED <<queue, memory, ebr, op, node, seen, reg, v, overtaken>>
  BY EbrSame DEF Sound, Check, Locals, Tails, Pushing, Popping, Asked
<1> DEFINE to == IF op[t] = "push" THEN IF reg[t].next = NULL THEN "link" ELSE "help"
                 ELSE IF reg[t].first # reg[t].last THEN "read" ELSE "help"
<1>1. /\ pc[t] = "check" /\ pc' = [pc EXCEPT ![t] = to]
      /\ op[t] # "push" /\ reg[t].first = reg[t].last => reg[t].next # NULL
  BY DEF Check, Goto, Follow
<1>2. /\ OnlyMoves(t) /\ pc'[t] = to /\ Answer' = Answer /\ Listed' = Listed
  BY <1>0, <1>1, ListedSame DEF OnlyMoves, Rests, TypeOK, queue, memory, Answer
<1>3. TypeOK'
  BY <1>0, <1>1 DEF TypeOK, EbrOnly, queue, memory, ebr
<1>4. TailOf(t)' /\ PushOf(t)'
  BY <1>0, <1>1, <1>2
     DEF TailOf, Loaded, PushOf, Unfinished, Safe, queue, memory, OnlyMoves, Rests,
          ebr, Ebr!Retired
<1>5. PopOf(t)'
  BY <1>0, <1>1, <1>2
     DEF PopOf, Walking, Safe, queue, memory, OnlyMoves, Rests, ebr, Ebr!Retired
<1>6. LocalsOf(t)' /\ AskOf(t)' /\ Holds(t)' = Holds(t)
  BY <1>0, <1>1, <1>2 DEF LocalsOf, AskOf, Asking, Holds, Unfinished, queue
<1> QED
  BY <1>0, <1>1, <1>2, <1>3, <1>4, <1>5, <1>6, QuietStep

(* A null next node ends the process. *)
LEMMA CrashStep ==
    ASSUME Sound, NEW t \in Threads, Read(t), Front(t) = NULL
    PROVE  Sound'
<1>0. /\ TypeOK /\ EbrOnly(t) /\ inside' = inside
      /\ LocalsOf(t) /\ TailOf(t) /\ PopOf(t) /\ AskOf(t)
      /\ UNCHANGED <<queue, memory, ebr, op, node, seen, reg, v, overtaken>>
      /\ pc[t] = "read" /\ pc' = [pc EXCEPT ![t] = "crash"] /\ reg[t].next = NULL
  BY EbrSame DEF Sound, Read, Front, Goto, Locals, Tails, Popping, Asked
<1>1. /\ OnlyMoves(t) /\ pc'[t] = "crash" /\ op[t] # "push"
      /\ Answer' = Answer /\ Listed' = Listed
  BY <1>0, ListedSame DEF OnlyMoves, Rests, TypeOK, LocalsOf, queue, memory, Answer
<1>2. TypeOK'
  BY <1>0 DEF TypeOK, EbrOnly, queue, memory, ebr
<1>3. TailOf(t)' /\ PopOf(t)'
  BY <1>0, <1>1
     DEF TailOf, Loaded, PopOf, Walking, Safe, queue, memory, OnlyMoves, Rests, ebr,
         Ebr!Retired
<1>4. LocalsOf(t)' /\ PushOf(t)' /\ AskOf(t)' /\ Holds(t)' = Holds(t)
  BY <1>0, <1>1 DEF LocalsOf, PushOf, AskOf, Asking, Holds, Unfinished, queue
<1> QED
  BY <1>0, <1>1, <1>2, <1>3, <1>4, QuietStep

(* The node that is read follows the first one. *)
LEMMA ReadStep ==
    ASSUME Sound, NEW t \in Threads, Read(t)
    PROVE  Sound'
<1> SUFFICES ASSUME Front(t) # NULL PROVE Sound'
  BY CrashStep
<1>0. /\ TypeOK /\ EbrOnly(t) /\ inside' = inside
      /\ LocalsOf(t) /\ TailOf(t) /\ PopOf(t) /\ AskOf(t)
      /\ UNCHANGED <<queue, memory, ebr, op, node, seen, overtaken>>
  BY EbrSame DEF Sound, Read, Locals, Tails, Popping, Asked
<1>1. pc[t] = "read" /\ op[t] # "push" /\ reg[t].next # NULL
  BY <1>0 DEF Read, Front, LocalsOf
<1>2. /\ IF op[t] = "pop" THEN pc' = [pc EXCEPT ![t] = "cas"] /\ reg' = reg
         ELSE pc' = [pc EXCEPT ![t] = "exit"] /\ reg' = [reg EXCEPT ![t] = NoRegs]
      /\ v' = [v EXCEPT ![t] = val[reg[t].next]]
      /\ next[reg[t].first] = reg[t].next /\ reg[t].next \in Nodes
  BY <1>0, <1>1 DEF Read, Front, Goto, Finish, TypeOK, Pointer, PopOf, Walking
<1>3. /\ OnlyMoves(t) /\ pc'[t] = IF op[t] = "pop" THEN "cas" ELSE "exit"
      /\ v'[t] = val[reg[t].next] /\ v'[t] \in seen[t]
      /\ Answer' = Answer /\ Listed' = Listed
  BY <1>0, <1>1, <1>2, ListedSame
     DEF OnlyMoves, Rests, TypeOK, PopOf, Walking, queue, memory, Answer
<1>4. TypeOK'
  <2>1. reg' \in [Threads -> Regs] /\ pc' \in [Threads -> Points]
    BY <1>0, <1>2, Typed DEF Points
  <2>2. v' \in [Threads -> Values \cup {Empty}]
    BY <1>0, <1>2 DEF TypeOK
  <2> QED
    BY <1>0, <2>1, <2>2 DEF TypeOK, EbrOnly, queue, memory, ebr, Regs, Points
<1>5. TailOf(t)' /\ PopOf(t)'
  BY <1>0, <1>1, <1>2, <1>3
     DEF TailOf, Loaded, PopOf, Walking, Safe, queue, memory, OnlyMoves, Rests, ebr,
          Ebr!Retired
<1>6. LocalsOf(t)' /\ PushOf(t)' /\ AskOf(t)' /\ Holds(t)' = Holds(t)
  BY <1>0, <1>1, <1>2, <1>3
     DEF LocalsOf, PushOf, AskOf, Asking, Holds, Unfinished, queue
<1> QED
  BY <1>0, <1>1, <1>3, <1>4, <1>5, <1>6, QuietStep

LEMMA ExitStep ==
    ASSUME Sound, NEW t \in Threads, Exit(t)
    PROVE  Sound'
<1>0. TypeOK /\ EbrOnly(t) /\ UNCHANGED <<queue, memory, reg, overtaken>>
  BY EbrExit DEF Sound, Exit
<1>1. /\ pc[t] = "exit" /\ pc' = [pc EXCEPT ![t] = "idle"]
      /\ node' = [node EXCEPT ![t] = NULL] /\ v' = [v EXCEPT ![t] = Empty]
      /\ op' = [op EXCEPT ![t] = "push"] /\ seen' = [seen EXCEPT ![t] = {}]
  BY DEF Exit, Goto
<1>2. OnlyMoves(t) /\ pc'[t] = "idle" /\ op'[t] = "push"
  BY <1>0, <1>1 DEF OnlyMoves, Rests, TypeOK
<1>3. TypeOK'
  BY <1>0, <1>1 DEF TypeOK, EbrOnly, queue, memory, Pointer
<1>4. /\ LocalsOf(t)' /\ TailOf(t)' /\ PushOf(t)' /\ PopOf(t)' /\ AskOf(t)'
      /\ Holds(t)' = Holds(t)
  BY <1>1, <1>2
     DEF LocalsOf, TailOf, Loaded, PushOf, PopOf, Walking, AskOf, Asking, Holds,
          Unfinished
<1>5. \A u \in Threads \ {t} : seen'[u] = seen[u]
  BY <1>0, <1>1 DEF TypeOK
<1> QED
  BY <1>0, <1>1, <1>2, <1>3, <1>4, <1>5, QuietStep

-----------------------------------------------------------------------------
(* The tail goes one node on, or stays. *)
LEMMA TailStep ==
    ASSUME Sound, NEW t \in Threads, OnlyMoves(t),
           UNCHANGED <<head, memory, ebr, op, node, v, seen, overtaken>>,
           pc[t] \in {"help", "swing"}, reg'[t] = NoRegs,
           tail' = tail \/ (tail' = next[tail] /\ next[tail] # NULL),
           TypeOK', pc'[t] = IF pc[t] = "help" THEN "last" ELSE "exit"
    PROVE  Sound'
<1>0. /\ TypeOK /\ TailLinked /\ Straight /\ EbrOnly(t) /\ inside' = inside
      /\ LocalsOf(t) /\ TailOf(t) /\ PushOf(t) /\ AskOf(t) /\ head # NULL
      /\ UNCHANGED <<head, next, val, free>>
      /\ Listed' = Listed /\ Answer' = Answer
  BY EbrSame, ListedSame
     DEF Sound, Locals, LocalsOf, Tails, Pushing, Asked, memory, Answer
<1>1. tail \in Listed /\ tail' \in Listed
  BY <1>0, ListShape DEF TailLinked
<1>2. Straight' /\ TailLinked'
  BY <1>0, <1>1 DEF Straight, TailLinked
<1>3. LocalsOf(t)' /\ TailOf(t)' /\ PushOf(t)' /\ PopOf(t)' /\ AskOf(t)'
      /\ Holds(t)' = Holds(t)
  BY <1>0 DEF LocalsOf, TailOf, Loaded, PushOf, PopOf, Walking, AskOf, Asking, Holds,
       Unfinished
<1>4. Placed' /\ Linked'
  <2>1. Placed'
    BY <1>0, <1>3, HandsKept DEF Sound, Placed, EbrOnly
  <2>2. Linked'
    BY <1>0 DEF Sound, Linked, EbrOnly, OnlyMoves, Rests
  <2> QED
    BY <2>1, <2>2
<1>5. ASSUME NEW n \in Listed, tail \in Chain(Nodes, next, n)
      PROVE  tail' \in Chain(Nodes, next', n)
  <2>1. Closed(Nodes, Chain(Nodes, next, n), next, n)
    BY ChainClosed
  <2> QED
    BY <1>0, <1>5, <2>1 DEF Closed, TypeOK, Pointer
<1>6. ASSUME NEW u \in Threads \ {t}
      PROVE  LocalsOf(u)' /\ TailOf(u)' /\ PushOf(u)' /\ PopOf(u)' /\ AskOf(u)'
  <2>1. Steady(u)
    BY <1>0 DEF Steady, Safe, OnlyMoves, Rests, EbrOnly
  <2>2. Asking(u) => Answer' \in seen'[u] /\ seen[u] \subseteq seen'[u]
    BY <1>0 DEF Sound, Asked, AskOf
  <2> QED
    BY <1>0, <1>1, <1>5, <2>1, <2>2, OthersStep DEF EbrOnly, OnlyMoves
<1> QED
  BY <1>2, <1>3, <1>4, <1>6 DEF Sound, Locals, Tails, Pushing, Popping, Asked

LEMMA HelpStep ==
    ASSUME Sound, NEW t \in Threads, Help(t)
    PROVE  Sound'
<1>0. /\ TypeOK /\ LocalsOf(t) /\ TailOf(t) /\ PushOf(t) /\ PopOf(t) /\ EbrOnly(t)
      /\ UNCHANGED <<head, memory, ebr, op, node, v, seen, overtaken>>
      /\ pc[t] = "help" /\ reg' = [reg EXCEPT ![t] = NoRegs]
      /\ pc' = [pc EXCEPT ![t] = "last"]
      /\ tail' = IF tail = reg[t].last THEN reg[t].next ELSE tail
  BY EbrSame DEF Sound, Locals, Tails, Pushing, Popping, Help, Swung, Retry, Goto
<1>1. /\ OnlyMoves(t) /\ reg'[t] = NoRegs
      /\ pc'[t] = "last"
  BY <1>0 DEF OnlyMoves, Rests, TypeOK
<1>2. next[reg[t].last] = reg[t].next /\ reg[t].next # NULL
  BY <1>0 DEF PushOf, PopOf, Walking, TypeOK
<1>3. TypeOK'
  <2>1. tail' \in Pointer
    BY <1>0 DEF TypeOK
  <2>2. /\ reg' \in [Threads -> [first : Pointer, last : Pointer, next : Pointer]]
        /\ pc' \in [Threads -> Points]
    BY <1>0, Typed DEF Regs, Points
  <2> QED
    BY <1>0, <2>1, <2>2 DEF TypeOK, EbrOnly, memory, ebr, Points
<1> QED
  BY <1>0, <1>1, <1>2, <1>3, TailStep

LEMMA SwingStep ==
    ASSUME Sound, NEW t \in Threads, Swing(t)
    PROVE  Sound'
<1>0. /\ TypeOK /\ LocalsOf(t) /\ TailOf(t) /\ PushOf(t) /\ EbrOnly(t)
      /\ UNCHANGED <<head, memory, ebr, op, node, v, seen, overtaken>>
      /\ pc[t] = "swing" /\ reg' = [reg EXCEPT ![t] = NoRegs]
      /\ pc' = [pc EXCEPT ![t] = "exit"]
      /\ tail' = IF tail = reg[t].last THEN node[t] ELSE tail
  BY EbrSame DEF Sound, Locals, Tails, Pushing, Swing, Swung, Finish, Goto
<1>1. OnlyMoves(t) /\ reg'[t] = NoRegs /\ pc'[t] = "exit" /\ op[t] = "push"
  BY <1>0 DEF OnlyMoves, Rests, TypeOK, LocalsOf
<1>2. next[reg[t].last] = node[t] /\ node[t] # NULL
  BY <1>0, <1>1 DEF PushOf, LocalsOf
<1>3. TypeOK'
  <2>1. tail' \in Pointer
    BY <1>0 DEF TypeOK
  <2>2. /\ reg' \in [Threads -> [first : Pointer, last : Pointer, next : Pointer]]
        /\ pc' \in [Threads -> Points]
    BY <1>0, Typed DEF Regs, Points
  <2> QED
    BY <1>0, <2>1, <2>2 DEF TypeOK, EbrOnly, memory, ebr, Points
<1> QED
  BY <1>0, <1>1, <1>2, <1>3, TailStep

-----------------------------------------------------------------------------
(* The pop moves the head, and does not overtake the tail. *)
LEMMA CasWonStep ==
    ASSUME Sound, NEW t \in Threads, Cas(t), head = reg[t].first, ~ overtaken'
    PROVE  Sound'
<1>0. /\ TypeOK /\ TailLinked /\ Straight /\ Placed /\ Linked
      /\ LocalsOf(t) /\ PopOf(t) /\ AskOf(t) /\ EbrOnly(t) /\ inside' = inside
      /\ pc[t] = "cas" /\ pc' = [pc EXCEPT ![t] = "put"] /\ head' = reg[t].next
      /\ UNCHANGED <<tail, next, val, free, ebr, op, node, v, reg>>
      /\ Observe
  BY EbrSame DEF Sound, Locals, Popping, Asked, Cas, Goto, memory
<1>1. /\ OnlyMoves(t) /\ pc'[t] = "put" /\ op[t] = "pop"
      /\ head \in Nodes /\ head' = next[head] /\ head' \in Nodes
      /\ v[t] = Answer
  BY <1>0 DEF OnlyMoves, Rests, TypeOK, LocalsOf, PopOf, Walking, Pointer, Answer
<1>2. /\ Listed' = Listed \ {head} /\ Straight'
      /\ head \in Listed /\ Listed \subseteq Nodes
  BY <1>0, <1>1, ChainPop, ListShape DEF Listed, Straight
<1>10. tail # head /\ overtaken' \in BOOLEAN
  <2>1. next[head] # head
    BY <1>0, <1>2, ListShape
  <2> QED
    BY <1>0, <1>1, <2>1 DEF Cas
<1>3. /\ Answer' \in Values \cup {Empty}
      /\ seen' \in [Threads -> SUBSET (Values \cup {Empty})]
      /\ \A u \in Threads : Asking(u) => /\ Answer' \in seen'[u]
                                         /\ seen[u] \subseteq seen'[u]
  <2>1. Answer' \in Answers
    BY <1>0, <1>1 DEF Answer, TypeOK, Pointer, Answers
  <2> QED
    BY <1>0, <2>1, ObserveAdds DEF Answers
<1>4. TypeOK'
  BY <1>0, <1>1, <1>3, <1>10 DEF TypeOK, EbrOnly, ebr, Pointer
<1>5. TailLinked'
  BY <1>0, <1>1, <1>2, <1>10, QueueAssumption DEF TailLinked
<1>6. Linked'
  BY <1>0, <1>1, QueueAssumption DEF Linked, EbrOnly, OnlyMoves, Rests
<1>7. Placed'
  <2>1. Holds(t) = NULL /\ Holds(t)' = head /\ head \in Nodes \ Hands
    BY <1>0, <1>1, <1>2 DEF Holds, Placed
  <2>2. /\ Hands' = Hands \cup {head}
        /\ \A u, w \in Threads : Holds(u)' = Holds(w)' /\ Holds(u)' # NULL => u = w
    BY <1>0, <1>1, <2>1, HandsGain
  <2> QED
    BY <1>0, <1>2, <2>2 DEF Placed, EbrOnly
<1>8. LocalsOf(t)' /\ TailOf(t)' /\ PushOf(t)' /\ PopOf(t)' /\ AskOf(t)'
  BY <1>0, <1>1, <1>3, QueueAssumption
     DEF LocalsOf, TailOf, Loaded, Unfinished, PushOf, PopOf, Walking, AskOf, Asking
<1>9. ASSUME NEW u \in Threads \ {t}
      PROVE  LocalsOf(u)' /\ TailOf(u)' /\ PushOf(u)' /\ PopOf(u)' /\ AskOf(u)'
  <2>1. Steady(u)
    BY <1>0, <1>1, <1>2 DEF Steady, Safe, OnlyMoves, Rests, EbrOnly
  <2> QED
    BY <1>0, <1>1, <1>2, <1>3, <2>1, QueueAssumption, OthersStep DEF OnlyMoves
<1> QED
  BY <1>2, <1>4, <1>5, <1>6, <1>7, <1>8, <1>9 DEF Sound, Locals, Tails, Pushing,
       Popping, Asked

(* The pop retires the old dummy: every call that may use it is inside. *)
LEMMA PutStep ==
    ASSUME Sound, NEW t \in Threads, Put(t)
    PROVE  Sound'
<1> DEFINE n == reg[t].first
<1>0. /\ TypeOK /\ TailLinked /\ Straight /\ Placed /\ Linked /\ Locals
      /\ LocalsOf(t) /\ AskOf(t)
      /\ UNCHANGED <<head, tail, next, val, free, op, node, v, seen, overtaken>>
      /\ pc[t] = "put" /\ pc' = [pc EXCEPT ![t] = "exit"]
      /\ reg' = [reg EXCEPT ![t] = NoRegs]
      /\ inside' = inside /\ Ebr!Retired' = Ebr!Retired \cup {n}
      /\ waits' = [m \in Ebr!Retired \cup {n} |->
                      IF m \in Ebr!Retired THEN waits[m] ELSE inside]
  BY DEF Sound, Locals, Asked, Put, Discard, Ebr!Retire, Ebr!Retired, Goto,
     Finish, queue, memory
<1>1. /\ OnlyMoves(t) /\ pc'[t] = "exit" /\ op[t] = "pop"
      /\ n \in Nodes /\ Holds(t) = n /\ Holds(t)' = NULL
      /\ Listed' = Listed /\ Answer' = Answer
  BY <1>0, ListedSame DEF OnlyMoves, Rests, TypeOK, LocalsOf, Pointer, Holds, Answer
<1>2. TypeOK'
  <2>1. reg' \in [Threads -> [first : Pointer, last : Pointer, next : Pointer]]
    BY <1>0, Typed DEF Regs
  <2> QED
    BY <1>0, <1>1, <2>1 DEF TypeOK
<1>3. Straight' /\ TailLinked'
  BY <1>0, <1>1, <1>2 DEF Straight, TailLinked
<1>4. n \in Hands /\ n \notin Ebr!Retired
  BY <1>0, <1>1, QueueAssumption DEF Placed, Hands
<1>5. Placed'
  <2>1. /\ Hands' = Hands \ {n}
        /\ \A u, w \in Threads : Holds(u)' = Holds(w)' /\ Holds(u)' # NULL => u = w
    BY <1>0, <1>1, HandsDrop
  <2> QED
    BY <1>0, <1>1, <1>4, <2>1 DEF Placed
<1>6. Linked'
  BY <1>0, <1>1 DEF Linked, OnlyMoves, Rests
<1>7. LocalsOf(t)' /\ TailOf(t)' /\ PushOf(t)' /\ PopOf(t)' /\ AskOf(t)'
  BY <1>0, <1>1 DEF LocalsOf, TailOf, Loaded, Unfinished, PushOf, PopOf, Walking,
       AskOf, Asking
<1>8. ASSUME NEW u \in Threads \ {t}
      PROVE  LocalsOf(u)' /\ TailOf(u)' /\ PushOf(u)' /\ PopOf(u)' /\ AskOf(u)'
  <2>1. pc[u] # "idle" => Steady(u)
    BY <1>0, <1>1, <1>4 DEF Steady, Safe, OnlyMoves, Rests, Locals, LocalsOf
  <2>2. Asking(u) => Answer' \in seen'[u] /\ seen[u] \subseteq seen'[u]
    BY <1>0, <1>1 DEF Sound, Asked, AskOf
  <2> QED
    BY <1>0, <1>1, <2>1, <2>2, OthersStep DEF OnlyMoves
<1> QED
  BY <1>2, <1>3, <1>5, <1>6, <1>7, <1>8
     DEF Sound, Locals, Tails, Pushing, Popping, Asked

-----------------------------------------------------------------------------
(* A node in the hands of a push is nobody's. *)
LEMMA HeldAlone ==
    ASSUME Sound, NEW t \in Threads, op[t] = "push", pc[t] \in Unfinished
    PROVE  /\ node[t] \in Nodes /\ node[t] \in Hands /\ Holds(t) = node[t]
           /\ node[t] \notin Listed /\ node[t] \notin free
           /\ node[t] \notin Ebr!Retired
           /\ \A u \in Threads : ~ Safe(u, node[t])
           /\ \A u \in Threads \ {t} : op[u] = "push" /\ pc[u] \in Unfinished =>
                                            node[u] # node[t]
<1>0. TypeOK /\ Placed /\ LocalsOf(t)
  BY DEF Sound, Locals
<1>1. Holds(t) = node[t] /\ node[t] \in Nodes
  BY <1>0 DEF Holds, LocalsOf, Unfinished, TypeOK, Pointer
<1>2. /\ node[t] \in Hands /\ node[t] \notin Listed /\ node[t] \notin free
      /\ node[t] \notin Ebr!Retired
  BY <1>0, <1>1, QueueAssumption DEF Placed, Hands
<1>3. ASSUME NEW u \in Threads, pc[u] = "put"
      PROVE  reg[u].first # node[t]
  <2>1. op[u] = "pop" /\ Holds(u) = reg[u].first
    BY <1>3 DEF Sound, Locals, LocalsOf, Holds, Unfinished
  <2>2. u # t
    BY <2>1
  <2> QED
    BY <1>0, <1>1, <2>1, <2>2, QueueAssumption DEF Placed
<1>4. \A u \in Threads : ~ Safe(u, node[t])
  BY <1>2, <1>3 DEF Safe
<1>5. \A u \in Threads \ {t} :
          op[u] = "push" /\ pc[u] \in Unfinished => node[u] # node[t]
  BY <1>0, <1>1, QueueAssumption DEF Placed, Holds
<1> QED
  BY <1>1, <1>2, <1>4, <1>5

(* The push finds a null link: the node is the last one, and the tail is   *)
(* on it.                                                                  *)
LEMMA LinkWonStep ==
    ASSUME Sound, NEW t \in Threads, Link(t), IsLast(reg[t].last)
    PROVE  Sound'
<1> DEFINE e == reg[t].last
           n == node[t]
<1>0. /\ TypeOK /\ TailLinked /\ Straight /\ Placed /\ Linked
      /\ LocalsOf(t) /\ TailOf(t) /\ PushOf(t) /\ EbrOnly(t) /\ inside' = inside
      /\ pc[t] = "link" /\ pc' = [pc EXCEPT ![t] = "swing"]
      /\ next' = [next EXCEPT ![e] = n] /\ next[e] = NULL
      /\ UNCHANGED <<head, tail, val, free, ebr, op, node, v, reg, overtaken>>
      /\ Observe
  BY EbrSame DEF Sound, Locals, Tails, Pushing, Link, IsLast, Goto, queue
<1>1. /\ OnlyMoves(t) /\ pc'[t] = "swing" /\ op[t] = "push" /\ head # NULL
      /\ n \in Nodes /\ n \in Hands /\ Holds(t) = n /\ Holds(t)' = NULL
      /\ n \notin Listed /\ \A u \in Threads : ~ Safe(u, n)
      /\ \A u \in Threads \ {t} : op[u] = "push" /\ pc[u] \in Unfinished => node[u] # n
      /\ next[n] = NULL
  BY <1>0, HeldAlone DEF OnlyMoves, Rests, TypeOK, LocalsOf, PushOf, Holds, Unfinished
<1>2. e \in Listed /\ Listed \subseteq Nodes /\ tail = e /\ head \in Listed
  <2>1. Safe(t, e)
    BY <1>0, <1>1 DEF TailOf, Loaded, Unfinished
  <2>2. e \in Listed
    BY <1>0, <2>1 DEF Safe, Linked
  <2>3. tail \in Chain(Nodes, next, e)
    BY <1>0, <1>1, <2>2 DEF TailOf, Loaded, Unfinished
  <2>4. Listed \subseteq Nodes /\ head \in Listed
    BY <1>0, <1>1, ListShape
  <2>5. Chain(Nodes, next, e) = {e}
    BY <1>0, <2>2, <2>4, ChainCons, ChainEmpty, QueueAssumption
  <2> QED
    BY <2>2, <2>3, <2>4, <2>5
<1>3. next'[e] = n /\ \A m \in Nodes \ {e} : next'[m] = next[m]
  BY <1>0, <1>2 DEF TypeOK
<1>4. n # e /\ next'[n] = NULL
  BY <1>1, <1>2, <1>3
<1>5. /\ Listed' = Listed \cup {n} /\ Straight'
      /\ \A m \in Listed : Chain(Nodes, next, m) \subseteq Chain(Nodes, next', m)
  <2>1. /\ e \in Chain(Nodes, next, head) /\ next[e] \notin Nodes
        /\ n \in Nodes \ Chain(Nodes, next, head) /\ Acyclic(Nodes, next, head)
        /\ next'[e] = n /\ next'[next'[e]] \notin Nodes
        /\ \A m \in Chain(Nodes, next, head) \ {e} : next'[m] = next[m]
    BY <1>0, <1>1, <1>2, <1>3, <1>4, QueueAssumption DEF Listed, Straight
  <2>2. /\ Chain(Nodes, next', head) = Chain(Nodes, next, head) \cup {n}
        /\ Acyclic(Nodes, next', head)
        /\ \A m \in Chain(Nodes, next, head) :
              Chain(Nodes, next, m) \subseteq Chain(Nodes, next', m)
    <3> HIDE DEF e, n
    <3> QED
      BY <2>1, ChainAppend
  <2> QED
    BY <1>0, <2>2 DEF Listed, Straight
<1>6. /\ Answer' \in Values \cup {Empty}
      /\ seen' \in [Threads -> SUBSET (Values \cup {Empty})]
      /\ \A u \in Threads : Asking(u) => /\ Answer' \in seen'[u]
                                         /\ seen[u] \subseteq seen'[u]
  <2>0. head \in Nodes /\ (next'[head] = NULL \/ next'[head] \in Nodes)
    BY <1>0, <1>1, <1>2, <1>3 DEF TypeOK, Pointer
  <2>1. Answer' \in Answers
    BY <1>0, <2>0 DEF Answer, TypeOK, Answers
  <2> QED
    BY <1>0, <2>1, ObserveAdds DEF Answers
<1>7. TypeOK'
  <2>1. next' \in [Nodes -> Pointer]
    BY <1>0, <1>1 DEF TypeOK, Pointer
  <2> QED
    BY <1>0, <1>6, <2>1 DEF TypeOK, EbrOnly, ebr
<1>8. TailLinked'
  BY <1>0, <1>2, <1>3, <1>4, <1>5 DEF TailLinked
<1>9. Linked'
  <2>1. e \notin Ebr!Retired
    BY <1>0, <1>2 DEF Placed
  <2>2. ASSUME NEW u \in Threads \ {t}, pc[u] = "put"
        PROVE  reg[u].first # e /\ reg[u].first \in Nodes
    BY <1>0, <2>2 DEF Linked, Sound, Locals, LocalsOf, TypeOK, Pointer
  <2> QED
    BY <1>0, <1>1, <1>3, <2>1, <2>2 DEF Linked, EbrOnly, OnlyMoves, Rests, TypeOK
<1>10. Placed'
  <2>1. /\ Hands' = Hands \ {n}
        /\ \A u, w \in Threads : Holds(u)' = Holds(w)' /\ Holds(u)' # NULL => u = w
    BY <1>0, <1>1, HandsDrop
  <2> QED
    BY <1>0, <1>1, <1>5, <2>1 DEF Placed, EbrOnly
<1>11. LocalsOf(t)' /\ PopOf(t)' /\ AskOf(t)'
  BY <1>0, <1>1 DEF LocalsOf, PopOf, Walking, AskOf, Asking
<1>12. TailOf(t)' /\ PushOf(t)'
  <2>1. e \in Chain(Nodes, next, e)
    BY <1>2, ChainCons
  <2>2. tail \in Chain(Nodes, next', e)
    BY <1>2, <1>5, <2>1
  <2> QED
    BY <1>0, <1>1, <1>2, <1>3, <1>5, <2>2 DEF TailOf, Loaded, PushOf, Unfinished, Safe
<1>13. ASSUME NEW u \in Threads \ {t}
      PROVE  LocalsOf(u)' /\ TailOf(u)' /\ PushOf(u)' /\ PopOf(u)' /\ AskOf(u)'
  <2>1. Steady(u)
    <3>1. ASSUME NEW m \in Nodes, Safe(u, m)
          PROVE  Safe(u, m)'
      BY <1>0, <1>1, <1>5, <3>1 DEF Safe, OnlyMoves, Rests, EbrOnly
    <3> QED
      BY <1>0, <1>1, <1>3, <1>5, <3>1 DEF Steady
  <2>2. op[u] = "push" /\ pc[u] \in Unfinished => next'[node[u]] = next[node[u]]
    <3>1. ASSUME op[u] = "push", pc[u] \in Unfinished
          PROVE  node[u] \in Nodes /\ node[u] \notin Listed
      BY <3>1, HeldAlone
    <3> QED
      BY <1>2, <1>3, <3>1
  <2>3. Walking(u) /\ next[reg[u].first] = NULL /\ next'[reg[u].first] # NULL =>
               /\ Safe(u, next[reg[u].first])'
               /\ val'[next'[reg[u].first]] \in seen'[u]
    <3> SUFFICES ASSUME Walking(u), next[reg[u].first] = NULL,
                        next'[reg[u].first] # NULL
                 PROVE  /\ Safe(u, next[reg[u].first])'
                        /\ val'[next'[reg[u].first]] \in seen'[u]
      OBVIOUS
    <3>1. Safe(u, reg[u].first) /\ (reg[u].first \in Listed => head = reg[u].first)
      BY DEF Sound, Popping, PopOf
    <3>2. reg[u].first \in Nodes
      BY <1>0, <3>1, SafePlace DEF Sound
    <3>3. reg[u].first = e /\ head = e
      BY <1>2, <1>3, <3>1, <3>2
    <3>4. reg'[u].first = e
      BY <1>0, <3>3
    <3>5. Answer' = val'[n]
      BY <1>0, <1>1, <1>3, <3>3, QueueAssumption DEF Answer
    <3>6. Answer' \in seen'[u]
      BY <1>6 DEF Asking, Walking
    <3>7. Safe(u, next[reg[u].first])'
      BY <1>3, <1>5, <3>4 DEF Safe
    <3> QED
      BY <1>3, <3>3, <3>5, <3>6, <3>7
  <2> QED
    BY <1>0, <1>1, <1>5, <1>6, <2>1, <2>2, <2>3, OthersStep DEF OnlyMoves
<1> QED
  BY <1>5, <1>7, <1>8, <1>9, <1>10, <1>11, <1>12, <1>13
     DEF Sound, Locals, Tails, Pushing, Popping, Asked

-----------------------------------------------------------------------------
(* A node that is not in the list, nor of use to a call, is written. *)
LEMMA WriteStep ==
    ASSUME Sound, NEW n \in Nodes \ Listed, NEW u \in Threads, Rests(u),
           next' = [next EXCEPT ![n] = NULL], UNCHANGED <<head, tail, seen>>,
           \A m \in Nodes \ {n} : val'[m] = val[m],
           u \in inside => u \in inside', ~ Safe(u, n),
           \A m \in Nodes \ {n} : Safe(u, m) => Safe(u, m)',
           op[u] = "push" /\ pc[u] \in Unfinished => node[u] # n
    PROVE  LocalsOf(u)' /\ TailOf(u)' /\ PushOf(u)' /\ PopOf(u)' /\ AskOf(u)'
<1>0. /\ TypeOK /\ Straight /\ TailLinked /\ LocalsOf(u) /\ AskOf(u) /\ PopOf(u)
  BY DEF Sound, Locals, Asked, Popping
<1>1. /\ Listed' = Listed /\ next'[n] = NULL
      /\ \A m \in Nodes \ {n} : next'[m] = next[m]
      /\ \A m \in Listed : Chain(Nodes, next', m) = Chain(Nodes, next, m)
  BY <1>0, TouchStep
<1>2. Steady(u)
  BY <1>1 DEF Steady
<1>3. head # NULL => Answer' = Answer
  <2>1. ASSUME head # NULL
        PROVE  /\ head \in Listed /\ head \in Nodes
               /\ next[head] # NULL => next[head] \in Listed /\ next[head] \in Nodes
    BY <1>0, <2>1, ListShape
  <2> QED
    BY <1>1, <2>1 DEF Answer
<1>4. Asking(u) => Answer' \in seen'[u] /\ seen[u] \subseteq seen'[u]
  BY <1>0, <1>3 DEF AskOf, Asking, LocalsOf
<1>5. op[u] = "push" /\ pc[u] \in Unfinished => next'[node[u]] = next[node[u]]
  <2>1. op[u] = "push" /\ pc[u] \in Unfinished => node[u] \in Nodes
    BY HeldAlone
  <2> QED
    BY <1>1, <2>1
<1>6. ~ (Walking(u) /\ next[reg[u].first] = NULL /\ next'[reg[u].first] # NULL)
  <2>1. Walking(u) => Safe(u, reg[u].first) /\ reg[u].first \in Nodes
    BY <1>0, SafePlace DEF Sound, PopOf
  <2> QED
    BY <1>1, <2>1
<1> QED
  BY <1>1, <1>2, <1>4, <1>5, <1>6, OthersStep

LEMMA StartPushStep ==
    ASSUME Sound, NEW t \in Threads, StartPush(t)
    PROVE  Sound'
<1>0. /\ TypeOK /\ TailLinked /\ Straight /\ Placed /\ Linked
      /\ EbrOnly(t) /\ t \in inside' /\ LocalsOf(t)
      /\ UNCHANGED <<head, tail, reg, v, seen, overtaken>>
      /\ pc[t] = "idle" /\ pc' = [pc EXCEPT ![t] = "last"] /\ head # NULL
      /\ op' = [op EXCEPT ![t] = "push"]
  BY EbrEnter DEF Sound, StartPush, Protect, Locals, Goto, queue
<1>1. PICK n \in free, w \in Values :
          /\ node' = [node EXCEPT ![t] = n]
          /\ next' = [next EXCEPT ![n] = NULL]
          /\ val' = [val EXCEPT ![n] = w]
          /\ free' = free \ {n}
  BY DEF StartPush, Alloc
<1>2. /\ OnlyMoves(t) /\ pc'[t] = "last" /\ op'[t] = "push" /\ node'[t] = n
      /\ n \in Nodes \ Listed /\ n \notin Ebr!Retired /\ n \notin Hands
      /\ \A m \in Nodes \ {n} : val'[m] = val[m]
  BY <1>0, <1>1 DEF OnlyMoves, Rests, TypeOK, Placed
<1>3. /\ Listed' = Listed /\ Straight' /\ next'[n] = NULL
      /\ \A m \in Nodes \ {n} : next'[m] = next[m]
  BY <1>0, <1>1, <1>2, TouchStep
<1>4. TypeOK'
  BY <1>0, <1>1, <1>2 DEF TypeOK, EbrOnly, Pointer
<1>5. TailLinked'
  <2>1. tail \in Listed /\ tail \in Nodes \ {n}
        /\ next[tail] # NULL => next[tail] \in Nodes \ {n}
    BY <1>0, <1>2, ListShape DEF TailLinked
  <2> QED
    BY <1>0, <1>2, <1>3, ListShape, QueueAssumption DEF TailLinked
<1>6. Linked'
  <2>1. ASSUME NEW u \in Threads \ {t}, pc[u] = "put"
        PROVE  reg[u].first \in Nodes \ {n}
    <3>1. reg[u].first \in Hands /\ reg[u].first \in Nodes
      BY <1>0, <2>1 DEF Sound, Locals, LocalsOf, Holds, Hands, TypeOK, Pointer
    <3> QED
      BY <1>2, <3>1
  <2> QED
    BY <1>0, <1>2, <1>3, <2>1 DEF Linked, EbrOnly, OnlyMoves, Rests, TypeOK
<1>7. Placed'
  <2>1. Holds(t) = NULL /\ Holds(t)' = n
    BY <1>0, <1>2 DEF Holds, Unfinished
  <2>2. /\ Hands' = Hands \cup {n}
        /\ \A u, x \in Threads : Holds(u)' = Holds(x)' /\ Holds(u)' # NULL => u = x
    BY <1>0, <1>2, <2>1, HandsGain
  <2> QED
    BY <1>0, <1>1, <1>2, <1>3, <2>2 DEF Placed, EbrOnly
<1>8. LocalsOf(t)' /\ TailOf(t)' /\ PushOf(t)' /\ PopOf(t)' /\ AskOf(t)'
  BY <1>0, <1>2, <1>3, QueueAssumption
     DEF LocalsOf, TailOf, Loaded, PushOf, PopOf, Walking, AskOf, Asking, Unfinished
<1>9. ASSUME NEW u \in Threads \ {t}
      PROVE  LocalsOf(u)' /\ TailOf(u)' /\ PushOf(u)' /\ PopOf(u)' /\ AskOf(u)'
  <2>1. ~ Safe(u, n)
    BY <1>0, SafePlace DEF Sound
  <2>2. ASSUME NEW m \in Nodes \ {n}, Safe(u, m)
        PROVE  Safe(u, m)'
    BY <1>0, <1>2, <1>3, <2>2 DEF Safe, OnlyMoves, Rests, EbrOnly
  <2>3. op[u] = "push" /\ pc[u] \in Unfinished => node[u] # n
    BY <1>2, HeldAlone
  <2> QED
    BY <1>0, <1>1, <1>2, <2>1, <2>2, <2>3, WriteStep DEF OnlyMoves, EbrOnly
<1> QED
  BY <1>3, <1>4, <1>5, <1>6, <1>7, <1>8, <1>9 DEF Sound, Locals, Tails, Pushing,
       Popping, Asked

(* The collector frees a node no grace period holds back. *)
LEMMA CollectStep ==
    ASSUME Sound, NEW n \in Nodes, Collect(n)
    PROVE  Sound'
<1>0. /\ TypeOK /\ TailLinked /\ Straight /\ Placed /\ Linked
      /\ UNCHANGED <<head, tail, pc, op, node, reg, v, seen, overtaken>>
      /\ free' = free \cup {n} /\ next' = [next EXCEPT ![n] = NULL]
      /\ val' = [val EXCEPT ![n] = Empty]
      /\ inside' = inside /\ n \in Ebr!Retired /\ waits[n] = {}
      /\ waits' = [m \in Ebr!Retired \ {n} |-> waits[m]]
      /\ Ebr!Retired' = Ebr!Retired \ {n}
  BY DEF Sound, Collect, Ebr!Collect, Ebr!Retired, queue, local
<1>1. /\ n \in Nodes \ Listed /\ n \notin Hands
      /\ \A m \in Nodes \ {n} : val'[m] = val[m]
  BY <1>0 DEF TypeOK, Placed
<1>2. /\ Listed' = Listed /\ Straight' /\ next'[n] = NULL
      /\ \A m \in Nodes \ {n} : next'[m] = next[m]
  BY <1>0, <1>1, TouchStep
<1>3. TypeOK'
  BY <1>0 DEF TypeOK, Pointer
<1>4. TailLinked'
  BY <1>0, <1>1, <1>2, ListShape, QueueAssumption DEF TailLinked
<1>5. Linked'
  <2>1. ASSUME NEW u \in Threads, pc[u] = "put"
        PROVE  reg[u].first \in Nodes \ {n}
    <3>1. reg[u].first \in Hands /\ reg[u].first \in Nodes
      BY <1>0, <2>1 DEF Sound, Locals, LocalsOf, Holds, Hands, TypeOK, Pointer
    <3> QED
      BY <1>1, <3>1
  <2> QED
    BY <1>0, <1>2, <2>1 DEF Linked, TypeOK
<1>6. Placed'
  <2>1. Hands' = Hands /\ \A u \in Threads : Holds(u)' = Holds(u)
    BY <1>0 DEF Hands, Holds
  <2> QED
    BY <1>0, <1>1, <1>2, <2>1 DEF Placed
<1>7. ASSUME NEW u \in Threads
      PROVE  LocalsOf(u)' /\ TailOf(u)' /\ PushOf(u)' /\ PopOf(u)' /\ AskOf(u)'
  <2>1. ~ Safe(u, n)
    BY <1>0, SafePlace DEF Sound
  <2>2. ASSUME NEW m \in Nodes \ {n}, Safe(u, m)
        PROVE  Safe(u, m)'
    BY <1>0, <1>2, <2>2 DEF Safe
  <2>3. op[u] = "push" /\ pc[u] \in Unfinished => node[u] # n
    BY <1>1, HeldAlone
  <2> QED
    BY <1>0, <1>1, <2>1, <2>2, <2>3, WriteStep DEF Rests
<1> QED
  BY <1>2, <1>3, <1>4, <1>5, <1>6, <1>7 DEF Sound, Locals, Tails, Pushing, Popping, Asked

LEMMA DestroyStep ==
    ASSUME Sound, Destroy
    PROVE  Sound'
<1>0. /\ TypeOK /\ Locals /\ Placed
      /\ UNCHANGED <<next, val, inside, pc, op, node, reg, v, seen, overtaken>>
      /\ free' = free \cup Listed \cup Ebr!Retired
      /\ waits' = <<>> /\ head' = NULL /\ tail' = NULL
      /\ \A t \in Threads : pc[t] = "idle" /\ op[t] = "push"
  BY DEF Sound, Destroy, local, Locals, LocalsOf
<1>1. Listed \subseteq Nodes /\ Ebr!Retired' = {}
  BY <1>0, ChainClosed DEF Listed, Ebr!Retired
<1>2. TypeOK'
  BY <1>0, <1>1 DEF TypeOK, Pointer
<1>3. Listed' = {} /\ Straight'
  BY <1>0, ChainEmpty, QueueAssumption DEF Listed, Straight, Acyclic
<1>4. Hands' = Hands /\ \A u \in Threads : Holds(u)' = Holds(u)
  BY <1>0 DEF Hands, Holds
<1>5. Placed'
  BY <1>0, <1>1, <1>3, <1>4 DEF Placed
<1>6. TailLinked' /\ Linked'
  BY <1>0, <1>1 DEF TailLinked, Linked
<1>7. Locals' /\ Tails' /\ Pushing' /\ Popping' /\ Asked'
  BY <1>0 DEF Locals, LocalsOf, Tails, TailOf, Loaded, Pushing, PushOf, Popping, PopOf,
       Walking, Asked, AskOf,
     Asking, Unfinished
<1> QED
  BY <1>2, <1>3, <1>5, <1>6, <1>7 DEF Sound

-----------------------------------------------------------------------------
LEMMA InitIInv == Init => IInv
<1> SUFFICES ASSUME Init PROVE Sound
  BY DEF IInv
<1>0. PICK n \in Nodes : Created(n)
  BY DEF Init
<1>1. Ebr!Retired = {} /\ inside = {} /\ head = n /\ tail = n /\ next[n] = NULL
  BY <1>0 DEF Init, Created, Ebr!Init, Ebr!Retired
<1>2. TypeOK
  BY <1>0, <1>1 DEF Init, Created, TypeOK, Pointer, NoRegs
<1>3. Listed = {n}
  BY <1>1, ChainCons, ChainEmpty, QueueAssumption DEF Listed
<1>4. Straight
  BY <1>1, <1>3, ChainEmpty, QueueAssumption DEF Straight, Acyclic, Listed
<1>5. Hands = {} /\ \A t \in Threads : Holds(t) = NULL
  BY DEF Init, Hands, Holds, Unfinished
<1>6. Placed
  BY <1>0, <1>1, <1>3, <1>5 DEF Created, Placed
<1>7. TailLinked /\ Linked
  BY <1>1, <1>3 DEF Init, TailLinked, Linked
<1>8. Locals /\ Tails /\ Pushing /\ Popping /\ Asked
  BY DEF Init, Locals, LocalsOf, Tails, TailOf, Loaded, Pushing, PushOf, Popping, PopOf,
     Walking, Asked, AskOf, Asking, Unfinished
<1> QED
  BY <1>2, <1>4, <1>6, <1>7, <1>8 DEF Sound

(* Until a pop overtakes the tail. *)
LEMMA StepSound ==
    ASSUME Sound, [Next]_vars, ~ overtaken'
    PROVE  Sound'
<1>1. ASSUME NEW t \in Threads,
             \/ StartPush(t) \/ StartPop(t) \/ LoadLast(t) \/ LoadFirst(t)
             \/ LoadNext(t) \/ Check(t) \/ Help(t)
      PROVE  Sound'
  BY <1>1, StartPushStep, StartPopStep, LoadLastStep, LoadFirstStep, LoadNextStep,
     CheckStep, HelpStep
<1>2. ASSUME NEW t \in Threads, Link(t)
      PROVE  Sound'
  BY <1>2, LinkWonStep, RetryStep DEF Link, queue, memory
<1>3. ASSUME NEW t \in Threads, Cas(t)
      PROVE  Sound'
  <2>1. head' = head => overtaken' = overtaken
    BY <1>3 DEF Cas, Sound, TypeOK
  <2> QED
    BY <1>3, <2>1, CasWonStep, RetryStep DEF Cas, queue, memory
<1>4. ASSUME NEW t \in Threads, Swing(t) \/ Read(t) \/ Put(t) \/ Exit(t)
      PROVE  Sound'
  BY <1>4, SwingStep, ReadStep, PutStep, ExitStep
<1>5. CASE UNCHANGED vars
  <2>0. /\ UNCHANGED <<head, tail, next, val, free, inside, waits, pc, op, node, reg, v,
                        seen, overtaken>>
    BY <1>5 DEF vars, queue, memory, ebr, local
  <2>1. /\ Listed' = Listed /\ Hands' = Hands /\ Answer' = Answer
        /\ Ebr!Retired' = Ebr!Retired /\ \A t \in Threads : Holds(t)' = Holds(t)
    BY <2>0 DEF Listed, Hands, Holds, Ebr!Retired, Answer
  <2>2. TypeOK' /\ Straight' /\ TailLinked' /\ Linked' /\ Placed'
    BY <2>0, <2>1 DEF Sound, TypeOK, Straight, TailLinked, Linked, Placed
  <2>3. Locals' /\ Tails' /\ Pushing' /\ Asked'
    BY <2>0, <2>1
       DEF Sound, Locals, LocalsOf, Tails, TailOf, Loaded, Pushing, PushOf, Asked, AskOf,
           Asking, Safe
  <2>4. Popping'
    BY <2>0, <2>1 DEF Sound, Popping, PopOf, Walking, Safe
  <2> QED
    BY <2>2, <2>3, <2>4 DEF Sound
<1> QED
  BY <1>1, <1>2, <1>3, <1>4, <1>5, CollectStep, DestroyStep DEF Next, Step

(* What has been overtaken stays so. *)
LEMMA StaysOvertaken ==
    ASSUME overtaken, [Next]_vars
    PROVE  overtaken'
<1>1. CASE UNCHANGED vars
  BY <1>1 DEF vars
<1>2. CASE Destroy \/ \E n \in Nodes : Collect(n)
  BY <1>2 DEF Destroy, Collect
<1>3. ASSUME NEW t \in Threads, Step(t)
      PROVE  overtaken'
  BY <1>3 DEF Step, StartPush, StartPop, LoadLast, LoadFirst, LoadNext, Check, Help, Link,
     Swing, Read, Cas, Put, Exit
<1> QED
  BY <1>1, <1>2, <1>3 DEF Next

LEMMA StepIInv == IInv /\ [Next]_vars => IInv'
BY StepSound, StaysOvertaken DEF IInv

(* The inductive invariant holds in every reachable state, for as long as  *)
(* no pop has overtaken the tail.                                          *)
THEOREM Invariance == Spec => []IInv
<1> QED
  BY InitIInv, StepIInv, PTL DEF Spec

(* No call dereferences null, or moves the head past the tail, unless the  *)
(* node it loaded from tail was popped before it loaded head.              *)
THEOREM FailsBehind == Spec => []FailsOnlyBehind
<1>1. ASSUME Sound, NEW t \in Threads, Fails(t), reg[t].last \in Listed
      PROVE  FALSE
  <2> DEFINE n == reg[t].last
  <2>0. /\ TypeOK /\ Straight /\ LocalsOf(t) /\ TailOf(t) /\ PopOf(t)
    BY <1>1 DEF Sound, Locals, Tails, Popping
  <2>1. CASE pc[t] = "crash"
    BY <1>1, <2>0, <2>1 DEF PopOf, Walking, LocalsOf
  <2>2. CASE pc[t] = "cas" /\ head = reg[t].first /\ tail = reg[t].first
    <3>1. n # head /\ head \in Chain(Nodes, next, n)
      BY <1>1, <2>0, <2>2 DEF PopOf, Walking, LocalsOf, TailOf, Loaded
    <3>2. Chain(Nodes, next, n) \subseteq Listed
      BY <1>1, ChainSuffix DEF Listed
    <3>3. \A m \in Chain(Nodes, next, n) : next[m] # head
      BY <2>0, <3>2, ListShape
    <3>4. /\ Chain(Nodes, next, n) \subseteq Nodes
          /\ Closed(Nodes, Chain(Nodes, next, n) \ {head}, next, n)
      BY <3>1, <3>3, ChainClosed DEF Closed
    <3>5. Chain(Nodes, next, n) \subseteq Chain(Nodes, next, n) \ {head}
      BY <3>4, ChainLeast
    <3> QED
      BY <3>1, <3>5
  <2> QED
    BY <1>1, <2>1, <2>2 DEF Fails
<1>2. IInv => FailsOnlyBehind
  BY <1>1 DEF IInv, FailsOnlyBehind
<1> QED
  BY <1>2, Invariance, PTL

(* No call touches a node that is free, although nodes leave the list      *)
(* while others stand on them, until a pop has overtaken the tail.         *)
THEOREM MemorySafety == Spec => []NoUseAfterFree
<1>1. ASSUME Sound, NEW t \in Threads
      PROVE  /\ pc[t] = "next" => Safe(t, Anchor(t))
             /\ pc[t] = "link" => Safe(t, reg[t].last)
             /\ pc[t] = "read" => reg[t].next = NULL \/ Safe(t, reg[t].next)
  BY <1>1 DEF Sound, Locals, LocalsOf, Tails, TailOf, Loaded, Popping, PopOf, Walking,
     Unfinished, Anchor
<1>2. ASSUME Sound, NEW t \in Threads
      PROVE  /\ pc[t] = "next" => Anchor(t) \notin free
             /\ pc[t] = "link" => reg[t].last \notin free
             /\ pc[t] = "read" => reg[t].next \notin free
  <2>1. NULL \notin free
    BY <1>2, QueueAssumption DEF Sound, TypeOK
  <2> QED
    BY <1>1, <1>2, <2>1, SafePlace DEF Sound
<1>3. IInv => NoUseAfterFree
  BY <1>2 DEF IInv, NoUseAfterFree
<1> QED
  BY <1>3, Invariance, PTL

(* Every node is in one place, no value is lost and no node freed twice,   *)
(* until a pop has overtaken the tail.                                     *)
THEOREM NothingLost == Spec => []Conservation
<1>1. IInv => Conservation
  BY DEF IInv, Sound, Conservation
<1> QED
  BY <1>1, Invariance, PTL

(* The tail stays in the list, at most one node behind its end, until a    *)
(* pop has overtaken it.                                                   *)
THEOREM TailFollows == Spec => []TailNear
<1>1. IInv => TailNear
  BY DEF IInv, Sound, TailNear
<1> QED
  BY <1>1, Invariance, PTL

(* A pop whose swap of the head succeeds returns the oldest value, the pop *)
(* that overtakes the tail included.                                       *)
THEOREM OldestFirst == Spec => []PopTakesOldest
<1>1. ASSUME Sound, NEW t \in Threads, pc[t] = "cas", head = reg[t].first
      PROVE  v[t] = Answer
  BY <1>1 DEF Sound, Locals, LocalsOf, Popping, PopOf, Walking, Answer
<1>2. IInv => PopTakesOldest
  BY <1>1 DEF IInv, PopTakesOldest, Oldest
<1> QED
  BY <1>2, Invariance, PTL

(* Every answer of q_front, and every -ENOENT, was right during the call,  *)
(* until a pop has overtaken the tail.                                     *)
THEOREM Answered == Spec => []AnswersHappened
<1>1. IInv => AnswersHappened
  BY DEF IInv, Sound, Asked, AskOf, Asking, AnswersHappened
<1> QED
  BY <1>1, Invariance, PTL

-----------------------------------------------------------------------------
(* What is in the nodes after the first one of a chain. *)
Items(succ, value, from) ==
    LET path == Path(Nodes, succ, from)
    IN  [k \in 1 .. PathLength(Nodes, succ, from) - 1 |-> value[path[k]]]

(* The length of the list, and its nodes by their place. *)
LEMMA Places ==
    ASSUME TypeOK, Straight
    PROVE  /\ Length \in Nat
           /\ Length = Cardinality(Listed)
           /\ \A k \in Nat : k < Length => Path(Nodes, next, head)[k] \in Listed
BY FiniteAssumption, LengthDef, PathRank DEF Straight, Listed, Length

LEMMA ItemsFrame ==
    ASSUME TypeOK, Straight, NEW succ, NEW value,
           \A n \in Listed : succ[n] = next[n] /\ value[n] = val[n]
    PROVE  Items(succ, value, head) = Contents
<1> DEFINE path == Path(Nodes, next, head)
           path2 == Path(Nodes, succ, head)
<1>1. PathLength(Nodes, succ, head) = Length
  BY FiniteAssumption, PathFrameLength DEF Straight, Listed, Length
<1>2. \A k \in Nat : path2[k] = path[k]
  BY PathFrame DEF Listed
<1>3. Length \in Nat /\ \A k \in Nat : k < Length => path[k] \in Listed
  BY Places
<1>4. /\ Items(succ, value, head) = [k \in 1 .. Length - 1 |-> value[path2[k]]]
      /\ Contents = [k \in 1 .. Length - 1 |-> val[path[k]]]
  BY <1>1 DEF Items, Contents
<1> HIDE DEF path, path2
<1>5. \A k \in 1 .. Length - 1 : value[path2[k]] = val[path[k]]
  BY <1>2, <1>3
<1> QED
  BY <1>4, <1>5

LEMMA ItemsSame ==
    ASSUME Sound, head' = head, \A n \in Listed : next'[n] = next[n] /\ val'[n] = val[n]
    PROVE  Contents' = Contents
<1>1. Items(next', val', head) = Contents
  BY ItemsFrame DEF Sound
<1>2. Contents' = Items(next', val', head')
  BY DEF Contents, Length, Items
<1> QED
  BY <1>1, <1>2

(* The swap of the head takes the oldest value off. *)
LEMMA CasOrder ==
    ASSUME Sound, NEW t \in Threads, Cas(t)
    PROVE  Fifo!Pop \/ Contents' = Contents
<1>0. /\ TypeOK /\ Straight /\ LocalsOf(t) /\ PopOf(t) /\ pc[t] = "cas"
      /\ next' = next /\ val' = val
  BY DEF Sound, Locals, Popping, Cas, memory
<1>1. CASE head # reg[t].first
  BY <1>0, <1>1, ItemsSame DEF Cas
<1>2. CASE head = reg[t].first
  <2>1. head \in Nodes /\ head' = next[head] /\ head' \in Nodes
    BY <1>0, <1>2 DEF Cas, TypeOK, LocalsOf, PopOf, Walking, Pointer
  <2> DEFINE p == Path(Nodes, next, head)
             q == Path(Nodes, next, next[head])
             len == PathLength(Nodes, next, next[head])
             h == len - 1
             w == Items(next, val, next[head])
             P == {Contents[k] : k \in 1 .. h + 1} \cup {w[k] : k \in 1 .. h}
  <2>2. /\ Acyclic(Nodes, next, next[head])
        /\ head \notin Chain(Nodes, next, next[head])
        /\ Acyclic(Nodes, next, next[next[head]])
        /\ next[head] \notin Chain(Nodes, next, next[next[head]])
    <3>1. /\ Acyclic(Nodes, next, next[head])
          /\ head \notin Chain(Nodes, next, next[head])
      BY <1>0, <2>1, ChainPop DEF Straight
    <3>2. /\ Acyclic(Nodes, next, next[next[head]])
          /\ next[head] \notin Chain(Nodes, next, next[next[head]])
      BY <2>1, <3>1, ChainPop
    <3> QED
      BY <3>1, <3>2
  <2>3. /\ len \in Nat /\ PathLength(Nodes, next, head) = len + 1
        /\ \A k \in Nat : p[k + 1] = q[k]
    <3>1. /\ PathLength(Nodes, next, next[head]) \in Nat
          /\ PathLength(Nodes, next, head) = PathLength(Nodes, next, next[head]) + 1
          /\ \A k \in Nat : Path(Nodes, next, head)[k + 1]
                              = Path(Nodes, next, next[head])[k]
      <4> HIDE DEF p, q, len, h, w, P
      <4> QED
        BY <2>1, <2>2, FiniteAssumption, PathPush
    <3> QED
      BY <3>1
  <2>4. len # 0
    <3>1. /\ PathLength(Nodes, next, next[next[head]]) \in Nat
          /\ len = PathLength(Nodes, next, next[next[head]]) + 1
      BY <1>0, <2>1, <2>2, FiniteAssumption, PathPush
    <3> QED
      BY <3>1
  <2>5. /\ Contents = [k \in 1 .. h + 1 |-> val[p[k]]]
        /\ w = [k \in 1 .. h |-> val[q[k]]]
    BY <2>3 DEF Contents, Length, Items
  <2>6. Contents' = w
    BY <1>0, <2>1 DEF Contents, Length, Items
  <2> HIDE DEF p, q, len, w
  <2>7. h \in Nat
    BY <2>3, <2>4
  <2>8. \A k \in 1 .. h : Contents[k + 1] = w[k]
    <3>1. ASSUME NEW k \in 1 .. h
          PROVE  Contents[k + 1] = w[k]
      <4>1. k \in Nat /\ k + 1 \in 1 .. h + 1
        BY <2>7
      <4> QED
        BY <2>3, <2>5, <4>1
    <3> QED
      BY <3>1
  <2> HIDE DEF h
  <2>9. Contents \in [1 .. h + 1 -> P] /\ w \in [1 .. h -> P]
    <3>1. DOMAIN w = 1 .. h /\ w = [k \in 1 .. h |-> w[k]]
      BY <2>5
    <3>2. /\ DOMAIN Contents = 1 .. h + 1
          /\ Contents = [k \in 1 .. h + 1 |-> Contents[k]]
      BY <2>5
    <3> QED
      BY <3>1, <3>2
  <2> HIDE DEF P
  <2>10. Contents # <<>> /\ w = Tail(Contents)
    BY <2>7, <2>8, <2>9, SequencePush
  <2> QED
    BY <2>6, <2>10 DEF Fifo!Pop
<1> QED
  BY <1>1, <1>2

(* What a push is about to link holds a value, not the mark of no value. *)
Filled ==
    \A t \in Threads :
        op[t] = "push" /\ pc[t] \in Unfinished => val[node[t]] \in Values

LEMMA FilledStep == Sound /\ Filled /\ [Next]_vars => Filled'
<1> SUFFICES ASSUME Sound, Filled, [Next]_vars PROVE Filled'
  OBVIOUS
<1>0. TypeOK
  BY DEF Sound
<1>1. ASSUME NEW n, NEW t \in Threads,
             \A m \in Nodes \ {n} : val'[m] = val[m], n \notin Hands,
             op'[t] = op[t], pc'[t] = pc[t], node'[t] = node[t],
             op[t] = "push", pc[t] \in Unfinished
      PROVE  val'[node'[t]] \in Values
  BY <1>1, HeldAlone DEF Filled
<1>2. ASSUME NEW t \in Threads, StartPush(t)
      PROVE  Filled'
  <2>1. PICK n \in free, w \in Values :
            /\ node' = [node EXCEPT ![t] = n] /\ val' = [val EXCEPT ![n] = w]
    BY <1>2 DEF StartPush, Alloc
  <2>2. n \notin Hands /\ n \in Nodes
    BY <1>0 DEF Sound, Placed
  <2>3. /\ node'[t] = n /\ val'[n] = w /\ \A m \in Nodes \ {n} : val'[m] = val[m]
        /\ \A u \in Threads \ {t} :
              op'[u] = op[u] /\ pc'[u] = pc[u] /\ node'[u] = node[u]
    BY <1>0, <1>2, <2>1, <2>2 DEF StartPush, Goto, TypeOK
  <2>4. ASSUME NEW u \in Threads \ {t}, op'[u] = "push", pc'[u] \in Unfinished
        PROVE  val'[node'[u]] \in Values
    BY <1>1, <2>2, <2>3, <2>4
  <2> QED
    BY <2>3, <2>4 DEF Filled, Unfinished
<1>3. ASSUME NEW n \in Nodes, Collect(n)
      PROVE  Filled'
  <2>1. /\ n \notin Hands /\ UNCHANGED <<pc, op, node>>
        /\ \A m \in Nodes \ {n} : val'[m] = val[m]
    BY <1>0, <1>3 DEF Sound, Placed, Collect, Ebr!Collect, Ebr!Retired, local, TypeOK
  <2> QED
    BY <1>1, <2>1 DEF Filled, Unfinished
<1>4. ASSUME NEW t \in Threads, val' = val, node' = node \/ pc'[t] = "idle",
             \A u \in Threads \ {t} : /\ op'[u] = op[u] /\ pc'[u] = pc[u]
                                      /\ node'[u] = node[u],
             op'[t] = "push" /\ pc'[t] \in Unfinished =>
                 op[t] = "push" /\ pc[t] \in Unfinished
      PROVE  Filled'
  BY <1>4 DEF Filled, Unfinished
<1>5. ASSUME NEW t \in Threads, StartPop(t) \/ LoadLast(t) \/ LoadFirst(t) \/ LoadNext(t)
      PROVE  Filled'
  <2>1. LocalsOf(t)
    BY DEF Sound, Locals
  <2> QED
    BY <1>0, <1>4, <1>5, <2>1
       DEF StartPop, LoadLast, LoadFirst, LoadNext, Goto, TypeOK, memory, local,
           Unfinished, LocalsOf
<1>6. ASSUME NEW t \in Threads, Check(t) \/ Help(t) \/ Link(t) \/ Swing(t)
      PROVE  Filled'
  BY <1>0, <1>4, <1>6
     DEF Check, Help, Link, Swing, Goto, Retry, Finish, TypeOK, memory, Unfinished
<1>7. ASSUME NEW t \in Threads, Read(t) \/ Cas(t) \/ Put(t) \/ Exit(t)
      PROVE  Filled'
  <2>1. LocalsOf(t)
    BY DEF Sound, Locals
  <2> QED
    BY <1>0, <1>4, <1>7, <2>1
       DEF Read, Cas, Put, Exit, Goto, Retry, Finish, TypeOK, memory, Unfinished, LocalsOf
<1>8. CASE Destroy \/ UNCHANGED vars
  BY <1>8 DEF Destroy, vars, local, memory, Filled
<1> QED
  BY <1>2, <1>3, <1>5, <1>6, <1>7, <1>8 DEF Next, Step

(* The link of a node after the last one appends its value. *)
LEMMA LinkOrder ==
    ASSUME Sound, Filled, NEW t \in Threads, Link(t)
    PROVE  Fifo!Push \/ Contents' = Contents
<1>0. /\ TypeOK /\ Straight /\ Linked /\ LocalsOf(t) /\ TailOf(t) /\ PushOf(t)
      /\ pc[t] = "link"
      /\ head' = head /\ val' = val
  BY DEF Sound, Locals, Tails, Pushing, Link, queue
<1>1. CASE ~ IsLast(reg[t].last)
  BY <1>0, <1>1, ItemsSame DEF Link
<1>2. CASE IsLast(reg[t].last)
  <2> DEFINE e == reg[t].last
             n == node[t]
             p == Path(Nodes, next, head)
             q == Path(Nodes, next', head)
             h == Length - 1
             u == Items(next', val, head)
             P == {Contents[k] : k \in 1 .. h} \cup {u[k] : k \in 1 .. h + 1}
  <2>1. /\ op[t] = "push" /\ next' = [next EXCEPT ![e] = n] /\ next[e] = NULL
    BY <1>0, <1>2 DEF Link, IsLast, LocalsOf
  <2>2. n \in Nodes /\ n \notin Listed /\ next[n] = NULL /\ val[n] \in Values
    BY <1>0, <2>1, HeldAlone DEF PushOf, Filled, Unfinished
  <2>3. e \in Listed /\ Listed \subseteq Nodes
    <3>1. Safe(t, e)
      BY <1>0, <2>1 DEF TailOf, Loaded, Unfinished
    <3> QED
      BY <1>0, <2>1, <3>1, ListShape DEF Safe, Linked
  <2>4. /\ next'[e] = n /\ next'[n] = NULL
        /\ \A m \in Listed \ {e} : next'[m] = next[m]
    BY <1>0, <2>1, <2>2, <2>3 DEF TypeOK
  <2>5. /\ Length \in Nat \ {0} /\ PathLength(Nodes, next', head) = Length + 1
        /\ \A k \in 0 .. Length - 1 : q[k] = p[k]
        /\ q[Length] = n
    <3>1. /\ next[e] \notin Nodes /\ next'[n] \notin Nodes
          /\ n \in Nodes \ Chain(Nodes, next, head)
      BY <2>1, <2>2, <2>4, QueueAssumption DEF Listed
    <3>2. /\ e \in Chain(Nodes, next, head) /\ Acyclic(Nodes, next, head)
          /\ \A m \in Chain(Nodes, next, head) \ {e} : next'[m] = next[m]
      BY <1>0, <2>3, <2>4 DEF Straight, Listed
    <3> DEFINE succ2 == next'
               c == PathLength(Nodes, next, head)
    <3>3. /\ succ2[e] = n /\ succ2[n] \notin Nodes
          /\ \A m \in Chain(Nodes, next, head) \ {e} : succ2[m] = next[m]
      BY <2>4, <3>1, <3>2
    <3> HIDE DEF e, n, succ2, p, q, h, u, P
    <3>4. /\ c \in Nat \ {0}
          /\ PathLength(Nodes, succ2, head) = c + 1
          /\ \A k \in 0 .. c - 1 :
                Path(Nodes, succ2, head)[k] = Path(Nodes, next, head)[k]
          /\ Path(Nodes, succ2, head)[c] = n
      BY <3>1, <3>2, <3>3, FiniteAssumption, PathAppend
    <3> QED
      BY <3>4 DEF Length, succ2, p, q, n
  <2>6. /\ Contents = [k \in 1 .. h |-> val[p[k]]]
        /\ u = [k \in 1 .. h + 1 |-> val[q[k]]]
    BY <2>5 DEF Contents, Items
  <2>7. Contents' = u
    BY <1>0 DEF Contents, Length, Items
  <2> HIDE DEF p, q, u
  <2>8. h \in Nat /\ h + 1 = Length
    BY <2>5
  <2>9. u[h + 1] = val[n] /\ \A k \in 1 .. h : u[k] = Contents[k]
    BY <2>5, <2>6, <2>8
  <2> HIDE DEF h
  <2>10. Contents \in [1 .. h -> P] /\ u \in [1 .. h + 1 -> P]
    <3>1. DOMAIN u = 1 .. h + 1 /\ u = [k \in 1 .. h + 1 |-> u[k]]
      BY <2>6
    <3>2. DOMAIN Contents = 1 .. h /\ Contents = [k \in 1 .. h |-> Contents[k]]
      BY <2>6
    <3> QED
      BY <3>1, <3>2
  <2> HIDE DEF P
  <2>11. u = Append(Contents, u[h + 1])
    BY <2>8, <2>9, <2>10, SequenceAppend
  <2> QED
    BY <2>2, <2>7, <2>9, <2>11 DEF Fifo!Push
<1> QED
  BY <1>1, <1>2

(* The other writes are of nodes that are not in the list. *)
LEMMA WriteOrder ==
    ASSUME Sound, NEW n \in Nodes, n \notin Listed, head' = head,
           NEW w, next' = [next EXCEPT ![n] = NULL], val' = [val EXCEPT ![n] = w]
    PROVE  Contents' = Contents
<1>1. \A m \in Listed : next'[m] = next[m] /\ val'[m] = val[m]
  BY ListShape DEF Sound, TypeOK
<1> QED
  BY <1>1, ItemsSame

LEMMA StepRefines ==
    Sound /\ Filled /\ [Next]_vars => [Fifo!Push \/ Fifo!Pop \/ head' = NULL]_Contents
<1> SUFFICES ASSUME Sound, Filled, [Next]_vars
             PROVE  \/ Fifo!Push \/ Fifo!Pop \/ head' = NULL
                    \/ Contents' = Contents
  OBVIOUS
<1>1. ASSUME NEW t \in Threads, StartPush(t)
      PROVE  Contents' = Contents
  <2>1. PICK n \in free, w \in Values :
            /\ next' = [next EXCEPT ![n] = NULL] /\ val' = [val EXCEPT ![n] = w]
    BY <1>1 DEF StartPush, Alloc
  <2>2. n \in Nodes /\ n \notin Listed
    BY DEF Sound, TypeOK, Placed
  <2> QED
    BY <1>1, <2>1, <2>2, WriteOrder DEF StartPush, queue
<1>2. ASSUME NEW n \in Nodes, Collect(n)
      PROVE  Contents' = Contents
  <2>1. n \notin Listed
    BY <1>2 DEF Sound, Placed, Collect, Ebr!Collect, Ebr!Retired
  <2> QED
    BY <1>2, <2>1, WriteOrder DEF Collect, queue
<1>3. ASSUME NEW t \in Threads,
             \/ StartPop(t) \/ LoadLast(t) \/ LoadFirst(t) \/ LoadNext(t) \/ Check(t)
             \/ Help(t) \/ Swing(t) \/ Read(t) \/ Put(t) \/ Exit(t)
      PROVE  Contents' = Contents
  <2>1. head' = head /\ next' = next /\ val' = val
    BY <1>3 DEF StartPop, LoadLast, LoadFirst, LoadNext, Check, Help, Swing, Read, Put,
       Exit, queue, memory
  <2> QED
    BY <2>1, ItemsSame
<1>4. ASSUME Destroy PROVE head' = NULL
  BY <1>4 DEF Destroy
<1>5. CASE UNCHANGED vars
  BY <1>5, ItemsSame DEF vars, queue, memory
<1> QED
  BY <1>1, <1>2, <1>3, <1>4, <1>5, CasOrder, LinkOrder DEF Next, Step

LEMMA InitRefines == Init => Fifo!Init /\ Filled
<1> SUFFICES ASSUME Init PROVE Fifo!Init /\ Filled
  OBVIOUS
<1>1. PICK n \in Nodes : Created(n)
  BY DEF Init
<1>2. head = n /\ next[n] = NULL
  BY <1>1 DEF Created
<1>3. Chain(Nodes, next, NULL) = {} /\ Acyclic(Nodes, next, NULL)
  BY QueueAssumption, ChainEmpty DEF Acyclic
<1>4. PathLength(Nodes, next, NULL) = 0
  BY <1>3, FiniteAssumption, LengthDef, FS_EmptySet
<1>5. Length = 1
  BY <1>2, <1>3, <1>4, FiniteAssumption, PathPush DEF Length
<1>6. Contents = <<>>
  BY <1>5 DEF Contents
<1> QED
  BY <1>6 DEF Fifo!Init, Init, Filled, Unfinished

(* The queue implements FifoQueue until q_destroy, or until a pop has      *)
(* overtaken the tail: a link that finds the last node is one push, a swap *)
(* of the head is one pop, and no other step changes what the queue holds. *)
THEOREM Refinement == Spec => ImplementsFifo
<1> DEFINE Carries == overtaken \/ Filled
<1>1. Init => Fifo!Init /\ Carries
  BY InitRefines
<1>2. IInv /\ Carries /\ [Next]_vars => Carries'
  BY FilledStep, StaysOvertaken DEF IInv
<1>3. IInv /\ Carries /\ [Next]_vars =>
          [overtaken \/ Fifo!Push \/ Fifo!Pop \/ head' = NULL]_Contents
  BY StepRefines DEF IInv
<1> HIDE DEF Carries
<1> QED
  BY <1>1, <1>2, <1>3, Invariance, PTL DEF Spec, ImplementsFifo
=============================================================================
