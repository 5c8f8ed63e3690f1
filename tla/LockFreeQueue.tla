--------------------------- MODULE LockFreeQueue ---------------------------
(***************************************************************************)
(* The lock-free queue of queue/lock_free/queue.c: a linked list with a    *)
(* dummy node at its head and a tail pointer that may lag one node.  Nodes *)
(* come from malloc and go back to it through ebr_put, which is taken here *)
(* by what it promises (GracePeriod), so an address may be reused.  Each   *)
(* load, store and compare-and-swap of a shared word is a step.            *)
(*                                                                         *)
(* q_pop and q_front load tail, head and head->next, in this order.  Other *)
(* calls may push and pop between the loads of tail and head; the test     *)
(* "first == q->head" does not see it.  Such a call takes an empty queue   *)
(* for one with a node and dereferences null, or moves the head past a     *)
(* lagging tail: NoNullDeref does not hold, and the other properties speak *)
(* of the time until a pop has overtaken the tail.                         *)
(*                                                                         *)
(* An operator named Faulty... is a variant of the next definition with a  *)
(* defect that some property must detect.                                  *)
(***************************************************************************)
EXTENDS Naturals, Sequences, FiniteSets, Chains

CONSTANTS Threads, Nodes, Values,
          NULL          \* the null pointer

ASSUME QueueAssumption == NULL \notin Nodes
ASSUME FiniteAssumption == IsFiniteSet(Nodes)

VARIABLES head, tail,           \* struct queue
          next, val,            \* the nodes
          free,                 \* the nodes malloc may return
          inside, waits,        \* reclamation, see GracePeriod
          pc, op,
          node,                 \* the node a q_push allocated
          reg,                  \* the locals first, last and next
          v,                    \* *v of q_pop and q_front
          seen,                 \* history variable, see Observe
          overtaken             \* history variable: a pop moved the head past the tail

queue  == <<head, tail>>
memory == <<next, val, free>>
ebr    == <<inside, waits>>
local  == <<node, reg, v>>
vars   == <<queue, memory, ebr, pc, op, local, seen, overtaken>>

Ebr == INSTANCE GracePeriod

Pointer == Nodes \cup {NULL}
Empty   == "empty"              \* the answer -ENOENT

TypeOK == /\ head \in Pointer /\ tail \in Pointer
          /\ next \in [Nodes -> Pointer]
          /\ val \in [Nodes -> Values \cup {Empty}]
          /\ free \subseteq Nodes
          /\ inside \subseteq Threads
          /\ Ebr!Retired \subseteq Nodes
          /\ pc \in [Threads -> {"idle", "last", "next", "check", "link", "swing",
                                 "first", "help", "read", "cas", "put", "exit",
                                 "crash"}]
          /\ op \in [Threads -> {"push", "pop", "front"}]
          /\ reg \in [Threads -> [first : Pointer, last : Pointer, next : Pointer]]
          /\ node \in [Threads -> Pointer]
          /\ v \in [Threads -> Values \cup {Empty}]
          /\ seen \in [Threads -> SUBSET (Values \cup {Empty})]
          /\ overtaken \in BOOLEAN

NoRegs == [first |-> NULL, last |-> NULL, next |-> NULL]

(* q_create: a queue that holds its dummy node only.                       *)
Created(n) == /\ head = n /\ tail = n
              /\ next = [m \in Nodes |-> NULL]
              /\ val = [m \in Nodes |-> Empty]
              /\ free = Nodes \ {n}

Init == /\ \E n \in Nodes : Created(n)
        /\ Ebr!Init
        /\ pc = [t \in Threads |-> "idle"]
        /\ op = [t \in Threads |-> "push"]
        /\ node = [t \in Threads |-> NULL]
        /\ reg = [t \in Threads |-> NoRegs]
        /\ v = [t \in Threads |-> Empty]
        /\ seen = [t \in Threads |-> {}]
        /\ overtaken = FALSE

-----------------------------------------------------------------------------
(* The nodes of the list, the first being the dummy, and what is in those  *)
(* after it.                                                               *)
Listed   == Chain(Nodes, next, head)
Length   == PathLength(Nodes, next, head)
Contents == LET path == Path(Nodes, next, head)
            IN  [k \in 1 .. Length - 1 |-> val[path[k]]]

(* What q_front should answer now, the head of Contents, and the history   *)
(* variable: the answers that were right at some moment since a q_pop or   *)
(* q_front was called.                                                     *)
Answer == IF head = NULL \/ next[head] = NULL THEN Empty ELSE val[next[head]]
Asking(t) == pc[t] # "idle" /\ op[t] # "push"
Observe == seen' = [t \in Threads |-> IF Asking(t) THEN seen[t] \cup {Answer'} ELSE {}]

Goto(t, to) == pc' = [pc EXCEPT ![t] = to]

(* The loop starts, again: the loads that follow make the locals new.      *)
Retry(t) == /\ Goto(t, "last")
            /\ reg' = [reg EXCEPT ![t] = NoRegs]

(* The operation is done, and its pointers are dead.                       *)
Finish(t) == Goto(t, "exit") /\ reg' = [reg EXCEPT ![t] = NoRegs]

-----------------------------------------------------------------------------
(* alloc_node; nodes are finite, so malloc may have to wait.               *)
Alloc(t) == \E n \in free, w \in Values :
                /\ node' = [node EXCEPT ![t] = n]
                /\ next' = [next EXCEPT ![n] = NULL]
                /\ val' = [val EXCEPT ![n] = w]
                /\ free' = free \ {n}

(* Uses the queue without ebr_enter.                                       *)
FaultyProtect(t) == UNCHANGED ebr

Protect(t) == Ebr!Enter(t)

(* alloc_node and ebr_enter.                                               *)
StartPush(t) ==
    /\ pc[t] = "idle" /\ head # NULL
    /\ Alloc(t)
    /\ Protect(t)
    /\ op' = [op EXCEPT ![t] = "push"]
    /\ Goto(t, "last")
    /\ UNCHANGED <<queue, reg, v, seen, overtaken>>

StartPop(t) ==
    /\ pc[t] = "idle" /\ head # NULL
    /\ \E o \in {"pop", "front"} :
          /\ op' = [op EXCEPT ![t] = o]
    /\ Goto(t, "last")
    /\ Ebr!Enter(t)
    /\ seen' = [seen EXCEPT ![t] = {Answer}]
    /\ UNCHANGED <<queue, memory, local, overtaken>>

LoadLast(t) ==
    /\ pc[t] = "last"
    /\ reg' = [reg EXCEPT ![t].last = tail]
    /\ Goto(t, IF op[t] = "push" THEN "next" ELSE "first")
    /\ UNCHANGED <<queue, memory, ebr, op, node, v, seen, overtaken>>

LoadFirst(t) ==
    /\ pc[t] = "first"
    /\ reg' = [reg EXCEPT ![t].first = head]
    /\ Goto(t, "next")
    /\ UNCHANGED <<queue, memory, ebr, op, node, v, seen, overtaken>>

(* next = last->next in q_push, first->next in q_pop and q_front.          *)
Anchor(t) == IF op[t] = "push" THEN reg[t].last ELSE reg[t].first

LoadNext(t) ==
    /\ pc[t] = "next"
    /\ reg' = [reg EXCEPT ![t].next = next[Anchor(t)]]
    /\ Goto(t, "check")
    /\ UNCHANGED <<queue, memory, ebr, op, node, v, seen, overtaken>>

(* Takes a lagging tail for the end of the list.                           *)
FaultyFollowEmpty(t) == IF reg[t].first = reg[t].last THEN "empty" ELSE "read"

(* Pops past a lagging tail instead of helping it.                         *)
FaultyFollowTail(t) == IF reg[t].next = NULL THEN "empty" ELSE "read"

(* The tests of q_pop and q_front: is the queue empty, does the tail lag.  *)
Follow(t) == CASE reg[t].first # reg[t].last -> "read"
               [] reg[t].first = reg[t].last /\ reg[t].next = NULL -> "empty"
               [] OTHER -> "help"

(* last == q->tail in q_push, first == q->head in q_pop and q_front.       *)
Unmoved(t) == Anchor(t) = IF op[t] = "push" THEN tail ELSE head

Check(t) ==
    /\ pc[t] = "check"
    /\ \/ /\ ~Unmoved(t)
          /\ Retry(t) /\ UNCHANGED v
       \/ /\ Unmoved(t) /\ op[t] = "push"
          /\ Goto(t, IF reg[t].next = NULL THEN "link" ELSE "help")
          /\ UNCHANGED <<reg, v>>
       \/ /\ Unmoved(t) /\ op[t] # "push" /\ Follow(t) = "empty"
          /\ Finish(t) /\ v' = [v EXCEPT ![t] = Empty]
       \/ /\ Unmoved(t) /\ op[t] # "push" /\ Follow(t) # "empty"
          /\ Goto(t, Follow(t)) /\ UNCHANGED <<reg, v>>
    /\ UNCHANGED <<queue, memory, ebr, op, node, seen, overtaken>>

(* Stores the tail without comparing.                                      *)
FaultySwung(t, n) == n

(* cmpxchg2(&q->tail, last, n): the tail moves on, unless it has already.  *)
Swung(t, n) == IF tail = reg[t].last THEN n ELSE tail

(* Swing a lagging tail.                                                   *)
Help(t) ==
    /\ pc[t] = "help"
    /\ tail' = Swung(t, reg[t].next)
    /\ Retry(t)
    /\ UNCHANGED <<head, memory, ebr, op, node, v, seen, overtaken>>

-----------------------------------------------------------------------------
(* Stores the link without comparing.                                      *)
FaultyIsLast(n) == TRUE

(* What the compare-and-swap of last->next compares.                       *)
IsLast(n) == next[n] = NULL

(* q_push: link the node after the last one, then swing the tail to it.    *)
Link(t) ==
    /\ pc[t] = "link"
    /\ IF IsLast(reg[t].last)
         THEN /\ next' = [next EXCEPT ![reg[t].last] = node[t]]
              /\ Goto(t, "swing") /\ UNCHANGED reg
         ELSE UNCHANGED next /\ Retry(t)
    /\ UNCHANGED <<queue, val, free, ebr, op, node, v, overtaken>>
    /\ Observe

Swing(t) ==
    /\ pc[t] = "swing"
    /\ tail' = Swung(t, node[t])
    /\ Finish(t)
    /\ UNCHANGED <<head, memory, ebr, op, node, v, seen, overtaken>>

-----------------------------------------------------------------------------
(* Reads the value of the dummy.                                           *)
FaultyFront(t) == reg[t].first

(* The node that holds the oldest value.                                   *)
Front(t) == reg[t].next

(* *v = next->v, which a null next does not survive.                       *)
Read(t) ==
    /\ pc[t] = "read"
    /\ IF Front(t) = NULL
         THEN Goto(t, "crash") /\ UNCHANGED <<reg, v>>
         ELSE /\ IF op[t] = "pop" THEN Goto(t, "cas") /\ UNCHANGED reg ELSE Finish(t)
              /\ v' = [v EXCEPT ![t] = val[Front(t)]]
    /\ UNCHANGED <<queue, memory, ebr, op, node, seen, overtaken>>

(* q_pop: the next node becomes the dummy, the old dummy is retired.       *)
Cas(t) ==
    /\ pc[t] = "cas"
    /\ IF head = reg[t].first
         THEN head' = reg[t].next /\ Goto(t, "put") /\ UNCHANGED reg
         ELSE UNCHANGED head /\ Retry(t)
    /\ overtaken' = (overtaken \/ (head' # head /\ head = tail))
    /\ UNCHANGED <<tail, memory, ebr, op, node, v>>
    /\ Observe

(* Forgets the old dummy.                                                  *)
FaultyDiscard(n) == UNCHANGED ebr

(* The old dummy goes to ebr_put.                                          *)
Discard(n) == Ebr!Retire(n)

Put(t) ==
    /\ pc[t] = "put"
    /\ Discard(reg[t].first)
    /\ Finish(t)
    /\ UNCHANGED <<queue, memory, op, node, v, seen, overtaken>>

(* ebr_exit and the return.                                                *)
Exit(t) ==
    /\ pc[t] = "exit"
    /\ Ebr!Exit(t)
    /\ Goto(t, "idle")
    /\ node' = [node EXCEPT ![t] = NULL]
    /\ v' = [v EXCEPT ![t] = Empty]
    /\ op' = [op EXCEPT ![t] = "push"]
    /\ seen' = [seen EXCEPT ![t] = {}]
    /\ UNCHANGED <<queue, memory, reg, overtaken>>

-----------------------------------------------------------------------------
(* free_node, called by the collector; what a freed node holds is junk.    *)
Collect(n) ==
    /\ Ebr!Collect(n)
    /\ free' = free \cup {n}
    /\ next' = [next EXCEPT ![n] = NULL]
    /\ val' = [val EXCEPT ![n] = Empty]
    /\ UNCHANGED <<queue, pc, op, local, seen, overtaken>>

(* q_destroy frees the list and then what is left in limbo.                *)
Destroy ==
    /\ head # NULL
    /\ \A t \in Threads : pc[t] = "idle"
    /\ free' = free \cup Listed \cup Ebr!Retired
    /\ waits' = <<>>
    /\ head' = NULL /\ tail' = NULL
    /\ UNCHANGED <<next, val, inside, pc, op, local, seen, overtaken>>

Step(t) == \/ StartPush(t) \/ StartPop(t)
           \/ LoadLast(t) \/ LoadFirst(t) \/ LoadNext(t) \/ Check(t) \/ Help(t)
           \/ Link(t) \/ Swing(t)
           \/ Read(t) \/ Cas(t) \/ Put(t) \/ Exit(t)

(* A null dereference ends the process.                                    *)
Running == \A t \in Threads : pc[t] # "crash"

Next == Running /\ (Destroy \/ (\E t \in Threads : Step(t)) \/ (\E n \in Nodes : Collect(n)))

Spec == Init /\ [][Next]_vars
-----------------------------------------------------------------------------
(* q_pop and q_front dereference next only when it is a node (queue.c:91,  *)
(* :120).  "All these data structures are available to build and tested",  *)
(* says README.md:28; here the code goes wrong: FailsOnlyBehind says when. *)
NoNullDeref == \A t \in Threads : pc[t] # "crash"

(* Where a call goes wrong: next is null, or the head passes the tail.     *)
Fails(t) == \/ pc[t] = "crash"
            \/ pc[t] = "cas" /\ head = reg[t].first /\ tail = reg[t].first

(* q_pop and q_front go wrong only when the node they loaded from tail is  *)
(* no longer in the list: others popped it before head was loaded.         *)
FailsOnlyBehind ==
    overtaken \/ \A t \in Threads : Fails(t) => reg[t].last \notin Listed

(* Until a pop has overtaken the tail, no thread loads from, or swaps a    *)
(* word of, a node that was freed, though nodes leave the list while       *)
(* others stand on them.                                                   *)
NoUseAfterFree ==
    overtaken \/ \A t \in Threads : /\ pc[t] = "next" => Anchor(t) \notin free
                                    /\ pc[t] = "link" => reg[t].last \notin free
                                    /\ pc[t] = "read" => reg[t].next \notin free

(* The node in the hands of a call: of a push until it is linked, of a pop *)
(* from the swap of the head until ebr_put.                                *)
Unfinished == {"last", "next", "check", "help", "link"}

Holds(t) == IF op[t] = "push" /\ pc[t] \in Unfinished THEN node[t]
            ELSE IF pc[t] = "put" THEN reg[t].first ELSE NULL

Hands == {Holds(t) : t \in Threads} \ {NULL}

Placed ==
    /\ free \cup Listed \cup Ebr!Retired \cup Hands = Nodes
    /\ free \cap (Listed \cup Ebr!Retired \cup Hands) = {}
    /\ Listed \cap (Ebr!Retired \cup Hands) = {}
    /\ Ebr!Retired \cap Hands = {}
    /\ \A t, u \in Threads : Holds(t) = Holds(u) /\ Holds(t) # NULL => t = u

(* Until a pop has overtaken the tail, no node is lost, freed twice or     *)
(* pushed twice: each is in one place, it is free, in the list, in limbo,  *)
(* or in the hands of one call.                                            *)
Conservation == overtaken \/ Placed

Oldest == \A t \in Threads : pc[t] = "cas" /\ head = reg[t].first => v[t] = Answer

(* The value q_pop read is the oldest one when its compare-and-swap of the *)
(* head succeeds, the one that overtakes the tail included, although nodes *)
(* are reused in between.                                                  *)
PopTakesOldest == overtaken \/ Oldest

(* -ENOENT and the value of q_front were right at some moment of the call. *)
AnswersHappened ==
    overtaken \/ \A t \in Threads :
        pc[t] = "exit" /\ op[t] # "push" /\ (op[t] = "front" \/ v[t] = Empty)
            => v[t] \in seen[t]

TailLinked == head # NULL => /\ next[tail] # NULL => next[next[tail]] = NULL
                             /\ tail \in Listed

(* Until a pop has overtaken it, the tail is in the list and at most one   *)
(* node behind its end: a push and a help step repair it.                  *)
TailNear == overtaken \/ TailLinked

-----------------------------------------------------------------------------
(* The inductive invariant.  Where a call can be, and whom it excludes:    *)
LocalsOf(t) ==
    /\ pc[t] = "idle" => op[t] = "push"
    /\ pc[t] # "idle" => t \in inside /\ head # NULL
    /\ pc[t] \in {"link", "swing"} => op[t] = "push"
    /\ pc[t] \in {"first", "read", "crash"} => op[t] # "push"
    /\ pc[t] \in {"cas", "put"} => op[t] = "pop"
    /\ op[t] = "push" /\ pc[t] # "idle" => node[t] # NULL
    /\ pc[t] = "put" => reg[t].first # NULL

(* A node that left the list keeps its link until it is freed, so that a   *)
(* push cannot take it for the last one.                                   *)
Linked == /\ \A n \in Ebr!Retired : next[n] # NULL
          /\ \A t \in Threads : pc[t] = "put" => next[reg[t].first] # NULL

(* A node that cannot be freed before t leaves its critical section.       *)
Safe(t, n) == \/ n \in Listed
              \/ \E u \in Threads : pc[u] = "put" /\ reg[u].first = n
              \/ n \in Ebr!Retired /\ t \in waits[n]

(* What every call knows: the tail did not fall behind the node it loaded. *)
Loaded(t) == \/ op[t] = "push" /\ pc[t] \in (Unfinished \cup {"swing"}) \ {"last"}
             \/ pc[t] \in {"first", "next", "check", "help", "read", "cas", "crash"}

TailOf(t) ==
    Loaded(t) => /\ Safe(t, reg[t].last)
                 /\ reg[t].last \in Listed => tail \in Chain(Nodes, next, reg[t].last)

(* What a push knows.                                                      *)
PushOf(t) ==
    op[t] = "push" =>
        /\ pc[t] \in Unfinished => next[node[t]] = NULL
        /\ pc[t] = "check" /\ reg[t].next # NULL => next[reg[t].last] = reg[t].next
        /\ pc[t] = "help" => /\ next[reg[t].last] = reg[t].next
                             /\ reg[t].next # NULL
        /\ pc[t] = "swing" => next[reg[t].last] = node[t]

(* What a pop or a look knows: its first node was the head, and the node   *)
(* after it cannot be freed either and held an answer that was right.      *)
Walking(t) == op[t] # "push" /\ pc[t] \in {"next", "check", "help", "read", "cas", "crash"}

PopOf(t) ==
    Walking(t) =>
        /\ Safe(t, reg[t].first)
        /\ reg[t].first \in Listed => head = reg[t].first
        /\ next[reg[t].first] # NULL => /\ Safe(t, next[reg[t].first])
                                        /\ val[next[reg[t].first]] \in seen[t]
        /\ pc[t] # "next" =>
              IF reg[t].next = NULL
                THEN /\ pc[t] \in {"check", "read", "crash"}
                     /\ reg[t].last \in Listed => reg[t].first = reg[t].last
                     /\ Empty \in seen[t]
                ELSE next[reg[t].first] = reg[t].next
        /\ pc[t] = "help" => reg[t].first = reg[t].last
        /\ pc[t] \in {"read", "cas", "crash"} => reg[t].first # reg[t].last
        /\ pc[t] = "crash" => reg[t].next = NULL
        /\ pc[t] = "cas" => v[t] = val[reg[t].next]

(* The history: the answer of now, and the answer given.                   *)
AskOf(t) ==
    Asking(t) => /\ Answer \in seen[t]
                 /\ pc[t] \in {"put", "exit"} => v[t] \in seen[t]

Straight == Acyclic(Nodes, next, head)
Locals   == \A t \in Threads : LocalsOf(t)
Tails    == \A t \in Threads : TailOf(t)
Pushing  == \A t \in Threads : PushOf(t)
Popping  == \A t \in Threads : PopOf(t)
Asked    == \A t \in Threads : AskOf(t)

Sound == /\ TypeOK /\ Straight /\ TailLinked /\ Locals /\ Linked
         /\ Placed /\ Tails /\ Pushing /\ Popping /\ Asked

IInv == overtaken \/ Sound

(* Until a pop has overtaken the tail, and with that pop, every step       *)
(* pushes at the end, pops at the front, or changes nothing; q_destroy     *)
(* discards what is left.                                                  *)
Fifo == INSTANCE FifoQueue WITH contents <- Contents
ImplementsFifo ==
    Fifo!Init /\ [][overtaken \/ Fifo!Push \/ Fifo!Pop \/ head' = NULL]_Contents
=============================================================================
