-------------------------------- MODULE Stack --------------------------------
(***************************************************************************)
(* The stack of stack/stack.c in its two builds: a call that loses the     *)
(* race for the head either backs off, or meets another call in the        *)
(* exchanger of stack/eliminator.h, where a push may hand its node to a    *)
(* pop.  A value is known by the node that holds it.  One exchanger stands *)
(* for the array: calls that drew different ones do not meet.  Each load,  *)
(* store and compare-and-swap of a shared word is a step; a timeout may    *)
(* come whenever the code looks at the clock.                              *)
(*                                                                         *)
(* An operator named Faulty... is a variant of the next definition with a  *)
(* defect that some property must detect.                                  *)
(***************************************************************************)
EXTENDS Naturals, Sequences, FiniteSets, Chains

CONSTANTS Threads, Nodes,
          NULL          \* the null pointer, and the 0 a pop offers

ASSUME StackAssumption == NULL \notin Nodes
ASSUME FiniteAssumption == IsFiniteSet(Nodes)

VARIABLES build,                \* which #ifdef; "none" after s_destroy
          head, next, free,     \* the stack, its nodes, what malloc may return
          slot,                 \* ev of the exchanger
          inside, waits,        \* reclamation, see GracePeriod
          pc, op,
          node,                 \* the node of a s_push
          reg,                  \* the locals top, next and old_ev
          lost                  \* history: nodes of pushes that timed out

memory == <<head, next, free>>
ebr    == <<inside, waits>>
vars   == <<build, memory, slot, ebr, pc, op, node, reg, lost>>

Ebr == INSTANCE GracePeriod

Pointer == Nodes \cup {NULL}
Word(v, tag) == [v |-> v, tag |-> tag]
Words   == [v : Pointer, tag : {"EMPTY", "WAITING", "BUSY"}]
Vacant  == Word(NULL, "EMPTY")
NoRegs  == [top |-> NULL, next |-> NULL, ev |-> Vacant]

Owning == {"wait", "withdraw", "late", "take"}

TypeOK == /\ build \in {"BACKOFF", "ELIMINATION", "none"}
          /\ head \in Pointer /\ next \in [Nodes -> Pointer]
          /\ free \subseteq Nodes /\ lost \subseteq Nodes
          /\ slot \in Words
          /\ inside \subseteq Threads /\ Ebr!Retired \subseteq Nodes
          /\ pc \in [Threads -> {"idle", "load", "next", "cas", "put", "exit",
                                 "enter", "peek", "slot", "offer", "answer", "got"}
                                \cup Owning]
          /\ op \in [Threads -> {"push", "pop", "top"}]
          /\ node \in [Threads -> Pointer]
          /\ reg \in [Threads -> [top : Pointer, next : Pointer, ev : Words]]

(* s_create, el_create.                                                    *)
Init == /\ build \in {"BACKOFF", "ELIMINATION"}
        /\ head = NULL /\ free = Nodes /\ slot = Vacant
        /\ next = [n \in Nodes |-> NULL]
        /\ Ebr!Init
        /\ pc = [t \in Threads |-> "idle"] /\ op = [t \in Threads |-> "push"]
        /\ node = [t \in Threads |-> NULL] /\ reg = [t \in Threads |-> NoRegs]
        /\ lost = {}

-----------------------------------------------------------------------------
(* The nodes of the stack, and their order, the top being node 1.          *)
Listed   == Chain(Nodes, next, head)
Height   == PathLength(Nodes, next, head)
Contents == LET path == Path(Nodes, next, head)
            IN  [k \in 1 .. Height |-> path[k - 1]]

At(t, label)  == pc[t] = label /\ build # "none"
Goto(t, to)   == pc' = [pc EXCEPT ![t] = to]
Set(t, r)     == reg' = [reg EXCEPT ![t] = r]

(* The call returns; its locals are dead.                                  *)
Return(t) == /\ Goto(t, "idle") /\ Set(t, NoRegs)
             /\ node' = [node EXCEPT ![t] = NULL] /\ op' = [op EXCEPT ![t] = "push"]

(* alloc_node and ebr_enter; nodes are finite, so malloc may have to wait. *)
StartPush(t) ==
    /\ At(t, "idle")
    /\ \E n \in free : /\ node' = [node EXCEPT ![t] = n]
                       /\ free' = free \ {n}
                       /\ next' = [next EXCEPT ![n] = NULL]
    /\ Ebr!Enter(t) /\ Goto(t, "load")
    /\ UNCHANGED <<build, head, slot, op, reg, lost>>

StartPop(t) ==
    /\ At(t, "idle")
    /\ op' = [op EXCEPT ![t] = "pop"]
    /\ Ebr!Enter(t) /\ Goto(t, "load")
    /\ UNCHANGED <<build, memory, slot, node, reg, lost>>

(* old_top = s->head.  A pop that finds the stack empty returns at once,   *)
(* without ebr_exit.                                                       *)
Load(t) ==
    /\ At(t, "load")
    /\ \/ /\ op[t] = "push"
          /\ next' = [next EXCEPT ![node[t]] = head]
          /\ Set(t, [reg[t] EXCEPT !.top = head]) /\ Goto(t, "cas")
          /\ UNCHANGED <<node, op>>
       \/ op[t] = "pop" /\ head = NULL /\ Return(t) /\ UNCHANGED next
       \/ /\ op[t] = "pop" /\ head # NULL
          /\ Set(t, [reg[t] EXCEPT !.top = head]) /\ Goto(t, "next")
          /\ UNCHANGED <<node, op, next>>
    /\ UNCHANGED <<build, head, free, slot, ebr, lost>>

LoadNext(t) ==
    /\ At(t, "next")
    /\ Set(t, [reg[t] EXCEPT !.next = next[reg[t].top]]) /\ Goto(t, "cas")
    /\ UNCHANGED <<build, memory, slot, ebr, op, node, lost>>

(* Swaps the head without comparing.                                       *)
FaultyUntouched(t) == TRUE

(* What cmpxchg2 compares.                                                 *)
Untouched(t) == head = reg[t].top

(* The loser of the race backs off or goes to the exchanger.               *)
Cas(t) ==
    /\ At(t, "cas")
    /\ \/ /\ Untouched(t) /\ op[t] = "push"
          /\ head' = node[t] /\ Goto(t, "exit") /\ Set(t, NoRegs)
       \/ /\ Untouched(t) /\ op[t] = "pop"
          /\ head' = reg[t].next /\ Goto(t, "put") /\ UNCHANGED reg
       \/ /\ ~ Untouched(t)
          /\ Goto(t, IF build = "ELIMINATION" THEN "slot" ELSE "load")
          /\ Set(t, NoRegs) /\ UNCHANGED head
    /\ UNCHANGED <<build, next, free, slot, ebr, op, node, lost>>

(* Frees the node at once.                                                 *)
FaultyDiscard(n) == free' = free \cup {n} /\ UNCHANGED ebr

(* A popped node goes to ebr_put.                                          *)
Discard(n) == Ebr!Retire(n) /\ UNCHANGED free

Put(t) ==
    /\ At(t, "put")
    /\ Discard(reg[t].top) /\ Goto(t, "exit") /\ Set(t, NoRegs)
    /\ UNCHANGED <<build, head, next, slot, op, node, lost>>

Exit(t) ==
    /\ At(t, "exit") /\ Ebr!Exit(t) /\ Return(t)
    /\ UNCHANGED <<build, memory, slot, lost>>

-----------------------------------------------------------------------------
(* s_top loads the head before ebr_enter, and leaves without ebr_exit when *)
(* the stack is not empty.                                                 *)
StartTop(t) ==
    /\ At(t, "idle")
    /\ op' = [op EXCEPT ![t] = "top"]
    /\ Set(t, [NoRegs EXCEPT !.top = head]) /\ Goto(t, "enter")
    /\ UNCHANGED <<build, memory, slot, ebr, node, lost>>

EnterTop(t) ==
    /\ At(t, "enter") /\ Ebr!Enter(t)
    /\ Goto(t, IF reg[t].top = NULL THEN "exit" ELSE "peek")
    /\ UNCHANGED <<build, memory, slot, op, node, reg, lost>>

Peek(t) ==
    /\ At(t, "peek") /\ Return(t)
    /\ UNCHANGED <<build, memory, slot, ebr, lost>>

-----------------------------------------------------------------------------
(* s_push takes an exchange that gave it 0 for one with a pop.             *)
Handed(x) == x = NULL

(* The exchange is over and gave x: back to the loop, or done.  A pop that *)
(* got a node has its value and frees it; a push that got 0 leaves, and if *)
(* nobody took its node the value is lost.                                 *)
Over(t, x, timedOut) ==
    /\ Set(t, [NoRegs EXCEPT !.top = IF op[t] = "pop" THEN x ELSE NULL])
    /\ Goto(t, IF op[t] = "push" THEN IF Handed(x) THEN "exit" ELSE "load"
               ELSE IF x # NULL THEN "got" ELSE "load")
    /\ lost' = IF timedOut /\ op[t] = "push" /\ Handed(x) THEN lost \cup {node[t]} ELSE lost

Got(t) ==
    /\ At(t, "got")
    /\ free' = free \cup {reg[t].top}
    /\ next' = [next EXCEPT ![reg[t].top] = NULL]
    /\ Goto(t, "exit") /\ Set(t, NoRegs)
    /\ UNCHANGED <<build, head, slot, ebr, op, node, lost>>

Timeout(t) ==
    /\ At(t, "slot") /\ Over(t, NULL, TRUE)
    /\ UNCHANGED <<build, memory, slot, ebr, op, node>>

(* old_ev = ex->ev, and the switch on its tag.                             *)
Look(t) ==
    /\ At(t, "slot") /\ slot.tag # "BUSY"
    /\ Set(t, [reg[t] EXCEPT !.ev = slot])
    /\ Goto(t, IF slot.tag = "EMPTY" THEN "offer" ELSE "answer")
    /\ UNCHANGED <<build, memory, slot, ebr, op, node, lost>>

(* Writes an exchanger that others may have changed.                       *)
FaultySeen(t) == TRUE

(* What the compare-and-swaps of a new offer and of an answer compare.     *)
Seen(t) == slot = reg[t].ev

Offer(t) ==
    /\ At(t, "offer")
    /\ IF Seen(t)
         THEN slot' = Word(node[t], "WAITING") /\ Goto(t, "wait")
         ELSE Goto(t, "slot") /\ UNCHANGED slot
    /\ Set(t, NoRegs)
    /\ UNCHANGED <<build, memory, ebr, op, node, lost>>

Answer(t) ==
    /\ At(t, "answer")
    /\ IF Seen(t)
         THEN slot' = Word(node[t], "BUSY") /\ Over(t, reg[t].ev.v, FALSE)
         ELSE Goto(t, "slot") /\ Set(t, NoRegs) /\ UNCHANGED <<slot, lost>>
    /\ UNCHANGED <<build, memory, ebr, op, node>>

(* The waiter sees the answer, or runs out of time.                        *)
Wait(t) ==
    /\ At(t, "wait")
    /\ \/ slot.tag = "BUSY" /\ Goto(t, "take") /\ Set(t, [reg[t] EXCEPT !.ev = slot])
       \/ Goto(t, "withdraw") /\ UNCHANGED reg
    /\ UNCHANGED <<build, memory, slot, ebr, op, node, lost>>

(* Empties the slot without comparing.                                     *)
FaultyUnanswered(t) == TRUE

(* The compare-and-swap that takes the offer back.                         *)
Unanswered(t) == slot = Word(node[t], "WAITING")

Withdraw(t) ==
    /\ At(t, "withdraw")
    /\ IF Unanswered(t)
         THEN slot' = Vacant /\ Over(t, NULL, TRUE)
         ELSE Goto(t, "late") /\ UNCHANGED <<slot, reg, lost>>
    /\ UNCHANGED <<build, memory, ebr, op, node>>

(* Someone answered at the last moment.                                    *)
Late(t) ==
    /\ At(t, "late") /\ Set(t, [reg[t] EXCEPT !.ev = slot]) /\ Goto(t, "take")
    /\ UNCHANGED <<build, memory, slot, ebr, op, node, lost>>

Take(t) ==
    /\ At(t, "take")
    /\ slot' = Vacant /\ Over(t, reg[t].ev.v, FALSE)
    /\ UNCHANGED <<build, memory, ebr, op, node>>

-----------------------------------------------------------------------------
(* free_node, called by the collector; what a freed node holds is junk.    *)
Collect(n) ==
    /\ build # "none" /\ Ebr!Collect(n)
    /\ free' = free \cup {n}
    /\ next' = [next EXCEPT ![n] = NULL]
    /\ UNCHANGED <<build, head, slot, pc, op, node, reg, lost>>

(* s_destroy frees the nodes of the stack and those in limbo.              *)
Destroy ==
    /\ build # "none" /\ \A t \in Threads : pc[t] = "idle"
    /\ free' = free \cup Listed \cup Ebr!Retired
    /\ waits' = <<>> /\ head' = NULL /\ build' = "none"
    /\ UNCHANGED <<next, slot, inside, pc, op, node, reg, lost>>

Step(t) == \/ StartPush(t) \/ StartPop(t) \/ Load(t) \/ LoadNext(t) \/ Cas(t)
           \/ Put(t) \/ Exit(t) \/ StartTop(t) \/ EnterTop(t) \/ Peek(t)
           \/ Timeout(t) \/ Look(t) \/ Offer(t) \/ Answer(t)
           \/ Wait(t) \/ Withdraw(t) \/ Late(t) \/ Take(t) \/ Got(t)

Next == Destroy \/ (\E t \in Threads : Step(t)) \/ (\E n \in Nodes : Collect(n))

Spec == Init /\ [][Next]_vars
-----------------------------------------------------------------------------
(* No call follows a pointer into freed memory, neither through the head   *)
(* nor out of the exchanger, although a node a pop got there is freed      *)
(* without a grace period and a pop or s_top may leave its critical        *)
(* section open.  The read of s_top is set aside: its pointer was loaded   *)
(* outside the section.                                                    *)
NoUseAfterFree ==
    \A t \in Threads : pc[t] \in {"next", "put", "got"} => reg[t].top \notin free

(* The node in the hands of a call: of a push until it is linked or a pop  *)
(* has it, of a pop once it is unlinked or on offer in the pop's own slot. *)
Holds(t) ==
    IF op[t] = "push"
      THEN IF \/ pc[t] \in {"load", "cas", "slot", "offer", "answer"}
              \/ pc[t] \in Owning /\ slot # Word(NULL, "BUSY")
             THEN node[t] ELSE NULL
      ELSE IF pc[t] \in {"put", "got"} THEN reg[t].top
           ELSE IF pc[t] \in Owning /\ slot.tag = "BUSY" THEN slot.v ELSE NULL

Hands == {Holds(t) : t \in Threads} \ {NULL}

(* "All these data structures are tested with no memory leak" (README.md:  *)
(* 30, and its line 19 on the elimination stack): s_destroy leaves no node *)
(* allocated.  The code falls short of it when an exchange times out.      *)
NoMemoryLeak == build = "none" => free = Nodes

(* What does hold: every node is in exactly one place, which is free, the  *)
(* stack, limbo, the hands of one call, or lost.  The last is the node of  *)
(* a push whose exchange timed out, the failure NoMemoryLeak is about: no  *)
(* other step of the elimination stack, and none of the other build, loses *)
(* or doubles a value or a node, so nothing else can leak or be freed      *)
(* twice (stack.c:69-143).                                                 *)
Partition ==
    /\ free \cup Listed \cup Ebr!Retired \cup Hands \cup lost = Nodes
    /\ free \cap (Listed \cup Ebr!Retired \cup Hands \cup lost) = {}
    /\ Listed \cap (Ebr!Retired \cup Hands \cup lost) = {}
    /\ Ebr!Retired \cap (Hands \cup lost) = {}
    /\ Hands \cap lost = {}
    /\ \A t, u \in Threads : Holds(t) = Holds(u) /\ Holds(t) # NULL => t = u
    /\ build = "BACKOFF" => lost = {}

Conservation == TypeOK /\ Partition

(* The exchanger never serves two pairs: a slot in use has one owner, the  *)
(* waiter that filled it, and it is the owner's word or an answer to it    *)
(* until the owner has taken the answer, so that the plain store that      *)
(* empties the slot wipes out nobody's offer.                              *)
Owners == {t \in Threads : pc[t] \in Owning}

SlotOwned ==
    /\ slot.tag = "EMPTY" <=> Owners = {}
    /\ \A t, u \in Owners : t = u
    /\ \A t \in Owners :
          /\ slot.tag = "WAITING" => slot.v = node[t] /\ pc[t] \in {"wait", "withdraw"}
          /\ pc[t] = "take" => reg[t].ev = slot

(* The inductive invariant.  What a program point says of the locals:      *)
Exchanging == {"slot", "offer", "answer"} \cup Owning

LocalsOf(t) ==
    /\ pc[t] = "idle" => op[t] = "push"
    /\ pc[t] \notin {"idle", "enter"} => t \in inside
    /\ (node[t] # NULL) <=> (op[t] = "push" /\ pc[t] # "idle")
    /\ op[t] = "top" => pc[t] \in {"enter", "peek", "exit"}
    /\ pc[t] \in {"enter", "peek"} => op[t] = "top"
    /\ pc[t] \in {"next", "put", "got"} => op[t] = "pop" /\ reg[t].top # NULL
    /\ pc[t] = "cas" => IF op[t] = "push" THEN next[node[t]] = reg[t].top
                                           ELSE reg[t].top # NULL
    /\ pc[t] = "offer" => reg[t].ev = Vacant
    /\ pc[t] = "answer" => reg[t].ev.tag = "WAITING"
    /\ pc[t] \in Exchanging => build = "ELIMINATION"

(* A pop reads a node that cannot be freed yet: it is in the stack, about  *)
(* to be retired, or its grace period waits for the pop; so the next word  *)
(* it has read is still the one of the node.                               *)
Reading(t) == op[t] = "pop" /\ pc[t] \in {"next", "cas"}

Safe(t, n) == \/ n \in Listed
              \/ \E u \in Threads : pc[u] = "put" /\ reg[u].top = n
              \/ n \in Ebr!Retired /\ t \in waits[n]

ProtectedOf(t) ==
    Reading(t) => /\ Safe(t, reg[t].top)
                  /\ pc[t] = "cas" => reg[t].next = next[reg[t].top]

Locals    == \A t \in Threads : LocalsOf(t)
Protected == \A t \in Threads : ProtectedOf(t)
Emptied   == slot.tag = "EMPTY" => slot = Vacant
Straight  == Acyclic(Nodes, next, head)

IInv == /\ TypeOK /\ Locals /\ Emptied /\ Straight
        /\ Partition /\ SlotOwned /\ Protected

(* The stack is a stack: each change is one push or one pop of the newest  *)
(* node, in one step, although nodes are reused; s_destroy empties it.     *)
Lifo == INSTANCE LifoStack WITH contents <- Contents, Values <- Nodes
ImplementsLifo ==
    Lifo!Init /\ [][Lifo!Push \/ Lifo!Pop \/ build' = "none"]_Contents
=============================================================================
