---------------------------- MODULE LockFreeList ----------------------------
(***************************************************************************)
(* The lock-free linked list of linked_list/lock_free/linked_list.c: a     *)
(* sorted list between two sentinels, where a node is removed by marking   *)
(* its next word and is then unlinked by whoever comes along.  Nodes come  *)
(* from malloc and go back to it through ebr_put, taken here by what it    *)
(* promises (GracePeriod).  Each load and compare-and-swap of a next word  *)
(* is a step; the key of a node does not change while the node lives.      *)
(*                                                                         *)
(* ll_lookup loads the first pointer before it calls ebr_enter, and the    *)
(* node it points to may be unlinked and freed in this gap.  The variable  *)
(* late names the lookups to which this happened: they walk what is left.  *)
(*                                                                         *)
(* ll_range and ll_print change nothing and are not modelled; nor is the   *)
(* key UINT64_MAX, which the tail sentinel would answer for.               *)
(*                                                                         *)
(* An operator named Faulty... is a variant of the next definition with a  *)
(* defect that some property must detect.                                  *)
(***************************************************************************)
EXTENDS Chains

CONSTANTS Threads,
          Nodes,                \* what malloc gives out
          HeadNode, TailNode, NULL,     \* the sentinels, the null pointer
          MaxKey,               \* the keys are 1 .. MaxKey
          Junk                  \* what a freed node may hold

ASSUME ListAssumption == /\ IsFiniteSet(Nodes)
                         /\ Nodes \cap {HeadNode, TailNode, NULL} = {}
                         /\ HeadNode # TailNode /\ HeadNode # NULL /\ TailNode # NULL
                         /\ MaxKey \in Nat

VARIABLES next,                 \* the tagged next words
          key, free,            \* the nodes, and those malloc may return
          alive,                \* until ll_destroy
          inside, waits,        \* reclamation, see GracePeriod
          pc, op, k,            \* a thread's place, call and argument
          pred, curr, word,     \* its locals, word being curr_markable_v
          node,                 \* the node of an ll_insert
          ret,                  \* 0 ("yes"), or an error ("no")
          seen,                 \* history variable, see Observe
          late                  \* history variable, see Cut

memory == <<next, key, free>>
ebr    == <<inside, waits>>
local  == <<pred, curr, word, node>>
vars   == <<memory, alive, ebr, pc, op, k, local, ret, seen, late>>

Ebr == INSTANCE GracePeriod

Keys    == 1 .. MaxKey
AllNode == Nodes \cup {HeadNode, TailNode}
Pointer == AllNode \cup {NULL}
Words   == [to : Pointer, mark : BOOLEAN]

Plain(n) == [to |-> n, mark |-> FALSE]
Marked(w) == [w EXCEPT !.mark = TRUE]

ASSUME JunkAssumption == Junk \subseteq [word : Words, key : 0 .. MaxKey + 1]

TypeOK == /\ next \in [AllNode -> Words]
          /\ key \in [AllNode -> 0 .. MaxKey + 1]
          /\ free \subseteq Nodes
          /\ alive \in BOOLEAN
          /\ inside \subseteq Threads
          /\ Ebr!Retired \subseteq Nodes
          /\ waits \in [Ebr!Retired -> SUBSET Threads]
          /\ pc \in [Threads -> {"idle", "head", "curr", "unlink", "put", "alloc",
                                 "insert", "load", "mark", "snip", "retire",
                                 "enter", "walk", "exit"}]
          /\ op \in [Threads -> {"insert", "lookup", "remove"}]
          /\ k \in [Threads -> 0 .. MaxKey]
          /\ pred \in [Threads -> Pointer] /\ curr \in [Threads -> Pointer]
          /\ node \in [Threads -> Pointer]
          /\ word \in [Threads -> Words]
          /\ ret \in [Threads -> {"none", "yes", "no"}]
          /\ seen \in [Threads -> SUBSET BOOLEAN]
          /\ late \subseteq Threads

Init == /\ next = [n \in AllNode |-> Plain(IF n = HeadNode THEN TailNode ELSE NULL)]
        /\ key = [n \in AllNode |-> IF n = TailNode THEN MaxKey + 1 ELSE 0]
        /\ free = Nodes
        /\ alive = TRUE
        /\ Ebr!Init
        /\ pc = [t \in Threads |-> "idle"]
        /\ op = [t \in Threads |-> "insert"]
        /\ k = [t \in Threads |-> 0]
        /\ pred = [t \in Threads |-> NULL]
        /\ curr = [t \in Threads |-> NULL]
        /\ node = [t \in Threads |-> NULL]
        /\ word = [t \in Threads |-> Plain(NULL)]
        /\ ret = [t \in Threads |-> "none"]
        /\ seen = [t \in Threads |-> {}]
        /\ late = {}

-----------------------------------------------------------------------------
(* The nodes on the chain that starts at a node, marked ones included.     *)
Link    == [n \in AllNode |-> next[n].to]
From(n) == Visited(AllNode, Link, n)
Listed  == From(HeadNode)

(* The keys in the set: a node is in it until its next word is marked.     *)
Contents == {key[n] : n \in {m \in Listed \cap Nodes : ~next[m].mark}}

(* History variable: whether the key of the call was in the set, at some   *)
(* moment since the call.                                                  *)
Observe == seen' = [t \in Threads |->
                       IF pc[t] = "idle" THEN {} ELSE seen[t] \cup {k[t] \in Contents'}]

Goto(t, to) == pc' = [pc EXCEPT ![t] = to]
Retry(t)    == Goto(t, "head")

(* The call has its answer, and its pointers are dead.                     *)
Finish(t, r) == /\ Goto(t, "exit")
                /\ ret' = [ret EXCEPT ![t] = r]
                /\ pred' = [pred EXCEPT ![t] = NULL]
                /\ curr' = [curr EXCEPT ![t] = NULL]
                /\ node' = [node EXCEPT ![t] = NULL]
                /\ word' = [word EXCEPT ![t] = Plain(NULL)]

-----------------------------------------------------------------------------
(* The call of an operation and its argument.                              *)
Call(t, o) == /\ pc[t] = "idle" /\ alive
              /\ op' = [op EXCEPT ![t] = o]
              /\ \E x \in Keys : /\ k' = [k EXCEPT ![t] = x]
                                 /\ seen' = [seen EXCEPT ![t] = {(x \in Contents)}]
              /\ UNCHANGED <<memory, alive, ret, late>>

(* Walks the list without ebr_enter.                                       *)
FaultyProtect(t) == UNCHANGED ebr

Protect(t) == Ebr!Enter(t)

(* ll_insert and ll_remove.                                                *)
Update(t) == /\ \E o \in {"insert", "remove"} : Call(t, o)
             /\ Protect(t)
             /\ Goto(t, "head")
             /\ UNCHANGED local

(* ll_lookup: the first load, ebr_enter, and the walk.                     *)
Lookup(t) == /\ Call(t, "lookup")
             /\ curr' = [curr EXCEPT ![t] = next[HeadNode].to]
             /\ Goto(t, "enter")
             /\ UNCHANGED <<ebr, pred, word, node>>

Enter(t) == /\ pc[t] = "enter"
            /\ Ebr!Enter(t)
            /\ Goto(t, "walk")
            /\ UNCHANGED <<memory, alive, late, op, k, local, ret, seen>>

(* Finds a node that was removed.                                          *)
FaultyPresent(t) == key[curr[t]] = k[t]

Present(t) == key[curr[t]] = k[t] /\ ~next[curr[t]].mark

(* A load from an address that is no node, which NULL stands for, ends the *)
(* process: the call stays where it is.                                    *)
Walk(t) ==
    /\ pc[t] = "walk" /\ curr[t] # NULL
    /\ IF key[curr[t]] < k[t]
         THEN /\ curr' = [curr EXCEPT ![t] = next[curr[t]].to]
              /\ UNCHANGED <<pc, pred, word, node, ret>>
         ELSE Finish(t, IF Present(t) THEN "yes" ELSE "no")
    /\ UNCHANGED <<memory, alive, ebr, late, op, k, seen>>

-----------------------------------------------------------------------------
(* find: start at the head.                                                *)
FindHead(t) ==
    /\ pc[t] = "head"
    /\ pred' = [pred EXCEPT ![t] = HeadNode]
    /\ curr' = [curr EXCEPT ![t] = next[HeadNode].to]
    /\ Goto(t, "curr")
    /\ UNCHANGED <<memory, alive, ebr, late, op, k, word, node, ret, seen>>

(* Stops behind the node it looks for.                                     *)
FaultyArrived(t) == key[curr[t]] > k[t]

(* The key of the current node is not below the one looked for.            *)
Arrived(t) == key[curr[t]] >= k[t]
Hit(t)     == key[curr[t]] = k[t]

(* find: load the next word of the current node.  A marked node is to be   *)
(* unlinked, one before the key is passed, and at another find returns.    *)
FindCurr(t) ==
    /\ pc[t] = "curr"
    /\ LET w == next[curr[t]] IN
       \/ /\ w.mark
          /\ word' = [word EXCEPT ![t] = w]
          /\ Goto(t, "unlink")
          /\ UNCHANGED <<pred, curr, node, ret>>
       \/ /\ ~w.mark /\ ~Arrived(t)
          /\ pred' = [pred EXCEPT ![t] = curr[t]]
          /\ curr' = [curr EXCEPT ![t] = w.to]
          /\ UNCHANGED <<pc, word, node, ret>>
       \/ /\ ~w.mark /\ Arrived(t)
          /\ \/ Hit(t) /\ op[t] = "insert" /\ Finish(t, "no")
             \/ ~Hit(t) /\ op[t] = "remove" /\ Finish(t, "no")
             \/ /\ ~Hit(t) /\ op[t] = "insert" /\ Goto(t, "alloc")
                /\ UNCHANGED <<local, ret>>
             \/ /\ Hit(t) /\ op[t] = "remove" /\ Goto(t, "load")
                /\ UNCHANGED <<local, ret>>
    /\ UNCHANGED <<memory, alive, ebr, late, op, k, seen>>

(* Does not look at the mark of the predecessor.                           *)
FaultyLinked(t) == next[pred[t]].to = curr[t]

(* cmpxchg2(&pred->next, curr, x): what it compares, and what it stores.   *)
Linked(t)  == next[pred[t]] = Plain(curr[t])
Swap(t, x) == next' = [next EXCEPT ![pred[t]] = Plain(x)]

(* The swap that takes the current node off the list.  History variable:   *)
(* the lookups that came from it are late, if they have yet to enter.      *)
Cut(t) == /\ Swap(t, word[t].to)
          /\ late' = late \cup {u \in Threads : pc[u] = "enter" /\ curr[u] = curr[t]}

FindUnlink(t) ==
    /\ pc[t] = "unlink"
    /\ IF Linked(t) THEN Cut(t) /\ Goto(t, "put")
                    ELSE UNCHANGED <<next, late>> /\ Retry(t)
    /\ UNCHANGED <<key, free, alive, ebr, op, k, local, ret, seen>>

FindPut(t) ==
    /\ pc[t] = "put"
    /\ Ebr!Retire(curr[t])
    /\ curr' = [curr EXCEPT ![t] = word[t].to]
    /\ Goto(t, "curr")
    /\ UNCHANGED <<memory, alive, late, op, k, pred, word, node, ret, seen>>

-----------------------------------------------------------------------------
(* ll_insert: malloc_node; nodes are finite, so malloc may have to wait.   *)
Alloc(t) ==
    /\ pc[t] = "alloc"
    /\ \E n \in free : /\ node' = [node EXCEPT ![t] = n]
                       /\ free' = free \ {n}
                       /\ key' = [key EXCEPT ![n] = k[t]]
                       /\ next' = [next EXCEPT ![n] = Plain(curr[t])]
    /\ Goto(t, "insert")
    /\ UNCHANGED <<alive, ebr, late, op, k, pred, curr, word, ret, seen>>

Insert(t) ==
    /\ pc[t] = "insert"
    /\ IF Linked(t)
         THEN /\ Swap(t, node[t])
              /\ Finish(t, "yes")
              /\ UNCHANGED free
         ELSE /\ free' = free \cup {node[t]}
              /\ node' = [node EXCEPT ![t] = NULL]
              /\ Retry(t)
              /\ UNCHANGED <<next, pred, curr, word, ret>>
    /\ UNCHANGED <<key, alive, ebr, late, op, k>>
    /\ Observe

-----------------------------------------------------------------------------
(* ll_remove: load the next word again, mark it, unlink the node.          *)
RemoveLoad(t) ==
    /\ pc[t] = "load"
    /\ word' = [word EXCEPT ![t] = next[curr[t]]]
    /\ Goto(t, "mark")
    /\ UNCHANGED <<memory, alive, ebr, late, op, k, pred, curr, node, ret, seen>>

RemoveMark(t) ==
    /\ pc[t] = "mark"
    /\ IF next[curr[t]] = Plain(word[t].to)
         THEN /\ next' = [next EXCEPT ![curr[t]] = Marked(word[t])]
              /\ ret' = [ret EXCEPT ![t] = "yes"]
              /\ Goto(t, "snip")
         ELSE UNCHANGED <<next, ret>> /\ Retry(t)
    /\ UNCHANGED <<key, free, alive, ebr, late, op, k, local>>
    /\ Observe

(* Retires the node although another thread unlinked it.                   *)
FaultyUnlinks(t) == TRUE

(* Whether the remover itself takes the node off the list.                 *)
Unlinks(t) == Linked(t)

RemoveSnip(t) ==
    /\ pc[t] = "snip"
    /\ IF Linked(t) THEN Cut(t) ELSE UNCHANGED <<next, late>>
    /\ IF Unlinks(t) THEN Goto(t, "retire") /\ UNCHANGED <<local, ret>> ELSE Finish(t, "yes")
    /\ UNCHANGED <<key, free, alive, ebr, op, k, seen>>

RemovePut(t) ==
    /\ pc[t] = "retire"
    /\ Ebr!Retire(curr[t])
    /\ Finish(t, "yes")
    /\ UNCHANGED <<memory, alive, late, op, k, seen>>

-----------------------------------------------------------------------------
(* ebr_exit and the return.                                                *)
Exit(t) ==
    /\ pc[t] = "exit"
    /\ Ebr!Exit(t)
    /\ Goto(t, "idle")
    /\ op' = [op EXCEPT ![t] = "insert"]
    /\ k' = [k EXCEPT ![t] = 0]
    /\ ret' = [ret EXCEPT ![t] = "none"]
    /\ seen' = [seen EXCEPT ![t] = {}]
    /\ late' = late \ {t}
    /\ UNCHANGED <<memory, alive, local>>

(* free_node, called by the collector.                                     *)
Collect(n) ==
    /\ Ebr!Collect(n)
    /\ free' = free \cup {n}
    /\ \E j \in Junk : /\ next' = [next EXCEPT ![n] = j.word]
                        /\ key' = [key EXCEPT ![n] = j.key]
    /\ UNCHANGED <<alive, pc, late, op, k, local, ret, seen>>

(* ll_destroy frees the list, what is left in limbo, and the sentinels.    *)
Destroy ==
    /\ alive /\ alive' = FALSE
    /\ \A t \in Threads : pc[t] = "idle"
    /\ free' = free \cup (Listed \cap Nodes) \cup Ebr!Retired
    /\ waits' = <<>>
    /\ next' = [n \in AllNode |-> Plain(NULL)]
    /\ UNCHANGED <<key, inside, pc, late, op, k, local, ret, seen>>

Step(t) == \/ Update(t) \/ Lookup(t) \/ Enter(t) \/ Walk(t)
           \/ FindHead(t) \/ FindCurr(t) \/ FindUnlink(t) \/ FindPut(t)
           \/ Alloc(t) \/ Insert(t)
           \/ RemoveLoad(t) \/ RemoveMark(t) \/ RemoveSnip(t) \/ RemovePut(t)
           \/ Exit(t)

Next == Destroy \/ (\E t \in Threads : Step(t)) \/ (\E n \in Nodes : Collect(n))

Spec == Init /\ [][Next]_vars
-----------------------------------------------------------------------------
(* No insert or removal reads or swaps a word of a node that was freed,    *)
(* and no lookup reads one that began its walk in time: whose first node   *)
(* was on the list until it had called ebr_enter.                          *)
NoUseAfterFree ==
    \A t \in Threads :
        /\ pc[t] \in {"curr", "load", "mark"} => curr[t] \notin free
        /\ pc[t] \in {"unlink", "insert", "snip"} => pred[t] \notin free
        /\ pc[t] = "walk" /\ t \notin late => curr[t] \notin free

(* No lookup reads a node that was freed: what the pair of ebr_enter and   *)
(* ebr_exit in ll_lookup is for, and does not give.                        *)
NoLateRead == \A t \in Threads : pc[t] = "walk" => curr[t] \notin free

(* No node is freed or retired twice, or lost: it is free, on the chain,   *)
(* in limbo, or about to enter one of them in the hands of one thread.     *)
Private  == {node[t] : t \in Threads} \ {NULL}
Snipped  == {t \in Threads : pc[t] \in {"put", "retire"}}
Unlinked == {curr[t] : t \in Snipped}

Conservation ==
    LET listed == Listed \cap Nodes IN
    /\ Private \cup Unlinked \subseteq Nodes
    /\ alive => Nodes \subseteq free \cup listed \cup Ebr!Retired \cup Private \cup Unlinked
    /\ free \cap (listed \cup Ebr!Retired \cup Private \cup Unlinked) = {}
    /\ listed \cap (Ebr!Retired \cup Private \cup Unlinked) = {}
    /\ Ebr!Retired \cap (Private \cup Unlinked) = {}
    /\ Private \cap Unlinked = {}
    /\ \A t, u \in Threads : node[t] = node[u] /\ node[t] # NULL => t = u
    /\ \A t, u \in Snipped : curr[t] = curr[u] => t = u

(* The chain is sorted strictly, marked nodes included, so no key is in    *)
(* the set twice, whatever inserts and removals overlap.                   *)
Sorted == /\ TypeOK
          /\ alive => \A n \in Listed \ {TailNode} : key[n] < key[next[n].to]

(* An answer was right at some moment of the call: a key that is said to   *)
(* be there was there, one that is said to be missing was missing; but for *)
(* a lookup that is late.                                                  *)
AnswersHappened ==
    \A t \in Threads :
        pc[t] = "exit" =>
            /\ op[t] = "lookup" /\ t \notin late => (ret[t] = "yes") \in seen[t]
            /\ op[t] = "insert" /\ ret[t] = "no" => TRUE \in seen[t]
            /\ op[t] = "remove" /\ ret[t] = "no" => FALSE \in seen[t]

(* Each ll_insert and ll_remove that returns 0 changed the set, once, by   *)
(* its swap, and nothing else did; ll_destroy ends the set.                *)
Outcome == [t \in Threads |->
               CASE ret[t] = "yes" /\ op[t] # "lookup" -> "changed"
                 [] ret[t] = "no" \/ (ret[t] = "yes" /\ op[t] = "lookup") -> "failed"
                 [] OTHER -> "none"]

Set == INSTANCE LinearSet WITH keys <- Contents, outcome <- Outcome
ImplementsSet == Set!Init /\ [][Set!Next \/ ~alive']_<<Contents, Outcome>>
-----------------------------------------------------------------------------
(* The inductive invariant.  The keys of the sentinels enclose the others, *)
(* the chain is sorted, and what left it was marked, and links to a node.  *)
Ends == /\ key[HeadNode] = 0 /\ key[TailNode] = MaxKey + 1
        /\ next[TailNode] = Plain(NULL) /\ ~next[HeadNode].mark

Rising == alive => \A n \in Listed \ {TailNode} : /\ next[n].to \in AllNode
                                              /\ key[n] < key[next[n].to]

Dead == \A n \in Ebr!Retired \cup Unlinked : next[n].mark /\ next[n].to \in AllNode

(* t may read n: it is not freed before t has left.                        *)
Safe(t, n) == \/ n \in Listed \cup Unlinked
              \/ n \in Ebr!Retired /\ t \in waits[n]

(* The node shows that a key is not in the set as long as it is listed.    *)
Lacks(n, x) == \/ key[n] = x /\ next[n].mark
               \/ /\ next[n].to \in AllNode
                  /\ key[n] < x /\ x < key[next[n].to]

(* From n, t meets only nodes it may read, and what they show was true     *)
(* since t's call began, on the chain or on what hangs off it.             *)
Walkable(t, n) == /\ n \in AllNode
                  /\ \A m \in From(n) : /\ Safe(t, m)
                                        /\ Lacks(m, k[t]) => FALSE \in seen[t]

Walking == {"curr", "unlink", "put", "alloc", "insert", "load", "mark", "snip",
            "walk"}

(* In the gap, or late, a lookup may stand on a node that was freed.       *)
Firm(t) == pc[t] \notin {"idle", "enter"} /\ (pc[t] = "walk" => t \notin late)

LocalsOf(t) ==
    /\ IF pc[t] = "insert"
         THEN node[t] \in Nodes /\ next[node[t]] = Plain(curr[t]) /\ key[node[t]] = k[t]
         ELSE node[t] = NULL
    /\ ret[t] \in CASE pc[t] = "exit" -> {"yes", "no"}
                     [] pc[t] \in {"snip", "retire"} -> {"yes"}
                     [] OTHER -> {"none"}
    /\ pc[t] = "idle" => seen[t] = {}
    /\ pc[t] # "idle" => alive /\ k[t] \in Keys /\ (k[t] \in Contents) \in seen[t]
    /\ pc[t] \notin {"idle", "enter"} => t \in inside
    /\ CASE pc[t] \in {"enter", "walk"} -> op[t] = "lookup"
         [] pc[t] \in {"alloc", "insert"} -> op[t] = "insert"
         [] pc[t] \in {"load", "mark", "snip", "retire"} -> op[t] = "remove"
         [] pc[t] \in {"head", "curr", "unlink", "put"} -> op[t] # "lookup"
         [] OTHER -> TRUE
    /\ pc[t] \in Walking /\ Firm(t) => /\ Walkable(t, curr[t])
                                       /\ key[curr[t]] > k[t] => FALSE \in seen[t]
    /\ pc[t] \in Walking \ {"walk"} =>
          pred[t] \in AllNode /\ Safe(t, pred[t]) /\ key[pred[t]] < k[t]
    /\ pc[t] \in {"unlink", "put"} => word[t] = next[curr[t]] /\ word[t].mark
    /\ pc[t] = "snip" => next[curr[t]] = Marked(word[t])
    /\ pc[t] \in {"alloc", "insert"} => key[curr[t]] > k[t]
    /\ pc[t] \in {"load", "mark", "snip"} => key[curr[t]] = k[t]

AnswerOf(t) ==
    pc[t] = "exit" =>
        /\ op[t] = "lookup" /\ t \notin late => (ret[t] = "yes") \in seen[t]
        /\ op[t] = "insert" /\ ret[t] = "no" => TRUE \in seen[t]
        /\ op[t] = "remove" /\ ret[t] = "no" => FALSE \in seen[t]

Locals == \A t \in Threads : LocalsOf(t) /\ AnswerOf(t)

(* Before ebr_enter a lookup stands on the list, where it is not late.     *)
Gaps == \A t \in Threads :
            pc[t] = "enter" /\ t \notin late =>
                /\ curr[t] \in Listed
                /\ key[curr[t]] > k[t] => FALSE \in seen[t]

IInv == TypeOK /\ Ends /\ Rising /\ Dead /\ Conservation /\ Locals /\ Gaps
=============================================================================
