-------------------------------- MODULE EBR --------------------------------
(***************************************************************************)
(* Epoch-based reclamation, reclamation/ebr.c, driven by the client of its *)
(* own test, ebr_test_fun in reclamation/test.c: threads walk an array of  *)
(* items inside ebr_enter/ebr_exit, access the visible ones, and make one  *)
(* invisible and retire it with ebr_put, which collects (MANUAL_GC unset). *)
(*                                                                         *)
(* ebr->lock is a mutex; what is done under it is split only where another *)
(* thread can see or change something without it.  The walk decides at     *)
(* each item whether it was the last one, as idx is random.  An operator   *)
(* named Faulty... is a variant of the next definition with a defect that  *)
(* some property must detect.                                              *)
(***************************************************************************)
EXTENDS Naturals, FiniteSets

CONSTANTS NumThreads,   \* threads that register (at most MAX_NUM_THREADS)
          N             \* items

ASSUME EBRAssumption == NumThreads \in Nat \ {0} /\ N \in Nat \ {0}

Threads == 0 .. NumThreads - 1
Items   == 0 .. N - 1
Epochs  == 0 .. 2
None    == NumThreads   \* no thread: the owner of a free mutex
ACTIVE  == 4            \* a bit of local_epoch

(* local_epoch is not initialised by ebr_create: until its first ebr_enter *)
(* a thread shows whatever malloc returned.  7 stands for any word with    *)
(* the ACTIVE bit that is no epoch.                                        *)
Words == {0} \cup {e + ACTIVE : e \in 0 .. 3}

VARIABLES
    global_epoch, rt_lists, lock,       \* struct ebr
    used, local_epoch,                  \* its e_nodes
    vis, freed,                         \* the items with vis = 1, free = 1
    pc, pos, epoch,                     \* of each thread: point, item, epoch read
    gc,                                 \* locals of ebr_try_gc (one runs at a time)
    stale, lagged, waits                \* history variables, see below

ebr    == <<global_epoch, rt_lists, lock>>
nodes  == <<used, local_epoch>>
items  == <<vis, freed>>
hist   == <<stale, lagged, waits>>
vars   == <<ebr, nodes, items, pc, pos, epoch, gc, hist>>

Points == {"new", "idle", "enter", "walk", "access", "delete", "put", "gc",
           "scan", "advance", "free", "exit", "done", "abort"}

TypeOK == /\ global_epoch \in Epochs
          /\ rt_lists \in [Epochs -> SUBSET Items]
          /\ lock \in Threads \cup {None}
          /\ used \in [Threads -> BOOLEAN]
          /\ local_epoch \in [Threads -> Words]
          /\ vis \subseteq Items
          /\ freed \subseteq Items
          /\ pc \in [Threads -> Points]
          /\ pos \in [Threads -> Items]
          /\ epoch \in [Threads -> Epochs]
          /\ gc \in [epoch : Epochs, i : Nat, victim : Epochs]
          /\ stale \subseteq Threads
          /\ lagged \subseteq Items
          /\ waits \in [Items -> SUBSET Threads]

(* ebr_create and gen_workload.                                            *)
Init == /\ global_epoch = 0
        /\ rt_lists = [e \in Epochs |-> {}]
        /\ lock = None
        /\ used = [t \in Threads |-> FALSE]
        /\ local_epoch \in [Threads -> Words]
        /\ vis = Items
        /\ freed = {}
        /\ pc = [t \in Threads |-> "new"]
        /\ pos = [t \in Threads |-> 0]
        /\ epoch = [t \in Threads |-> 0]
        /\ gc = [epoch |-> 0, i |-> 0, victim |-> 0]
        /\ stale = {}
        /\ lagged = {}
        /\ waits = [n \in Items |-> {}]

InCS  == {t \in Threads : pc[t] \in {"walk", "access", "delete", "put", "gc", "scan",
                                    "advance", "free", "exit", "abort"}}
Fresh == InCS \ stale          \* published the epoch that was global then

Goto(t, from, to) == pc[t] = from /\ pc' = [pc EXCEPT ![t] = to]

-----------------------------------------------------------------------------
(* ebr_thread_register and ebr_thread_unregister.                          *)
Register(t) ==
    /\ Goto(t, "new", "idle")
    /\ used' = [used EXCEPT ![t] = TRUE]
    /\ UNCHANGED <<ebr, local_epoch, items, pos, epoch, gc, hist>>

Unregister(t) ==
    /\ Goto(t, "idle", "done")
    /\ used' = [used EXCEPT ![t] = FALSE]
    /\ UNCHANGED <<ebr, local_epoch, items, pos, epoch, gc, hist>>

(* ebr_enter reads the global epoch and publishes it later: by then it may *)
(* be out of date, which "stale" records.                                  *)
EnterRead(t) ==
    /\ Goto(t, "idle", "enter")
    /\ epoch' = [epoch EXCEPT ![t] = global_epoch]
    /\ UNCHANGED <<ebr, nodes, items, pos, gc, hist>>

EnterPublish(t) ==
    /\ Goto(t, "enter", "walk")
    /\ local_epoch' = [local_epoch EXCEPT ![t] = epoch[t] + ACTIVE]
    /\ pos' = [pos EXCEPT ![t] = 0]
    /\ stale' = IF epoch[t] = global_epoch THEN stale \ {t} ELSE stale \cup {t}
    /\ UNCHANGED <<ebr, used, items, epoch, gc, lagged, waits>>

(* No item waits for the thread any more.                                  *)
Exit(t) ==
    /\ Goto(t, "exit", "idle")
    /\ local_epoch' = [local_epoch EXCEPT ![t] = 0]
    /\ waits' = [n \in Items |-> waits[n] \ {t}]
    /\ UNCHANGED <<ebr, used, items, pos, epoch, gc, stale, lagged>>

-----------------------------------------------------------------------------
(* The walk goes on to the next item, or this one was the last.            *)
Onward(t, from) ==
    \/ /\ pos[t] + 1 \in Items
       /\ Goto(t, from, "walk")
       /\ pos' = [pos EXCEPT ![t] = @ + 1]
    \/ Goto(t, from, "exit") /\ UNCHANGED pos

(* visable: an item seen with vis = 1 is accessed, or deleted if it is the *)
(* last one and the operation is OP_DEL.                                   *)
Visable(t) ==
    /\ \/ /\ pos[t] \in vis
          /\ Goto(t, "walk", "access") \/ Goto(t, "walk", "delete")
          /\ UNCHANGED pos
       \/ pos[t] \notin vis /\ Onward(t, "walk")
    /\ UNCHANGED <<ebr, nodes, items, epoch, gc, hist>>

(* access_item: assert(!free).                                             *)
Access(t) ==
    /\ IF pos[t] \in freed
         THEN Goto(t, "access", "abort") /\ UNCHANGED pos
         ELSE Onward(t, "access")
    /\ UNCHANGED <<ebr, nodes, items, epoch, gc, hist>>

(* A plain store in place of the compare-and-swap.                         *)
FaultyDelete(t) ==
    /\ Goto(t, "delete", "put")
    /\ vis' = vis \ {pos[t]}
    /\ UNCHANGED <<ebr, nodes, freed, pos, epoch, gc, hist>>

(* logical_del: the thread whose compare-and-swap wins retires the item.   *)
Delete(t) ==
    /\ Goto(t, "delete", IF pos[t] \in vis THEN "put" ELSE "exit")
    /\ vis' = vis \ {pos[t]}
    /\ UNCHANGED <<ebr, nodes, freed, pos, epoch, gc, hist>>

-----------------------------------------------------------------------------
(* ebr_put files the item under the epoch the thread published, which      *)
(* "lagged" records when the global epoch has moved on; "waits" records    *)
(* who is inside and may still use the item.                               *)
Put(t) ==
    LET label == local_epoch[t] - ACTIVE IN
    /\ Goto(t, "put", "gc")
    /\ lock = None
    /\ rt_lists' = [rt_lists EXCEPT ![label] = @ \cup {pos[t]}]
    /\ lagged' = IF label = global_epoch THEN lagged ELSE lagged \cup {pos[t]}
    /\ waits' = [waits EXCEPT ![pos[t]] = InCS]
    /\ UNCHANGED <<global_epoch, lock, nodes, items, pos, epoch, gc, stale>>

(* ebr_try_gc: 99 calls in 100 do nothing.                                 *)
GcSkip(t) ==
    /\ Goto(t, "gc", "exit")
    /\ lock = None
    /\ UNCHANGED <<ebr, nodes, items, pos, epoch, gc, hist>>

GcStart(t) ==
    /\ Goto(t, "gc", "scan")
    /\ lock = None
    /\ lock' = t
    /\ gc' = [gc EXCEPT !.epoch = global_epoch, !.i = 0]
    /\ UNCHANGED <<global_epoch, rt_lists, nodes, items, pos, epoch, hist>>

(* Looks at one slot too few.                                              *)
FaultyBehind(u) == /\ used[u] /\ u # NumThreads - 1
                   /\ local_epoch[u] >= ACTIVE
                   /\ local_epoch[u] # gc.epoch + ACTIVE

(* One registered thread is in another epoch than the one read.            *)
Behind(u) == /\ used[u]
             /\ local_epoch[u] >= ACTIVE
             /\ local_epoch[u] # gc.epoch + ACTIVE

(* Frees the list before the global epoch when a thread is behind.         *)
FaultyGcScan(t) ==
    /\ pc[t] = "scan"
    /\ IF Behind(gc.i)
         THEN /\ Goto(t, "scan", "free")
              /\ gc' = [gc EXCEPT !.victim = (gc.epoch + 2) % 3]
         ELSE /\ Goto(t, "scan", IF gc.i + 1 \in Threads THEN "scan" ELSE "advance")
              /\ gc' = [gc EXCEPT !.i = @ + 1]
    /\ UNCHANGED <<ebr, nodes, items, pos, epoch, hist>>

(* The scan looks at one slot at a time while threads enter and exit.      *)
GcScan(t) ==
    /\ pc[t] = "scan"
    /\ IF Behind(gc.i)
         THEN /\ Goto(t, "scan", "free")
              /\ gc' = [gc EXCEPT !.victim = (gc.epoch + 1) % 3]
         ELSE /\ Goto(t, "scan", IF gc.i + 1 \in Threads THEN "scan" ELSE "advance")
              /\ gc' = [gc EXCEPT !.i = @ + 1]
    /\ UNCHANGED <<ebr, nodes, items, pos, epoch, hist>>

(* Frees the list of the epoch just left.                                  *)
FaultyGcAdvance(t) ==
    /\ Goto(t, "advance", "free")
    /\ global_epoch' = (gc.epoch + 1) % 3
    /\ gc' = [gc EXCEPT !.victim = gc.epoch]
    /\ UNCHANGED <<rt_lists, lock, nodes, items, pos, epoch, hist>>

GcAdvance(t) ==
    /\ Goto(t, "advance", "free")
    /\ global_epoch' = (gc.epoch + 1) % 3
    /\ gc' = [gc EXCEPT !.victim = (gc.epoch + 2) % 3]
    /\ UNCHANGED <<rt_lists, lock, nodes, items, pos, epoch, hist>>

(* gc_epoch and the unlock: every item of one list is handed to set_free.  *)
GcFree(t) ==
    /\ Goto(t, "free", "exit")
    /\ freed' = freed \cup rt_lists[gc.victim]
    /\ rt_lists' = [rt_lists EXCEPT ![gc.victim] = {}]
    /\ lock' = None
    /\ UNCHANGED <<global_epoch, nodes, vis, pos, epoch, gc, hist>>

(* ebr_destroy, after the test joined its threads.                         *)
Destroy ==
    /\ \A t \in Threads : pc[t] = "done"
    /\ freed' = freed \cup UNION {rt_lists[e] : e \in Epochs}
    /\ rt_lists' = [e \in Epochs |-> {}]
    /\ UNCHANGED <<global_epoch, lock, nodes, vis, pc, pos, epoch, gc, hist>>

(* A failed assertion ends the process.                                    *)
Running == \A t \in Threads : pc[t] # "abort"

Step(t) == \/ Register(t) \/ Unregister(t)
           \/ EnterRead(t) \/ EnterPublish(t) \/ Exit(t)
           \/ Visable(t) \/ Access(t) \/ Delete(t)
           \/ Put(t) \/ GcSkip(t) \/ GcStart(t) \/ GcScan(t) \/ GcAdvance(t)
           \/ GcFree(t)

Next == Running /\ (Destroy \/ \E t \in Threads : Step(t))

Spec == Init /\ [][Next]_vars
-----------------------------------------------------------------------------
Putting == {t \in Threads : pc[t] = "put"}
Limbo   == UNION {rt_lists[e] : e \in Epochs}
Succ(e) == (e + 1) % 3

(* The assertion of access_item, reclamation/test.c:54: an item seen       *)
(* visible inside the critical section is not freed before it is accessed. *)
AccessNotFree == \A t \in Threads : pc[t] # "abort"

(* What ebr.c does guarantee: the assertion can only fail for a reader     *)
(* that published an outdated epoch, or for an item that was filed under   *)
(* an epoch the global one had already left (ebr.c:54-114).                *)
FreshProtected ==
    \A t \in Fresh :
        pc[t] \in {"access", "abort"} /\ pos[t] \in freed => pos[t] \in lagged

(* No item is lost or freed twice (the assertion of set_free, test.c:45):  *)
(* each is visible, on its way into ebr_put, in one list, or freed.        *)
Conservation ==
    /\ vis \cup {pos[t] : t \in Putting} \cup Limbo \cup freed = Items
    /\ vis \cap (Limbo \cup freed) = {}
    /\ Limbo \cap freed = {}
    /\ \A d, e \in Epochs : d # e => rt_lists[d] \cap rt_lists[e] = {}
    /\ \A t \in Putting : pos[t] \notin vis \cup Limbo \cup freed
    /\ \A t, u \in Putting : pos[t] = pos[u] => t = u

(* The global epoch moves at most once while a reader that published it is *)
(* in its critical section, although try_gc reads one slot at a time.      *)
GlobalNear ==
    \A t \in Fresh : global_epoch \in {epoch[t], Succ(epoch[t])}

(* ebr.c keeps the promise its callers rely on for the items filed under   *)
(* the global epoch and for the readers that published it: such an item is *)
(* freed only when every such reader inside at its retirement has left,    *)
(* although a collection frees a list whether or not the epoch advances    *)
(* (ebr.c:83-114).                                                         *)
Grace == INSTANCE GracePeriod
           WITH inside <- Fresh,
                waits  <- [n \in Limbo \ lagged |-> waits[n] \cap Fresh]
ImplementsGrace == Grace!Init /\ [][Grace!Next(Items)]_(Grace!vars)

(* The rest of the inductive invariant: what a thread shows while it is    *)
(* inside; who owns the mutex; the collector knows the global epoch, has   *)
(* seen the slots below gc.i in it, and frees the list after it; and an    *)
(* item in limbo that a fresh reader holds, or that waits for it, is filed *)
(* under that reader's epoch or the global one, never in that list.        *)
Published ==
    \A t \in Threads : /\ used[t] <=> pc[t] \notin {"new", "done"}
                       /\ t \in InCS => local_epoch[t] = epoch[t] + ACTIVE
MutexOwned ==
    \A t \in Threads : lock = t <=> pc[t] \in {"scan", "advance", "free"}
Collecting ==
    /\ \A t \in Threads : pc[t] \in {"scan", "advance"} => gc.epoch = global_epoch
    /\ \A t \in Threads : pc[t] = "free" => gc.victim = Succ(global_epoch)
    /\ \A t \in Threads, u \in Fresh :
          pc[t] = "advance" \/ (pc[t] = "scan" /\ u < gc.i) => epoch[u] = global_epoch
    /\ \A t \in Threads : pc[t] = "scan" => gc.i \in Threads
Filed ==
    \A t \in Fresh, e \in Epochs :
        pc[t] \in {"access", "abort"} /\ pos[t] \in rt_lists[e] \ lagged
            => e \in {epoch[t], global_epoch}
Awaited ==
    /\ \A n \in Items : waits[n] \subseteq InCS
    /\ \A t \in Fresh, e \in Epochs : \A n \in rt_lists[e] \ lagged :
          t \in waits[n] => e \in {epoch[t], global_epoch}

IInv == /\ TypeOK
        /\ Published
        /\ MutexOwned
        /\ Collecting
        /\ GlobalNear
        /\ Conservation
        /\ Filed
        /\ Awaited
        /\ FreshProtected
=============================================================================
