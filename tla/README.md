# Verification of the concurrent data structures

TLA+ models of the locks, the memory reclamation and the data structures of this
repository, the TLC runs that check them on small instances, and TLAPS proofs of the
invariants that matter most for every value of the parameters.

Paths are relative to `src/`. `PROJECT.json` maps every definition to the lines it stands
for, lists every hazard at its line, and names for every checked property a plausible bug
(a `Faulty...` operator next to the original) that makes TLC reject it.

## 1. Inventory

### Parts and how they interact

```
 linked_list/lock_free   queue/lock_free   stack   skiplist/*   hashset/lock_free
 linked_list/lazy_sync                                            (own list inside)
        |  ebr_enter / ebr_exit / ebr_put; free_node called back by the collector
        v
 reclamation/ebr.c        reclamation/qsbr.c    reclamation/hpbr.c   (used by the test only)

 heap, lazy list, lazy skip list --> include/spinlock.h
 bptree --> include/rwlock.h --> include/spinlock.h
 queue/blocking --> pthread mutex and condition variable
```

| part | state | operations | what must hold |
|---|---|---|---|
| ticket spinlock, `include/spinlock.h` | one word: ticket served, next ticket | `spin_lock`, `spin_unlock` | exclusion although tickets wrap; first come, first served; nobody starves |
| queue rwlock, `include/rwlock.h` | writer byte, reader count, wait queue | read/write lock/unlock, fast and slow paths | exclusion; a waiting writer is not overtaken; progress once admitted |
| EBR, `reclamation/ebr.c` | global epoch, three limbo lists, mutex, a slot per thread | register, enter, exit, put, try_gc, destroy | no item is freed while a thread may use it; none is freed twice or lost |
| QSBR, `reclamation/qsbr.c` | a counter and a limbo list per thread | register, checkpoint, put, try_gc | as EBR |
| HPBR, `reclamation/hpbr.c` | hazard pointers and a limbo list per thread | hold, release, retire, try_gc | as EBR |
| lock-free list | nodes with a markable next word, two sentinels | insert, lookup, remove, range | a linearizable set; no freed node is touched; every node is retired once |
| lazy list | the same and a spinlock per node | the same | the same; no deadlock |
| lock-free queue | head, tail, nodes | push, pop, front | a linearizable queue; the tail lags by one at most; no freed node is touched, no null pointer followed |
| blocking queue | buffer, count, mutex, one condition variable | push, pop, front | no lost wake-up, no overflow |
| stack and eliminator | head, nodes; 32 exchange slots with a tag | push, pop, top; exchange | a linearizable stack; an exchange pairs one push with one pop, or neither |
| hash set | bucket table in clusters, one split-ordered list | insert, lookup, remove, resize | a linearizable set through resizes and lazy buckets |
| heap | array of nodes with lock, tag and owner | push, pop, top | pop takes the minimum when alone; nothing lost; no deadlock, no endless wait |
| lazy and lock-free skip lists | towers of markable links | insert, lookup, remove, range | a linearizable set |
| B+ tree | pages with a rwlock, leaf list with a rwlock | insert, lookup, remove, range | exclusion by latch crabbing; no deadlock between range and remove |
| `include/atomic.h`, `list.h`, `util.h`, `pthread_barrier.h` | none of their own | x86 atomics, a sequential list, limits, a barrier for the tests | taken as primitives |

### What is hard here

* Interleavings of plain loads and compare-and-swaps: lagging tails, marked nodes that
  anyone unlinks, addresses that come back from `malloc` (ABA).
* Reclamation. An epoch is read, published and compared at different times, and whoever
  retires an item may be an epoch behind.
* Counters that wrap (ticket bytes, epochs modulo 3), values never initialised
  (`local_epoch`), tests of words loaded apart.
* Waiting: fair and unfair spinning, a condition variable shared by two kinds of sleeper.
* No crashes, no messages, nothing persistent: those hazards do not exist here.

## 2. Modules

| module | models | abstract specification |
|---|---|---|
| `TicketSpinlock` | `include/spinlock.h` | `FifoLock`, implemented (`ImplementsFifoLock`) |
| `RWLock` | `include/rwlock.h` | uses `FifoLock` for its wait queue |
| `EBR` | `reclamation/ebr.c` and the client `ebr_test_fun` of `reclamation/test.c` | `GracePeriod`, implemented for timely readers and items (`ImplementsGrace`), no further (section 5) |
| `LockFreeQueue` | `queue/lock_free/queue.c` | `FifoQueue`, implemented (`ImplementsFifo`); uses `GracePeriod` |
| `LockFreeList` | `linked_list/lock_free/linked_list.c` | `LinearSet`, implemented (`ImplementsSet`); uses `GracePeriod` |
| `BlockingQueue` | `queue/blocking/queue.c` | none |
| `Stack` | `stack/stack.c`, `stack/eliminator.h` | `LifoStack`, implemented (`ImplementsLifo`); uses `GracePeriod` |
| `HashSet` | `hashset/lock_free/hashset.c` and its `linked_list.c` | none; stated against the list of bucket 0 |
| `BPlusTree` | `bptree/bptree.c` | none; its locks do what `RWLock` shows |
| `LazySkipList` | `skiplist/lazy_sync/skiplist.c` | `LinearSet`, implemented by the updates (`ImplementsSet`); uses `GracePeriod`; its locks do what `TicketSpinlock` shows |
| `Chains` | the nodes met by a walk along link words, as a least closed set | |
| `ChainTheorems` | how a push, a pop, an append, a link and an unlink change a chain; chains in an order, which have a first and a last node with any property | |
| `LockProofs` | proofs about `TicketSpinlock` and `RWLock` | |
| `EBRProofs`, `BlockingQueueProofs`, `StackProofs`, `LockFreeQueueProofs`, `LockFreeListProofs`, `HashSetProofs` | proofs about the module they are named for | |
| `MCLocks` | `TicketSpinlock`, `RWLock`, `BlockingQueue` in one run: which of them the threads share is settled at the start | |
| `MCEBRSkipList` | `EBR` and `LazySkipList` in one run, in the same way | |
| the other `MC*` | symmetry sets for TLC | |

Conventions. A thread's place in its function is `pc` (`place` in the spinlock); its locals
keep their names in the code. One action is what a thread does between two points where another thread can see
or change something it uses: a load, a store, a compare-and-swap, or a section under a
mutex. Locals that are dead are reset, so that states differ only where behaviour does.

**TicketSpinlock.** `serving` and `next` are the two bytes of `slock`, and wrap apart, as
`xaddw` and `incb` make them. `TakeTicket` is the `xaddw` and the first comparison, which
uses the bytes the `xaddw` fetched; `Spin` is the reload that succeeds. `SpinInit`, `SpinNext`
and the like have names of their own because `LockProofs` extends `RWLock` as well.

**RWLock.** `wr` and `rd` are the writer byte and the reader count of `cnts`. A read of
`cnts` followed by a compare-and-swap of the value read is one step: when the word has
changed in between, the code goes where the failed test goes. The wait queue is
`FifoLock`, which `TicketSpinlock` is shown to implement. `Biased` names every point where
a thread has added `_QR_BIAS` and not taken it back.

**EBR.** `ebr_enter` is two steps, since the epoch it publishes may be old by then, and
the scan of `ebr_try_gc` is one step per slot. `local_epoch` starts as any word, because
`ebr_create` does not set it. One call in a hundred collects: the choice is free.
`MANUAL_GC` is not defined. The client walks the items, and may stop at any one (`idx` is
random). Two history variables record what goes wrong: `stale`, the threads that published
an epoch that was no longer global, and `lagged`, the items filed under an epoch the global
one had left. A third, `waits`, is who was inside when an item was put and has not left since:
with it the timely part of `ebr.c` is mapped to `GracePeriod`.

**LockFreeQueue.** Every load is a step, in the order of the source: `q_pop` and `q_front` load
tail, head and `head->next`, and then test that the head has not moved. The tail loaded may
have left the list by then (section 5). `overtaken` is a history variable, true once a pop
has moved the head past a lagging tail: from then on the tail is no node of the list, and
nothing is claimed. A null dereference ends the process (`crash`). (What gcc makes of plain
loads is not modelled: the repository fixes no order but that of the source.)

**LockFreeList.** `find`, `ll_insert`, `ll_lookup` and `ll_remove`, with the mark in the next
word. `ll_lookup` loads its first pointer before it calls `ebr_enter`. `late` is a history
variable: the lookups whose first node another call cut off the list in this gap (`Cut`). They
may walk over freed nodes; every other call is protected. `Junk` is what `free` and the next owner may leave in a
freed node; a load through what is no node ends the process (the call goes no further). The
sentinels are `HeadNode` and `TailNode`. `ll_range` and `ll_print` are left out.

**Stack.** Both builds: `build` is the `#ifdef` that decides where a call goes that lost the
head. A value is known by its node. One exchanger stands for the array of 32, since calls
that draw different ones do not meet; `slot` is its word, a value and a tag, and every load
and compare-and-swap of it is a step. The clock is abstracted: a timeout may come whenever
the code looks at it. `lost` is a history of pushes that returned without a taker.

**HashSet.** All keys are in one list in the order of their reversed bits, and a bucket is a
sentinel node in it. A bucket is made in three steps, `Publish`, `Aim` and `Join`, and used
by others between any two. Of the list a search is one step and the compare-and-swap behind it
another; `LockFreeList` has the search load by load, and the reclamation. `Reach` and
`Live` read chains; `Unlinked` is what `find` does to the dead nodes it passes. A key, a list
key and a bucket number are the sets of their one bits: `k % num_b` is an intersection, the
father of a bucket is the bucket without its highest bit, and the highest bit in which two
list keys differ orders them (`Less`). So the split order needs no arithmetic, and the width
of a key is a parameter. The size of the table is `2 ^ bits`.

**BPlusTree.** A step takes one lock and does what follows up to the next: what is written
under write locks nobody sees before. The exceptions are steps of their own, because others
do see them: the unlocked read of the root's length (`Call`), of the sibling's length
(`Merge`), and the key put into a leaf that is already in the leaf list (`Fill`). A page
keeps in `gone` the key that an emptied page still shows to the search for it. The model is
honest about undefined behaviour: `fault` becomes `assert`, `wild` (an address that was never
set), `overflow` or `drained` where the code fails an assertion, follows a pointer that was
never set, writes beyond a page, or reads beyond its entries, and nothing is said of after.

**LazySkipList.** A search is one step per level, a lock, an unlock and a store to a shared
word are steps, and locks are released in one step. `queue` and `surplus` are the ticket
lock of a node: who holds it and who waits, and the unlocks nobody had locked for. A waiter
whose ticket was served before it came is in no queue: its turn never comes. `fault` says
that a search left the list through freed or half-made memory, or that the plain
read-modify-write of `skiplist.c:170` undid the store of another thread.

**GracePeriod** is what the structures rely on: an item handed to `ebr_put` is freed when
every thread inside at that time has left, or has entered again. The structures are checked
over it, so that what they do wrong is told apart from what `ebr.c` does wrong. `EBR`
implements it (`ImplementsGrace`) for the threads that published the epoch that was global
and the items filed under it; a collection there frees several items in one step
(`CollectAll`).

**BlockingQueue.** The mutex makes each section one step; waiting, signalling to any
sleeper and spurious wake-ups are as POSIX allows. It keeps the order of the code, which
takes the newest value (`queue.c:42`).

## 3. What each run checks

| run | instance | states | shows |
|---|---|---|---|
| `locks` | 3 threads and 3 tickets; 3 threads; 4 threads and 3 places | 3,000 | ticket lock: exclusion, first come first served, starvation freedom, refinement of `FifoLock`. Reader-writer lock: exclusion, exact count and byte, ownership of the wait queue, no reader overtakes a raised flag, progress once admitted. Blocking queue: the inductive invariant, no lost wake-up. No deadlock |
| `ebr_skip_list` | 2 threads, 3 items; 2 threads, 3 nodes, 3 keys, 2 levels | 870,000 | EBR: protection of timely readers from items filed in time, conservation, at most one advance per reader, refinement of `GracePeriod` for those readers and items. Skip list: refinement of `LinearSet` by the updates, no wild update, the only endless wait |
| `ebr_access` | 2 threads, 3 items | | the assertion of `access_item` fails |
| `lock_free_queue` | 2 threads, 4 nodes, 2 values | 1,528,000 | where a call can fail, and no other place; until a pop has overtaken the tail: memory safety, conservation of nodes, answers that were right at some moment, refinement of `FifoQueue` |
| `queue_null` | 2 threads, 3 nodes, 1 value | | `q_pop` reads through a null pointer |
| `lock_free_list` | 2 threads, 3 nodes, 2 keys | 981,000 | memory safety and answers of all but late lookups, conservation, order, refinement of `LinearSet` |
| `list_gap` | 2 threads, 2 nodes, 1 key | | a late lookup reads a freed node |
| `stack` | 3 threads, 3 nodes | 987,000 | memory safety, conservation of nodes but for timed-out pushes, one pair at a time in the exchanger, refinement of `LifoStack` |
| `stack_lost` | 2 threads, 2 nodes | | `s_destroy` leaves the node of a timed-out push allocated |
| `hash_set` | 2 threads, 2 keys, 2 to 4 buckets | 458,000 | sentinels are joined once, joined buckets are sound, nothing joined falls out |
| `bplus_tree` | 2 threads, 5 keys, degrees 2 and 3 | 1,656,000 | the tree is sound between any two steps, keys are conserved, ranges are steady, no deadlock but one |
| `tree_deadlock` | 2 threads, 3 keys, degree 2 | | a range and a removal wait for each other |

Why these bounds are enough to be interesting:

* `locks`, the spinlock: as many threads as tickets is the largest load the assumption allows, and
  with three tickets every wrap and reuse happens within a few steps.
* `locks`, the reader-writer lock: a reader, a writer and a third thread that changes sides meet in every path;
  three threads let two wait in the queue while one holds the lock.
* `ebr_skip_list`, the reclamation: two threads suffice for a reader and a remover that an epoch change separates. One
  item is held, one is retired late, and the third lets the epoch move once more. With two
  items the failure of section 5 does not appear.
* `locks`, the blocking queue: one thread more than places is the limit of `FewThreads`, and with one
  thread more `QueueInv` fails. One value is enough, since no property tells values apart. `FewThreads` is sufficient, not necessary: `NoLostWakeup` by itself
  still holds with 4 threads on 2 places and 5 on 3, and TLC finds the lost wake-up with 3 on
  one place, 5 on two and 6 on three.
* `lock_free_queue`: a dummy and up to three values in four nodes, so that an address is
  popped, freed and pushed again while another thread still remembers it, and a pop can
  overtake the tail.
* `lock_free_list`: two keys give a neighbour on either side; three nodes let one be retired,
  reused and inserted again under way.
* `stack`: two calls meet in the exchanger only when both have lost the head, which takes a
  third call. With three nodes one is popped, freed and pushed while another call holds its
  address, in the stack or in the slot.
* `hash_set`: keys 1 and 3 share bucket 1 until the resize that `Counts` puts one insertion
  away; then 3 has a bucket of its own, whose father is 1, whose father is 0. Both threads may
  make any of them. Two nodes per key let it be removed and inserted again.
* `bplus_tree`: five keys in degree 2 make three levels, so that inner pages split, merge and
  borrow; leaves borrow in degree 3 only. All four faults and the deadlock are reached.
* `queue_null`, `list_gap`, `stack_lost`, `tree_deadlock`: the smallest instance that fails.
* `ebr_skip_list`, the skip list: the second unlock needs a removal that meets a change at its predecessor,
  and the wait that follows a later call that takes the removed node for a predecessor. Three
  keys and two levels give both, and towers that differ in height.

Constants marked "bound" in the modules limit a run and nothing in the code: `Copies`,
`MaxPages`, `MaxInserts`, `Froms` (where a range begins), `MaxUpdates`, `LookupKeys`, and
`MaxSurplus`, the second unlocks that one lock may have had. Calls beyond them do not start,
and a removal beyond `MaxSurplus` stays where it is.

Deadlock is checked except where the program may end: the client of `EBR` finishes or
aborts, the structures are destroyed, and a fault ends the process. `BPlusTree` and
`LazySkipList` really can deadlock; `OnlyRangeDeadlocks` and `OnlyKnownHarm` say, of every
state in which all calls wait, that it is the one kind known, and `RangeAndRemoveGoOn`, which
is violated, that the comment in the code excludes that kind. In `locks` deadlock is checked.

What the less obvious properties say:

* `RWLock!WriterPreference` is an action property: while the writer byte stays
  `_QW_WAITING` no thread becomes a reader.
* `EBR!GlobalNear`: although `ebr_try_gc` reads one slot at a time while threads come and
  go, the global epoch advances at most once while a reader that published it in time is
  inside.
* `EBR!ImplementsGrace` is the promise made to any caller, not to the client of the test: what
  is put in time is freed only after every timely thread that was inside has left,
  whatever that thread was doing there. `FreshProtected` is what follows for the client.
* `AnswersHappened` (queue, list) is the linearizability of the operations that change
  nothing: a history variable collects the answers that were right at some moment of
  the call. Together with the refinements it covers every operation: those that
  change something are single steps of the abstract specification.
* `LockFreeQueue!FailsOnlyBehind` is what is true of `NoNullDeref`, which the code breaks: a
  call reads through null, or is about to move the head past the tail, only if the node it
  loaded from `q->tail` is no longer listed. The other properties of the queue begin with
  "until a pop has overtaken the tail". They are no longer true after: with `overtaken`
  left out of `NoUseAfterFree`, two threads, four nodes and one value, TLC finds in 36 states
  a push that loads the freed node the tail still points to.
* `LockFreeList!NoUseAfterFree` and `AnswersHappened` speak of every update, and of every
  lookup that is not `late`; `NoLateRead`, which is violated, of those that are.
* `LockFreeQueue!PopTakesOldest` excludes ABA: when the compare-and-swap of the head
  succeeds, the value read earlier is still the oldest one.
* `Conservation` (EBR, queue, list) says that every item or node is in exactly one place,
  so that none is freed twice, retired twice or lost.
* `Stack!Conservation` allows one way to lose a value, the push that timed out, and no way in
  the other build; `NoMemoryLeak`, which is violated, says what the README of the repository
  claims. `SlotOwned` is why the plain stores that empty the
  exchanger are safe.
* `HashSet!NothingFallsOut` is an action property: what is in the list of bucket 0 leaves it
  marked. It is silent about keys inserted into a bucket not yet joined: those are lost
  (section 5). `ShortcutSound` compares, for every size the table has had, the search that
  starts at a bucket with the list itself.
* `BPlusTree!TreeSound` holds between any two steps, with locks held and pages half changed.
  `RangeSteady` says of a range in progress that the leaf it reads is at rest and its keys
  come in order; it may still miss a key that a borrow moves to a leaf it has passed.
* `LazySkipList!ImplementsSet` speaks of updates; a lookup may be wild (section 5).
* `BlockingQueue!NoLostWakeup`: while a sleeper could go on, some thread is awake in a call,
  and will signal before it leaves.

### Fairness

`TicketSpinlock` and `RWLock` assume weak fairness of the steps inside `lock` and `unlock`, and
that critical sections end; nothing makes an idle thread call anything. Spinning threads
are scheduled by the operating system, so a step that stays enabled is taken.
`WriteFlag` of `RWLock` gets no fairness: its compare-and-swap fails whenever a reader came
or went since the read, and nothing in the code bounds how often. A writer that has not
raised its flag may therefore starve. Progress is claimed only after the flag
(`AdmittedProceeds`). The other modules state safety only; lock-free loops give no
per-thread progress.

## 4. What is proved

TLAPS proves, for every value of the constants that meets the named assumptions:

| theorem | says |
|---|---|
| `LockProofs!SpinInvariance`, `SpinSafety` | `[]SpinInv`, `[]MutualExclusion`, for at most as many threads as tickets |
| `LockProofs!FirstComeFirstServed` | every step is one of `FifoLock`, or changes nothing there |
| `LockProofs!Invariance`, `Safety`, `Owner` | `[]IInv`, `[]Exclusion`, `[]SlockOwned` of `RWLock`, for any finite set of threads |
| `LockProofs!Preference` | `WriterPreference`, an action property |
| `EBRProofs!Invariance`, `Protection`, `NoDoubleFree`, `OneAdvance` | `[]IInv`, `[]FreshProtected`, `[]Conservation`, `[]GlobalNear`, for any number of threads and items |
| `EBRProofs!Refinement` | `ImplementsGrace`: `ebr.c` keeps the grace period for timely readers and items |
| `BlockingQueueProofs!Invariance`, `SleepersAgree`, `NoneLost` | `[]QueueInv`, `[]OneKindSleeps`, `[]NoLostWakeup`, under `FewThreads` |
| `StackProofs!Invariance`, `NothingDoubled`, `OneOwner`, `MemorySafety` | `[]IInv`, `[]Conservation`, `[]SlotOwned`, `[]NoUseAfterFree`, for any threads and any finite set of nodes, in both builds |
| `StackProofs!Refinement` | `ImplementsLifo` |
| `LockFreeQueueProofs!Invariance`, `FailsBehind`, `MemorySafety`, `NothingLost`, `TailFollows`, `OldestFirst`, `Answered` | `[]IInv`, `[]FailsOnlyBehind`, `[]NoUseAfterFree`, `[]Conservation`, `[]TailNear`, `[]PopTakesOldest`, `[]AnswersHappened`, for any threads and values and any finite set of nodes |
| `LockFreeQueueProofs!Refinement` | `ImplementsFifo` |
| `LockFreeListProofs!Invariance`, `MemorySafety`, `NothingLost`, `Order`, `Answered` | `[]IInv`, `[]NoUseAfterFree`, `[]Conservation`, `[]Sorted`, `[]AnswersHappened`, for any threads, keys, junk and finite set of nodes |
| `LockFreeListProofs!Refinement` | `ImplementsSet` |
| `HashSetProofs!Invariance`, `SentinelsOnce`, `Shortcuts` | `[]IInv`, `[]SentinelOnce`, `[]ShortcutSound`, for any threads, keys, width of a key, copies and sizes of the table |
| `HashSetProofs!NothingLost` | `NothingFallsOut`, an action property |

The assumptions are those the modules name: `NULL` and the sentinels are no nodes of `malloc`,
there are finitely many nodes (finitely many threads for the locks), at least as many tickets
as threads, `FewThreads`; of the hash set, that a bucket number is shorter than a list key,
that no key is the tail's own, and that the table starts with few enough insertions counted
for its first size (`HashSetAssumption`).

The structures are proved over `GracePeriod`, that is, given a reclamation that keeps an item
until all that were inside have left. `ebr.c` keeps this only in part (section 5):
`EBRProofs!Refinement` says for whom. So a structure is safe on `ebr.c` as long as no thread
publishes an epoch late and none files a node late. The hash set is proved without reclamation:
its nodes are not used again.

`SpinInv`, the `IInv` of `RWLock` and `QueueInv` are checked in their run. That of
`EBR`, `Stack`, `LockFreeQueue` and `LockFreeList` holds on the instances too (add it to the
INVARIANTS of the cfg); the runs check what follows from it. That of `HashSet` is in
`HashSetProofs`, stated with `Chain`, a quantifier over all sets of nodes that TLC cannot
enumerate there; with `Reach` in place of it, which is the same (`ReachFrom`), it holds on the
instance of the run. The arguments:

* **Spinlock.** Exclusion is not inductive: a ticket says nothing by itself. The n engaged
  threads hold n distinct tickets, each less than n places ahead of `serving`, and `next` is
  the place after them. The owner's ticket is the one being served, and tickets are
  distinct, so there is one owner. Distinctness survives the wrap because n never
  exceeds the number of tickets. For the order, the tickets have no gap (`NoGap`): so the
  thread of rank i in the queue holds the ticket i places ahead, a new thread is put at the
  end, and the unlock serves the second.
* **RWLock.** The reader count is the number of biases not taken back, including those of
  readers that are about to back off; the writer byte is `_QW_LOCKED` exactly while a thread
  may write. A writer enters only when the count is zero, hence when no thread is biased,
  and a reader that adds its bias while the byte is `_QW_LOCKED` does not enter.
* **EBR.** A reader that published in time pins the global epoch to its own or the next one
  (`GlobalNear`). For this the collector's scan must be known to have met it in the epoch
  scanned (`Collecting`). An item such a reader can reach, filed in time, is in the list of
  the reader's epoch or of the global one (`Filed`), and so is an item that waits for such a
  reader (`Awaited`); the list that is freed is always the third one.
* **BlockingQueue.** While consumers sleep, every stored value has a consumer awake to take
  it; while producers sleep, every empty place has a producer awake. If both slept, at
  least `Cap` threads would be awake besides two sleepers, one more than `FewThreads`
  allows. So a signal never wakes the wrong kind, and every push and pop keeps the
  counts.
* **Chains.** The contents of a linked structure are defined without recursion, as the least
  set closed under the link words (`Chains!Chain`): it can be proved how writing one link
  changes such a set, by giving the closed set that bounds it. Positions and sequences
  (`Path`, `PathLength`) are functions on `Nat`; what needs induction there is stated of a set
  of numbers and follows from the well-foundedness of their order (`SetInduction`).
* **Stack.** Every node is in one place (`Partition`): free, on the chain, in limbo, in the
  slot, or held by one call; the slot in use has one owner. A pop may read the node it
  loaded because the node is on the chain, about to be retired, or retired after the pop
  came inside; hence its next word is still the one read, and a swap that succeeds takes
  the top with its own successor: no ABA.
* **Queue.** The invariant is `overtaken \/ Sound`. What left the list keeps a link until it is
  freed, so a push that finds a null link has the last node. The tail lags one node at most
  and, as long as the node a call loaded from it is listed, is not behind that node (`TailOf`).
  So a pop whose loaded tail is listed and is not its first node has a next node, and its
  swap does not pass the tail: that is `FailsOnlyBehind`. The head a pop loaded is still the
  head if it is still listed. The refinement needs, besides, that every node behind the head
  carries its value (`Filled`).
* **List.** A thread stands on a node that may be marked, unlinked and retired under it.
  `Walkable(t, n)` says of all nodes from n on, listed or not, that they are not freed before t
  leaves, and that whatever they show to be missing was missing at some moment of the call
  (`Lacks`). An insert between two nodes does not break this for a thread on an unlinked
  node, because that node was marked, and a marked word never changes; a mark makes its
  key missing at that moment; an unlink only shortens the walk of those before it. A lookup
  in its gap stands on a listed node until someone cuts that node off (`Gaps`); if that happens
  before its `ebr_enter` it is late, and is not spoken of (`Firm`): it writes nothing.
* **Hash set.** Every link leads forward in the split order (`Order`), and every list that is in
  use ends in a tail that is not marked (`ListInv`); hence a search ends, and finds the first
  live node that is not before its key. A bucket that is made has one maker, no call has
  found its sentinel, and no link leads to it but the one of its own head (`Apart`,
  `Separate`): so the search of `ll_insert2` does not meet it, and its assertion holds. From
  `Aim` to `Join` the sentinel leads to every live node behind its place (`Covers`), whatever
  others link, mark or unlink there or behind the sentinel itself; so the swap of `Join` takes
  nothing live out of the list of bucket 0. A shortcut is sound because the sentinel of a
  bucket comes before all keys of the bucket at every size (`KeyOrder`), and a chain in an
  order has everything behind a node that is behind it in the order (`Shortcut`).

Only model-checked, and why:

* liveness (`EventuallyHeld`, `AdmittedProceeds`, the fairness of `ImplementsFifoLock`): temporal
  reasoning about fairness and ENABLED is beyond the prover;
* `BPlusTree`: the soundness of a tree is a recursion over its levels; `LazySkipList`: its
  chains are recursive walks. A theorem needs them stated with `Chains`, as in the list.

## 5. What the code does not do

* `ebr_access`: `ebr_put` files an item under the epoch its thread published
  (`ebr.c:71`), and `ebr_enter` publishes an epoch it read earlier (`ebr.c:55-57`). Either
  way an item is freed while a reader still holds it, and the assertion
  `assert(!free)` (`reclamation/test.c:54`) fails. `FreshProtected` is the part that holds.
* `list_gap`: `ll_lookup` loads the first pointer before `ebr_enter` and then reads freed memory
  (`linked_list/lock_free/linked_list.c:107`).
* `queue_null`: `q_pop` loads tail, another call pushes and pops, `q_pop` loads head; the two
  differ although the queue is empty, and it reads through the null `next`
  (`queue/lock_free/queue.c:80-91`; `q_front` likewise, `:109-120`). In the same way a pop can
  move the head past a lagging tail; the tail then points to a node that is freed, and a later
  push goes through it. Loading head before tail, as `FailsOnlyBehind` suggests, would leave
  the loaded tail listed whenever the test of the head succeeds.
* `stack_lost`: a push whose exchange times out returns as if a pop had taken its value
  (`stack.c:81-86`). The value is lost and its node leaks (`lost` in `Stack`), in spite of
  `README.md:19` and `:30`.
* `tree_deadlock`: an update that waits for the leaf list (`bptree.c:361`, `:395`, `:247`) and a
  range that waits for a page (`:467-472`) block each other, in spite of the comment at
  `:349-350`. `OnlyRangeDeadlocks`: there is no other deadlock.
* Reached by the models and described by their properties, without a run of their own:
  * `stack.c:121`, `:154`: `s_pop` on an empty stack and `s_top` on a full one return without
    `ebr_exit`; `s_top` loads the head before `ebr_enter` (`:148`).
  * `hashset.c:84-92`: a key inserted into a bucket between its publication and the linking of
    its sentinel is cut off, because `ll_insert2` overwrites the sentinel's next word.
  * `bptree.c:319`, `:440`: a lookup or a removal of a key below all keys of a leaf reads
    `kv[-1]` and fails the assertion; `bp_range` on an empty tree reads `kv[-1]` too (`:474`).
  * `bptree.c:338`: a root that lost its last child becomes a leaf that is not in the leaf
    list; a later split of it follows the link words of a page that never had any.
  * `bptree.c:243`: the first entry of a split-off inner page is never set. A search for a key
    below the second entry follows it (`:201`), and so does `bp_destroy` (`:70`), which frees
    no inner page either.
  * `bptree.c:375`: the sibling's length is read before its lock: entries are copied beyond the
    end of a page, or the last one of the sibling is borrowed.
  * `skiplist/lazy_sync/skiplist.c:191`: `sl_lookup` never calls `ebr_enter` and reads freed
    nodes. `:222`: `sl_remove` returns without `ebr_exit`. `:253`: a removal that starts over
    unlocks its node each time. `:170`: the plain read-modify-write of a word others write.
* Met on the way, without a run: the blocking queue takes the newest value
  (`queue/blocking/queue.c:42`), `q_front` there reads beyond the buffer (`:49`), and it
  loses a wake-up when many more threads than `FewThreads` allows use a small queue
  (section 3).

## 6. Not modelled, and the plan

Left out for good: wording and printing (`*_print`), the tests' timing, `atomic.h`, `list.h`
and the barrier (primitives), weak memory (x86
orders the stores, the atomics are locked instructions) and what a compiler may do to plain
loads. Of modelled components: the ranges
of the lists and of the skip list, which change nothing (that of the B+ tree is modelled,
for its locks); `q_front` and `q_destroy` of the blocking queue; the reclamation of the hash
set's nodes, which works as in the list.

Not modelled yet:

* the lazy list: its protocol is the lowest level of `LazySkipList`, without the tags;
* the heap, with the endless wait for a tag (`heap.c:69`), the last element's tag (`:113`) and
  a lone left child (`:128`);
* QSBR and HPBR, which no structure uses: `qsbr.c:101,105` (minimum over independent counters;
  `epoch` unset when no slot is used), `hpbr.c:71,104,131,132` (`memset` of bytes for
  pointers; `hps_len` unset; `safe` set once per list; a list walked without its lock);
* the lock-free skip list: `LockFreeList` on every level, too many states for a small step.

Next, in this order:

1. The contents of `LazySkipList` over `Chains` in place of its recursive walks, and then the
   refinement of `LinearSet` by its updates as a theorem.
2. `Heap`: a priority queue as abstract specification.
3. `QSBR` and `HPBR` against `GracePeriod`; `LazyList`; the lock-free skip list.
