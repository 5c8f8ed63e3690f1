------------------------------ MODULE BPlusTree ------------------------------
(***************************************************************************)
(* The B+ tree of bptree/bptree.c.  A search locks its way down, with the  *)
(* locks in lock_trace, and lets the pages above go when the page it       *)
(* reached is safe; an update changes pages under the write locks it kept. *)
(* The leaves are in a list as well, in the order of their keys, which     *)
(* bp_range walks.  A step takes one lock and does what follows up to the  *)
(* next one: what is written under write locks nobody else sees.  The      *)
(* locks are taken by what RWLock shows, exclusion.  The calls that begin  *)
(* with an unlocked read of bp->root->length make it as one load.          *)
(*                                                                         *)
(* A page is its type, its entries kv[0 .. length-1], and gone, the key    *)
(* that the code still finds in the first slot that counts when no entry   *)
(* is left in it.  What undefined behaviour or an assertion does is the    *)
(* end of the process: fault says which, and nothing is said of after.     *)
(*                                                                         *)
(* An operator named Faulty... is a variant of the next definition with a  *)
(* defect that some property must detect.                                  *)
(***************************************************************************)
EXTENDS Naturals, FiniteSets, Sequences, SequencesExt

CONSTANTS Threads, MaxKey,
          Degrees,              \* the arguments of bp_create
          MaxPages,             \* bound: page addresses, which are reused
          MaxInserts,           \* bound: calls of bp_insert
          Froms                 \* bound: the keys a range begins with

ASSUME TreeAssumption == MaxKey \in Nat /\ Degrees \subseteq Nat \ {0, 1} /\ MaxPages \in Nat

VARIABLES degree, root, page,   \* struct bp and the pages
          leaves,               \* leaf_list
          fault,                \* "none", or what ended the process
          inserts,              \* counts towards MaxInserts
          pc, op, k,            \* a thread's place, call and key
          at,                   \* the page it wants or has reached
          trace,                \* lock_trace[lt_head .. lt_tail - 1]
          level, sib,           \* merge: the index of its page, the sibling
          pos, last             \* bp_range: its place, the last key it read

tree  == <<degree, root, page, leaves>>
local == <<op, k, at, trace, level, sib, pos, last>>
vars  == <<tree, fault, inserts, pc, local>>

Keys == 1 .. MaxKey
Ids  == 1 .. MaxPages
NULL == 0
RootLock == 0
ListLock == MaxPages + 1

Entry(key, v) == [k |-> key, v |-> v]
NewPage(type, kv) == [type |-> type, kv |-> kv, gone |-> 0]
Page == [type : {"LEAF", "INTER"}, kv : Seq([k : 0 .. MaxKey, v : Ids \cup {NULL}]),
         gone : 0 .. MaxKey]

TypeOK == /\ degree \in Degrees /\ root \in Ids \cup {NULL}
          /\ DOMAIN page \subseteq Ids /\ \A p \in DOMAIN page : page[p] \in Page
          /\ leaves \in Seq(DOMAIN page)
          /\ fault \in {"none", "assert", "wild", "overflow", "drained"}
          /\ pc \in [Threads -> {"idle", "down", "leaf", "fill", "merge", "to_fuse",
                                 "fuse", "to_borrow", "drop", "range", "read"}]
          /\ op \in [Threads -> {"none", "insert", "lookup", "remove", "range"}]
          /\ k \in [Threads -> 0 .. MaxKey] /\ last \in [Threads -> 0 .. MaxKey]

(* bp_create                                                               *)
Init == /\ degree \in Degrees /\ root = 1
        /\ page = [p \in {1} |-> NewPage("LEAF", <<>>)] /\ leaves = <<1>>
        /\ fault = "none" /\ inserts = 0
        /\ pc = [t \in Threads |-> "idle"] /\ op = [t \in Threads |-> "none"]
        /\ k = [t \in Threads |-> 0] /\ at = [t \in Threads |-> 0]
        /\ trace = [t \in Threads |-> <<>>]
        /\ level = [t \in Threads |-> 0] /\ sib = [t \in Threads |-> 0]
        /\ pos = [t \in Threads |-> 0] /\ last = [t \in Threads |-> 0]

-----------------------------------------------------------------------------
(* first_idx, the slot of the first entry with a key of its own, counted   *)
(* from one, and that key, which may be a stale one.                       *)
FirstIdx(p) == IF p.type = "INTER" THEN 2 ELSE 1
First(p)    == IF Len(p.kv) >= FirstIdx(p) THEN p.kv[FirstIdx(p)].k ELSE p.gone
Capacity(p) == IF p.type = "INTER" THEN degree + 1 ELSE degree

(* binary_search_in_page: the last entry with a key <= key, 0 if none.     *)
Search(p, key) == Cardinality({i \in 1 .. Len(p.kv) : p.kv[i].k <= key})

Without(p, i) == [p EXCEPT !.kv = RemoveAt(@, i),
                           !.gone = IF i = FirstIdx(p) /\ i = Len(p.kv) THEN p.kv[i].k ELSE @]
With(p, i, e) == [p EXCEPT !.kv = InsertAt(@, i, e), !.gone = 0]

Minimum(p) == (Capacity(p) - 1) \div 2 + 1

(* is_safe                                                                 *)
Safe(p, o) == CASE o = "insert" -> Len(p.kv) < Capacity(p)
                [] o = "remove" -> Len(p.kv) > Minimum(p)
                [] OTHER -> TRUE

(* page_insert                                                             *)
PageInsert(pg, f, n) ==
    [pg EXCEPT ![f] = IF @.kv = <<>> THEN With(@, 1, Entry(0, n))
                      ELSE With(@, Search(@, First(pg[n])) + 1, Entry(First(pg[n]), n))]

FreshPage(pg) == CHOOSE n \in Ids \ DOMAIN pg : \A m \in Ids \ DOMAIN pg : n <= m
AddPage(pg, n, p) == [q \in DOMAIN pg \cup {n} |-> IF q = n THEN p ELSE pg[q]]

(* split: the right half of the page at index i of the trace moves to a    *)
(* new page, which goes into the father, who may have to split first, or   *)
(* with the old root under a new one.  A new INTER page begins with an     *)
(* entry that is never set.                                                *)
RECURSIVE Split(_, _, _, _)
Split(pg, rt, tr, i) ==
    LET p    == tr[i]
        old  == pg[p]
        half == (Len(old.kv) - FirstIdx(old) + 1) \div 2
        keep == Len(old.kv) - half
        n    == FreshPage(pg)
        kv   == SubSeq(old.kv, keep + 1, Len(old.kv))
        pg1  == AddPage([pg EXCEPT ![p].kv = SubSeq(@, 1, keep)], n,
                        NewPage(old.type, IF old.type = "INTER" THEN <<Entry(0, NULL)>> \o kv
                                          ELSE kv))
    IN IF p = rt
         THEN LET r == FreshPage(pg1)
              IN [page |-> PageInsert(PageInsert(AddPage(pg1, r, NewPage("INTER", <<>>)), r, p), r, n),
                  root |-> r, new |-> n]
         ELSE LET f == tr[i - 1]
              IN IF Len(pg1[f].kv) = degree + 1
                   THEN LET s == Split(pg1, rt, tr, i - 1)
                            g == IF First(s.page[s.new]) <= First(pg1[n]) THEN s.new ELSE f
                        IN [page |-> PageInsert(s.page, g, n), root |-> s.root, new |-> n]
                   ELSE [page |-> PageInsert(pg1, f, n), root |-> rt, new |-> n]

-----------------------------------------------------------------------------
Writing(t) == op[t] \in {"insert", "remove"}
Held(t)    == ToSet(trace[t]) \cup (IF pc[t] = "fuse" THEN {sib[t]} ELSE {})
CanWrite(t, l) == \A u \in Threads \ {t} : l \notin Held(u)
CanRead(t, l)  == \A u \in Threads \ {t} : l \in Held(u) => ~ Writing(u)
Can(t, l)      == IF Writing(t) THEN CanWrite(t, l) ELSE CanRead(t, l)

At(t, label) == pc[t] = label /\ fault = "none"
Goto(t, to)  == pc' = [pc EXCEPT ![t] = to]
Fail(what)   == fault' = what /\ UNCHANGED <<tree, pc, local>>

(* Stops before the last lock, as crabbing_unlock does.                    *)
FaultyLeft(t) == IF trace[t] = <<>> THEN <<>> ELSE <<Last(trace[t])>>

(* The locks unlock_all leaves.                                            *)
Left(t) == <<>>

Return(t) == /\ Goto(t, "idle") /\ op' = [op EXCEPT ![t] = "none"]
             /\ k' = [k EXCEPT ![t] = 0] /\ at' = [at EXCEPT ![t] = 0]
             /\ trace' = [trace EXCEPT ![t] = Left(t)]
             /\ level' = [level EXCEPT ![t] = 0] /\ sib' = [sib EXCEPT ![t] = 0]
             /\ pos' = [pos EXCEPT ![t] = 0] /\ last' = [last EXCEPT ![t] = 0]
             /\ UNCHANGED fault

(* The calls; bp_lookup and bp_remove return when the root has no entry.   *)
Call(t) ==
    /\ At(t, "idle") /\ root # NULL
    /\ \E o \in {"insert", "lookup", "remove"}, x \in Keys :
          /\ o # "insert" => page[root].kv # <<>>
          /\ o = "insert" => inserts < MaxInserts
          /\ inserts' = IF o = "insert" THEN inserts + 1 ELSE inserts
          /\ op' = [op EXCEPT ![t] = o] /\ k' = [k EXCEPT ![t] = x]
    /\ Goto(t, "down") /\ at' = [at EXCEPT ![t] = RootLock]
    /\ UNCHANGED <<tree, fault, trace, level, sib, pos, last>>

(* crabbing_unlock lets go of all locks but the last.                      *)
Crabbed(t) == <<at[t]>>

(* Lets the pages above go as soon as the child is locked.                 *)
FaultyKept(t) == Crabbed(t)

(* get_page: what lock_trace holds after the page is locked.               *)
Kept(t) == IF Safe(page[at[t]], op[t]) THEN Crabbed(t) ELSE Append(trace[t], at[t])

(* get_bp_root and find, one lock at a time.                               *)
DownRoot(t) ==
    /\ At(t, "down") /\ at[t] = RootLock /\ Can(t, RootLock)
    /\ trace' = [trace EXCEPT ![t] = <<RootLock>>] /\ at' = [at EXCEPT ![t] = root]
    /\ UNCHANGED <<tree, fault, pc, op, k, level, sib, pos, last>>

Down(t) ==
    /\ At(t, "down") /\ at[t] # RootLock /\ Can(t, at[t])
    /\ LET p == page[at[t]]
           i == Search(p, k[t])
       IN IF p.type = "INTER" /\ (i = 0 \/ p.kv[i].v = NULL) THEN Fail("wild")
          ELSE /\ trace' = [trace EXCEPT ![t] = Kept(t)]
               /\ IF p.type = "LEAF" THEN Goto(t, "leaf") /\ UNCHANGED at
                  ELSE at' = [at EXCEPT ![t] = p.kv[i].v] /\ UNCHANGED pc
               /\ UNCHANGED <<tree, fault, op, k, level, sib, pos, last>>

Leaf(t)  == page[at[t]]
Index(t) == Search(Leaf(t), k[t])
There(t) == Index(t) > 0 /\ Leaf(t).kv[Index(t)].k = k[t]

(* All calls take kv[-1] for an entry when the key is below all in the     *)
(* leaf, and lookup and remove assert that its key, in truth a pointer of  *)
(* the leaf list, is not above k.  In a root that is not in the list it is *)
(* uninitialised: it may pass the assertion, or be the key to insert.      *)
Below(t) ==
    /\ At(t, "leaf") /\ Index(t) = 0
    /\ \/ op[t] # "insert" /\ Fail("assert")
       \/ at[t] \notin ToSet(leaves) /\ Return(t) /\ UNCHANGED tree

Lookup(t) ==
    /\ At(t, "leaf") /\ op[t] = "lookup" /\ Index(t) > 0
    /\ Return(t) /\ UNCHANGED tree

Add(t) == page' = [page EXCEPT ![at[t]] = With(@, Index(t) + 1, Entry(k[t], NULL))]

(* bp_insert into a leaf with room.                                        *)
InsertKey(t) ==
    /\ At(t, "leaf") /\ op[t] = "insert" /\ (There(t) \/ Len(Leaf(t).kv) < degree)
    /\ IF There(t) THEN UNCHANGED page ELSE Add(t)
    /\ Return(t) /\ UNCHANGED <<degree, root, leaves>>

(* Puts the new leaf in front of the one that was split.                   *)
FaultyBehind(i) == i

(* list_add: the place of the new leaf when the leaf is the i-th.          *)
Behind(i) == i + 1

(* bp_insert splits a full leaf; the new leaf enters the list under the    *)
(* list's lock, behind a leaf the list may not have.                       *)
SplitLeaf(t) ==
    /\ At(t, "leaf") /\ op[t] = "insert" /\ ~ There(t) /\ Len(Leaf(t).kv) = degree
    /\ CanWrite(t, ListLock)
    /\ \/ at[t] \notin ToSet(leaves) /\ Fail("wild")
       \/ /\ at[t] \in ToSet(leaves)
          /\ LET s == Split(page, root, trace[t], Len(trace[t]))
                 i == SelectInSeq(leaves, LAMBDA p : p = at[t])
             IN /\ page' = s.page /\ root' = s.root
                /\ leaves' = InsertAt(leaves, Behind(i), s.new)
                /\ at' = [at EXCEPT ![t] = IF First(s.page[s.new]) <= k[t] THEN s.new ELSE @]
          /\ Goto(t, "fill")
          /\ UNCHANGED <<degree, fault, op, k, trace, level, sib, pos, last>>

(* The key goes into the half it belongs to, perhaps the new leaf, which   *)
(* has its lock free.                                                      *)
Fill(t) == /\ At(t, "fill") /\ Add(t)
           /\ Return(t) /\ UNCHANGED <<degree, root, leaves>>

-----------------------------------------------------------------------------
(* bp_remove                                                               *)
RemoveKey(t) ==
    /\ At(t, "leaf") /\ op[t] = "remove" /\ Index(t) > 0
    /\ IF There(t) THEN page' = [page EXCEPT ![at[t]] = Without(@, Index(t))]
       ELSE UNCHANGED page
    /\ IF There(t) /\ Len(Leaf(t).kv) - 1 < Minimum(Leaf(t))
         THEN /\ Goto(t, "merge") /\ level' = [level EXCEPT ![t] = Len(trace[t])]
              /\ at' = [at EXCEPT ![t] = 0]
              /\ UNCHANGED <<fault, op, k, trace, sib, pos, last>>
         ELSE Return(t)
    /\ UNCHANGED <<degree, root, leaves>>

Short(t)  == trace[t][level[t]]         \* the page merge is called with
Above(t)  == trace[t][level[t] - 1]     \* its father
Place(t)  == Search(page[Above(t)], First(page[Short(t)]))
HasRight(t) == Place(t) < Len(page[Above(t)].kv)

(* merge: the root may have become empty; else the right sibling is to be  *)
(* locked, or, if there is none, an empty page to be dropped.  Whether the *)
(* two pages fit into one is decided before the sibling is locked.         *)
MergeRoot(t) ==
    /\ At(t, "merge") /\ Short(t) = root
    /\ page' = IF page[root].kv = <<>> THEN [page EXCEPT ![root].type = "LEAF"] ELSE page
    /\ Return(t) /\ UNCHANGED <<degree, root, leaves>>

Merge(t) ==
    /\ At(t, "merge") /\ Short(t) # root
    /\ \/ /\ HasRight(t)
          /\ LET s == page[Above(t)].kv[Place(t) + 1].v
                 n == Len(page[Short(t)].kv) + Len(page[s].kv) - FirstIdx(page[s]) + 1
             IN sib' = [sib EXCEPT ![t] = s] /\ Goto(t, IF n <= degree THEN "to_fuse" ELSE "to_borrow")
          /\ UNCHANGED <<fault, op, k, at, trace, level, pos, last>>
       \/ /\ ~ HasRight(t) /\ page[Short(t)].kv = <<>> /\ Goto(t, "drop")
          /\ UNCHANGED <<fault, op, k, at, trace, level, sib, pos, last>>
       \/ ~ HasRight(t) /\ page[Short(t)].kv # <<>> /\ Return(t)
    /\ UNCHANGED tree

LockSibling(t) ==
    /\ At(t, "to_fuse") /\ CanWrite(t, sib[t]) /\ Goto(t, "fuse")
    /\ UNCHANGED <<tree, fault, local>>

(* Goes on one level up when the father is now short as well.              *)
Upward(t, pg, tr) ==
    IF Len(pg[Above(t)].kv) < Minimum(pg[Above(t)])
      THEN /\ Goto(t, "merge") /\ level' = [level EXCEPT ![t] = @ - 1]
           /\ sib' = [sib EXCEPT ![t] = 0] /\ trace' = [trace EXCEPT ![t] = tr]
           /\ UNCHANGED <<fault, op, k, at, pos, last>>
      ELSE Return(t)

(* Leaves the first entry out in a leaf as well.                           *)
FaultyMoved(s) == SubSeq(s.kv, 2, Len(s.kv))

(* The entries of the sibling that count.                                  *)
Moved(s) == SubSeq(s.kv, FirstIdx(s), Len(s.kv))

(* The right sibling's entries move over, it leaves the father and the     *)
(* list, and is freed.  An allocation has no room for more than Capacity.  *)
Fuse(t) ==
    /\ At(t, "fuse") /\ (page[sib[t]].type = "LEAF" => CanWrite(t, ListLock))
    /\ LET p  == Short(t)
           s  == page[sib[t]]
           kv == page[p].kv \o Moved(s)
           pg == [q \in DOMAIN page \ {sib[t]} |->
                    IF q = p THEN [page[p] EXCEPT !.kv = kv, !.gone = IF kv = <<>> THEN @ ELSE 0]
                    ELSE IF q = Above(t) THEN Without(page[q], Search(page[q], First(s)))
                    ELSE page[q]]
       IN IF Len(kv) > Capacity(page[p]) THEN Fail("overflow")
          ELSE /\ page' = pg /\ leaves' = Remove(leaves, sib[t])
               /\ Upward(t, pg, trace[t])
               /\ UNCHANGED <<degree, root>>

(* The smallest entry of the sibling moves over, and its key in the father *)
(* is that of the next one.                                                *)
Borrow(t) ==
    /\ At(t, "to_borrow") /\ CanWrite(t, sib[t])
    /\ LET s == page[sib[t]]
           e == s.kv[FirstIdx(s)]
           r == Without(s, FirstIdx(s))
           f == page[Above(t)]
       IN IF Len(r.kv) < FirstIdx(r) THEN Fail("drained")
          ELSE /\ page' = [page EXCEPT ![Short(t)].kv = Append(@, e), ![sib[t]] = r,
                                       ![Above(t)].kv[Search(f, First(r))].k = First(r)]
               /\ Return(t) /\ UNCHANGED <<degree, root, leaves>>

(* An empty page without a right sibling leaves the father and the list    *)
(* and is freed, and its lock is taken off the trace.                      *)
Drop(t) ==
    /\ At(t, "drop") /\ (page[Short(t)].type = "LEAF" => CanWrite(t, ListLock))
    /\ LET p  == Short(t)
           pg == [q \in DOMAIN page \ {p} |->
                    IF q = Above(t) THEN Without(page[q], Place(t)) ELSE page[q]]
       IN /\ page' = pg /\ leaves' = Remove(leaves, p)
          /\ Upward(t, pg, Front(trace[t]))
    /\ UNCHANGED <<degree, root>>

-----------------------------------------------------------------------------
(* bp_range holds the list's lock all the way, and each leaf's in turn.    *)
RangeStart(t) ==
    /\ At(t, "idle") /\ root # NULL
    /\ op' = [op EXCEPT ![t] = "range"]
    /\ \E x \in Froms : k' = [k EXCEPT ![t] = x]
    /\ trace' = [trace EXCEPT ![t] = <<ListLock>>] /\ pos' = [pos EXCEPT ![t] = 1]
    /\ Goto(t, "range")
    /\ UNCHANGED <<tree, fault, at, level, sib, last>>

RangeLock(t) ==
    /\ At(t, "range") /\ pos[t] <= Len(leaves) /\ CanRead(t, leaves[pos[t]])
    /\ trace' = [trace EXCEPT ![t] = <<ListLock, leaves[pos[t]]>>]
    /\ Goto(t, "read")
    /\ UNCHANGED <<tree, fault, op, k, at, level, sib, pos, last>>

(* Reads the keys from k on, then goes on or has enough.  The last key of  *)
(* an empty leaf is kv[-1], and matters until the first key was read.      *)
Wanted(t) == {x \in {e.k : e \in ToSet(page[leaves[pos[t]]].kv)} : x >= k[t]}

RangeRead(t) ==
    /\ At(t, "read")
    /\ IF page[leaves[pos[t]]].kv = <<>> /\ last[t] = 0 THEN Fail("assert")
       ELSE \/ Wanted(t) # {} /\ Return(t) /\ UNCHANGED tree
            \/ /\ last' = [last EXCEPT ![t] = CHOOSE x \in Wanted(t) \cup {@} :
                                                  \A y \in Wanted(t) : y <= x]
               /\ trace' = [trace EXCEPT ![t] = <<ListLock>>]
               /\ pos' = [pos EXCEPT ![t] = @ + 1] /\ Goto(t, "range")
               /\ UNCHANGED <<tree, fault, op, k, at, level, sib>>

RangeEnd(t) ==
    /\ At(t, "range") /\ pos[t] > Len(leaves)
    /\ Return(t) /\ UNCHANGED tree

(* bp_destroy visits every child, the one that was never set too.          *)
Destroy ==
    /\ root # NULL /\ fault = "none" /\ \A t \in Threads : pc[t] = "idle"
    /\ IF \E p \in DOMAIN page : page[p].type = "INTER"
                                 /\ \E e \in ToSet(page[p].kv) : e.v = NULL
         THEN Fail("wild")
         ELSE root' = NULL /\ UNCHANGED <<degree, page, leaves, fault, pc, local>>

Step(t) == \/ DownRoot(t) \/ Down(t) \/ Below(t) \/ Lookup(t)
           \/ InsertKey(t) \/ SplitLeaf(t) \/ Fill(t)
           \/ RemoveKey(t) \/ MergeRoot(t) \/ Merge(t) \/ LockSibling(t)
           \/ Fuse(t) \/ Borrow(t) \/ Drop(t)
           \/ RangeStart(t) \/ RangeLock(t) \/ RangeRead(t) \/ RangeEnd(t)

Next == \/ \E t \in Threads : Call(t)
        \/ (Destroy \/ \E t \in Threads : Step(t)) /\ UNCHANGED inserts

Spec == Init /\ [][Next]_vars
-----------------------------------------------------------------------------
KeysOf(p) == {e.k : e \in ToSet(page[p].kv)}
LeafPages == {p \in DOMAIN page : page[p].type = "LEAF"}
Contents  == UNION {KeysOf(p) : p \in LeafPages}

(* The leaf a search for key ends in, 0 if it goes wrong.                  *)
RECURSIVE Goal(_, _)
Goal(p, key) == IF p = NULL \/ page[p].type = "LEAF" THEN p
                ELSE LET i == Search(page[p], key)
                     IN IF i = 0 THEN NULL ELSE Goal(page[p].kv[i].v, key)

(* Between any two steps of any calls, as long as nothing went wrong:      *)
(* every key in a leaf is where the search for it ends, the leaf list has  *)
(* the leaves in the order of their keys, no page holds more than was      *)
(* allocated for it, and no call holds or waits for a page that was freed. *)
(* The only leaf the list may miss is a root that was emptied.             *)
TreeSound ==
    fault = "none" /\ root # NULL =>
        /\ TypeOK
        /\ \A p \in DOMAIN page : Len(page[p].kv) <= Capacity(page[p])
        /\ \A p \in LeafPages : \A x \in KeysOf(p) : Goal(root, x) = p
        /\ \A i, j \in DOMAIN leaves : i < j =>
              \A x \in KeysOf(leaves[i]), y \in KeysOf(leaves[j]) : x < y
        /\ ToSet(leaves) \subseteq LeafPages /\ LeafPages \ ToSet(leaves) \subseteq {root}
        /\ \A t \in Threads : Held(t) \cup {at[t], sib[t]}
                               \subseteq DOMAIN page \cup {RootLock, ListLock}

(* Splitting, merging and borrowing move keys and lose or double none: a   *)
(* step changes the set of keys by the key of one call at most.            *)
OnlyOwnKey ==
    [][Contents' # Contents =>
         \E t \in Threads : \/ op[t] = "insert" /\ Contents' = Contents \cup {k[t]}
                            \/ op[t] = "remove" /\ Contents' = Contents \ {k[t]}]_vars

(* While a range reads a leaf no update is at work in it, although a leaf  *)
(* that was just split off is in the list and not locked, and the keys it  *)
(* reads come in ascending order, although keys are moved between leaves.  *)
RangeSteady ==
    \A t \in Threads : fault = "none" /\ pc[t] = "read" =>
        /\ \A u \in Threads \ {t} : pc[u] = "fill" => at[u] # leaves[pos[t]]
        /\ \A x \in Wanted(t) : x > last[t]

(* What a call waits for.                                                  *)
AwaitsList(t) ==
    \/ pc[t] = "leaf" /\ op[t] = "insert" /\ ~ There(t) /\ Len(Leaf(t).kv) = degree
    \/ pc[t] = "fuse" /\ page[sib[t]].type = "LEAF"
    \/ pc[t] = "drop" /\ page[Short(t)].type = "LEAF"
Blocked(t) == \/ pc[t] = "down" /\ ~ Can(t, at[t])
              \/ pc[t] \in {"to_fuse", "to_borrow"} /\ ~ CanWrite(t, sib[t])
              \/ AwaitsList(t) /\ ~ CanWrite(t, ListLock)
              \/ pc[t] = "range" /\ pos[t] <= Len(leaves) /\ ~ CanRead(t, leaves[pos[t]])
Busy == {t \in Threads : pc[t] # "idle"}
Stuck == fault = "none" /\ Busy # {} /\ \A t \in Busy : Blocked(t)

(* "always choose the right sibling ... [to] prevent deadlock whiling      *)
(* ranging and removing at the same time", says bptree.c:349-350: a range  *)
(* and a removal never wait for each other for ever.                       *)
RangeAndRemoveGoOn ==
    Stuck => ~ \E r, u \in Busy : op[r] = "range" /\ op[u] = "remove"

(* What does hold: the only deadlock is between ranges and updates that    *)
(* want the list's lock.  When no call can go on, a range holds that lock  *)
(* and an update waits for it; updates and lookups alone never deadlock,   *)
(* although a removal locks siblings from left to right (bptree.c:86-425). *)
OnlyRangeDeadlocks ==
    Stuck => \E r, u \in Busy : op[r] = "range" /\ AwaitsList(u)
=============================================================================
