------------------------------- MODULE HashSet -------------------------------
(***************************************************************************)
(* The split-ordered hash set of hashset/lock_free/hashset.c.  All keys    *)
(* are in one list, the one of bucket 0, in the order of their reversed    *)
(* bits; a bucket is a shortcut into it, a sentinel node that is made when *)
(* the bucket is first used.  It is made in three steps: the sentinel gets *)
(* a list of its own, the bucket is published, the sentinel is linked into *)
(* the list of the father bucket.  In between, calls already use it.       *)
(*                                                                         *)
(* Of the list (hashset/lock_free/linked_list.c) a search is one step and  *)
(* the compare-and-swap that follows it another; LockFreeList has the      *)
(* search load by load.  Nodes are not reused.  The array of clusters is   *)
(* taken to be zero, as malloc gives it in a fresh process: hs_create does *)
(* not clear it.  A key, a list key and a bucket number are the sets of    *)
(* their one bits, so that the split order needs no arithmetic.            *)
(*                                                                         *)
(* An operator named Faulty... is a variant of the next definition with a  *)
(* defect that some property must detect.                                  *)
(***************************************************************************)
EXTENDS Naturals, FiniteSets

CONSTANTS Threads,
          Width,                \* the bits of a list key, 64 in the code
          Keys,
          Copies,               \* bound: how often one key may be inserted
          MinBits, MaxBits,     \* MIN_NUM_BUCKETS = 2 ^ MinBits, and
                                \* CLUSTER_LEN * BUCKET_PER_CLUSTER = 2 ^ MaxBits
          Counts,               \* insertions before the start
          NULL

Bits(n) == 0 .. n - 1

(* The first bit of a key is invalid (MASK).  The key of all ones is the   *)
(* tail's own, and its insertion always fails.                             *)
ASSUME HashSetAssumption ==
    /\ Width \in Nat \ {0} /\ MinBits \in Nat /\ MaxBits \in MinBits .. Width - 1
    /\ Keys \subseteq SUBSET Bits(Width - 1) /\ Bits(Width - 1) \notin Keys
    /\ Copies \in Nat
    /\ Counts \subseteq Nat /\ \A n \in Counts : n <= 2 ^ MinBits + 1

VARIABLES bits, num_e,          \* struct hash_set, num_b = 2 ^ bits
          buckets,              \* the buckets that are published
          next, marked,         \* the next words and their marks
          alive,                \* until hs_destroy
          pc, op, k,            \* a thread's place, call and key
          bucket, making,       \* the bucket it uses, the one it makes
          pred, curr,           \* what its search found
          seen                  \* the num_b it read before a resize, 2 ^ seen

table == <<bits, num_e, buckets>>
list  == <<next, marked>>
local == <<op, k, bucket, making, pred, curr, seen>>
vars  == <<table, list, alive, pc, local>>

Buckets     == SUBSET Bits(MaxBits)
Sentinel(b) == <<"sentinel", b>>
HeadOf(b)   == <<"head", b>>
TailOf(b)   == <<"tail", b>>
KeyNodes    == {"key"} \X Keys \X (1 .. Copies)
Nodes       == KeyNodes \cup ({"head", "sentinel", "tail"} \X Buckets)
Pointer     == Nodes \cup {NULL}

ASSUME NullAssumption == NULL \notin Nodes

(* reverse_by_bit                                                          *)
Reverse(w) == {Width - 1 - i : i \in w}

SetSentinelKey(b) == Reverse(b)

(* Keeps the key as it is.                                                 *)
FaultySetKey(x) == x \cup {Width - 1}

SetKey(x) == Reverse(x \cup {Width - 1})

(* The key of a list node, e.k.                                            *)
ListKey == [n \in Nodes |-> CASE n[1] = "sentinel" -> SetSentinelKey(n[2])
                              [] n[1] = "key"      -> SetKey(n[2])
                              [] n[1] = "head"     -> {}
                              [] n[1] = "tail"     -> Bits(Width)]

(* k_cmp: the highest bit in which two words differ decides.               *)
Less(v, w) == \E i \in w \ v : \A j \in v \ w : j < i

(* get_fa_index takes the highest bit off.                                 *)
Father(b) == {i \in b : \E j \in b : i < j}

(* The buckets get_bucket_list visits on its way to b, fathers first.      *)
Lineage(b) == {b \cap Bits(n) : n \in 0 .. MaxBits}

(* ll_create and the insertion of the sentinel, in a list no one knows.    *)
OwnList(b, f) == [f EXCEPT ![HeadOf(b)] = Sentinel(b), ![Sentinel(b)] = TailOf(b)]

TypeOK == /\ bits \in MinBits .. MaxBits /\ num_e \in Nat
          /\ buckets \subseteq Buckets
          /\ next \in [Nodes -> Pointer] /\ marked \subseteq KeyNodes
          /\ alive \in BOOLEAN
          /\ pc \in [Threads -> {"idle", "get", "publish", "aim", "join", "find", "link",
                                 "mark", "count", "resize", "abort"}]
          /\ op \in [Threads -> {"none", "insert", "lookup", "remove"}]
          /\ k \in [Threads -> Keys \cup {NULL}]
          /\ bucket \in [Threads -> Buckets] /\ making \in [Threads -> Buckets]
          /\ pred \in [Threads -> Pointer] /\ curr \in [Threads -> Pointer]
          /\ seen \in [Threads -> Nat]

(* hs_create, or any later moment when the table is empty again: num_e     *)
(* counts insertions and never goes down.                                  *)
Init == /\ bits = MinBits /\ num_e \in Counts
        /\ buckets = {{}}
        /\ next = OwnList({}, [n \in Nodes |-> NULL])
        /\ marked = {} /\ alive = TRUE
        /\ pc = [t \in Threads |-> "idle"] /\ op = [t \in Threads |-> "none"]
        /\ k = [t \in Threads |-> NULL] /\ seen = [t \in Threads |-> 0]
        /\ bucket = [t \in Threads |-> {}] /\ making = [t \in Threads |-> {}]
        /\ pred = [t \in Threads |-> NULL] /\ curr = [t \in Threads |-> NULL]

-----------------------------------------------------------------------------
(* The nodes a walk from n meets, and those on the chain of bucket b.      *)
Walk(f, n) ==
    LET walk[m \in Nodes] == {m} \cup IF f[m] = NULL THEN {} ELSE walk[f[m]]
    IN  walk[n]
Reach(n)   == Walk(next, n)
ChainOf(b) == Reach(HeadOf(b))
Main       == ChainOf({})

(* find: the first live node behind the head of b with a key of at least   *)
(* key, the live node before it, and the chain up to it with the dead      *)
(* nodes unlinked.                                                         *)
Live(b) == ChainOf(b) \ marked
Found(b, key) ==
    LET high == {n \in Live(b) \ {HeadOf(b)} : ~ Less(ListKey[n], key)}
    IN CHOOSE n \in high : high \subseteq Reach(n)
Before(b, n) ==
    LET ahead == {m \in Live(b) : n \in Reach(m) \ {m}}
    IN CHOOSE m \in ahead : Reach(m) \cap ahead = {m}
FirstLive(n) == CHOOSE m \in Reach(n) \ marked : \A l \in Reach(n) \ marked : l \in Reach(m)
Unlinked(b, n) ==
    [m \in Nodes |-> IF m \in Live(b) /\ n \in Reach(m) \ {m} THEN FirstLive(next[m]) ELSE next[m]]

Goto(t, to)  == pc' = [pc EXCEPT ![t] = to]
Aimed(t, p, c) == pred' = [pred EXCEPT ![t] = p] /\ curr' = [curr EXCEPT ![t] = c]

Return(t) == /\ Goto(t, "idle") /\ Aimed(t, NULL, NULL)
             /\ op' = [op EXCEPT ![t] = "none"] /\ k' = [k EXCEPT ![t] = NULL]
             /\ bucket' = [bucket EXCEPT ![t] = {}] /\ seen' = [seen EXCEPT ![t] = 0]
             /\ UNCHANGED making

(* Links without comparing.                                                *)
FaultyUnchanged(t) == TRUE

(* What the compare-and-swap of pred->next compares, the mark included.    *)
Unchanged(t) == next[pred[t]] = curr[t] /\ pred[t] \notin marked

-----------------------------------------------------------------------------
(* hs_insert, hs_lookup, hs_remove: b_id = k % num_b                       *)
Call(t) ==
    /\ pc[t] = "idle" /\ alive
    /\ \E o \in {"insert", "lookup", "remove"}, x \in Keys :
          /\ op' = [op EXCEPT ![t] = o] /\ k' = [k EXCEPT ![t] = x]
          /\ bucket' = [bucket EXCEPT ![t] = x \cap Bits(bits)]
    /\ Goto(t, "get")
    /\ UNCHANGED <<table, list, alive, making, pred, curr, seen>>

(* get_bucket_list: the first bucket on the way that is not there.         *)
Get(t) ==
    /\ pc[t] = "get"
    /\ LET missing == Lineage(bucket[t]) \ buckets IN
       IF missing = {} THEN Goto(t, "find") /\ UNCHANGED making
       ELSE /\ Goto(t, "publish")
            /\ making' = [making EXCEPT ![t] = CHOOSE b \in missing :
                                                   \A c \in missing : b \subseteq c]
    /\ UNCHANGED <<table, list, alive, op, k, bucket, pred, curr, seen>>

(* Publishes a bucket that is already there.                               *)
FaultyAbsent(b) == TRUE

Absent(b) == b \notin buckets

(* The compare-and-swap of the bucket's pointer; the loser frees its list. *)
Publish(t) ==
    /\ pc[t] = "publish"
    /\ LET b == making[t] IN
       IF Absent(b)
         THEN /\ buckets' = buckets \cup {b}
              /\ next' = OwnList(b, next)
              /\ Goto(t, "aim") /\ UNCHANGED making
         ELSE /\ Goto(t, "get") /\ making' = [making EXCEPT ![t] = {}]
              /\ UNCHANGED <<buckets, next>>
    /\ UNCHANGED <<bits, num_e, marked, alive, op, k, bucket, pred, curr, seen>>

(* ll_insert2: the search in the father's list, and node->next = curr,     *)
(* which drops what other calls have inserted behind the sentinel.  The    *)
(* caller asserts that the sentinel was not there.                         *)
Aim(t) ==
    /\ pc[t] = "aim"
    /\ LET b == making[t]
           f == Father(b)
           c == Found(f, SetSentinelKey(b))
       IN IF ListKey[c] = SetSentinelKey(b)
            THEN Goto(t, "abort") /\ UNCHANGED <<next, pred, curr>>
            ELSE /\ next' = [Unlinked(f, c) EXCEPT ![Sentinel(b)] = c]
                 /\ Aimed(t, Before(f, c), c) /\ Goto(t, "join")
    /\ UNCHANGED <<table, marked, alive, op, k, bucket, making, seen>>

Join(t) ==
    /\ pc[t] = "join"
    /\ IF Unchanged(t)
         THEN /\ next' = [next EXCEPT ![pred[t]] = Sentinel(making[t])]
              /\ Goto(t, "get") /\ making' = [making EXCEPT ![t] = {}]
         ELSE Goto(t, "aim") /\ UNCHANGED <<next, making>>
    /\ Aimed(t, NULL, NULL)
    /\ UNCHANGED <<table, marked, alive, op, k, bucket, seen>>

-----------------------------------------------------------------------------
(* The search of ll_insert and ll_remove, and all of ll_lookup.            *)
Find(t) ==
    /\ pc[t] = "find"
    /\ LET b == bucket[t]
           c == Found(b, SetKey(k[t]))
           there == ListKey[c] = SetKey(k[t])
       IN \/ op[t] = "lookup" /\ Return(t) /\ UNCHANGED next
          \/ /\ op[t] # "lookup" /\ there = (op[t] = "insert") /\ Return(t)
             /\ next' = Unlinked(b, c)
          \/ /\ op[t] # "lookup" /\ there # (op[t] = "insert")
             /\ Goto(t, IF there THEN "mark" ELSE "link")
             /\ Aimed(t, Before(b, c), c) /\ next' = Unlinked(b, c)
             /\ UNCHANGED <<op, k, bucket, making, seen>>
    /\ UNCHANGED <<table, marked, alive>>

(* The node ll_insert allocates: one that never was in the list.           *)
Fresh(x) == {n \in KeyNodes : n[2] = x /\ next[n] = NULL}

Link(t) ==
    /\ pc[t] = "link"
    /\ \/ /\ Unchanged(t) /\ Fresh(k[t]) # {}
          /\ LET n == CHOOSE m \in Fresh(k[t]) : TRUE IN
             next' = [next EXCEPT ![n] = curr[t], ![pred[t]] = n]
          /\ Goto(t, "count")
       \/ ~ Unchanged(t) /\ Goto(t, "find") /\ UNCHANGED next
    /\ Aimed(t, NULL, NULL)
    /\ UNCHANGED <<table, marked, alive, op, k, bucket, making, seen>>

(* ll_remove marks the node, and unlinks it if it can.                     *)
Mark(t) ==
    /\ pc[t] = "mark"
    /\ IF curr[t] \notin marked
         THEN /\ marked' = marked \cup {curr[t]}
              /\ next' = IF Unchanged(t) THEN [next EXCEPT ![pred[t]] = next[curr[t]]] ELSE next
              /\ Return(t)
         ELSE /\ Goto(t, "find") /\ Aimed(t, NULL, NULL)
              /\ UNCHANGED <<list, op, k, bucket, making, seen>>
    /\ UNCHANGED <<table, alive>>

(* xadd of num_e, and the test for a resize.                               *)
Count(t) ==
    /\ pc[t] = "count"
    /\ num_e' = num_e + 1
    /\ IF num_e > 2 ^ bits /\ bits < MaxBits
         THEN /\ Goto(t, "resize") /\ seen' = [seen EXCEPT ![t] = bits]
              /\ UNCHANGED <<op, k, bucket, making, pred, curr>>
         ELSE Return(t)
    /\ UNCHANGED <<bits, buckets, list, alive>>

Resize(t) ==
    /\ pc[t] = "resize"
    /\ bits' = IF bits = seen[t] THEN bits + 1 ELSE bits
    /\ Return(t)
    /\ UNCHANGED <<num_e, buckets, list, alive>>

(* hs_destroy frees the chain of bucket 0, then the head and the tail of   *)
(* every other bucket.                                                     *)
Destroy ==
    /\ alive /\ \A t \in Threads : pc[t] = "idle"
    /\ alive' = FALSE
    /\ UNCHANGED <<table, list, pc, local>>

Step(t) == \/ Call(t) \/ Get(t) \/ Publish(t) \/ Aim(t) \/ Join(t)
           \/ Find(t) \/ Link(t) \/ Mark(t) \/ Count(t) \/ Resize(t)

(* A failed assertion ends the process.                                    *)
Running == \A t \in Threads : pc[t] # "abort"

Next == Running /\ (Destroy \/ \E t \in Threads : Step(t))

Spec == Init /\ [][Next]_vars
-----------------------------------------------------------------------------
(* The assertions of get_bucket_list hold: a sentinel is linked once, so   *)
(* two threads that need the same bucket agree on who makes it.            *)
SentinelOnce == TypeOK /\ Running

(* What is in the list of bucket 0 leaves it only by being removed: making *)
(* a bucket never cuts it, and a key is lost only when it was inserted     *)
(* into a bucket that was published and not joined yet.                    *)
NothingFallsOut == [][Main \ Main' \subseteq marked']_vars

(* A bucket that is joined is a sound shortcut: for each of its keys, at   *)
(* any size of the table so far, the search from its sentinel finds the    *)
(* key exactly if the list of bucket 0 has it.  That list is in order and  *)
(* ends in its own tail, so that hs_destroy frees no tail twice.           *)
Has(b, x) == \E n \in Live(b) : n[1] = "key" /\ n[2] = x

ShortcutSound ==
    /\ \A m, n \in Live({}) \ {HeadOf({})} :
          m # n /\ n \in Reach(m) => Less(ListKey[m], ListKey[n])
    /\ Main \cap {TailOf(b) : b \in Buckets} = {TailOf({})}
    /\ \A b \in buckets, x \in Keys :
          Sentinel(b) \in Main /\ (\E n \in MinBits .. bits : x \cap Bits(n) = b)
              => /\ Has(b, x) <=> Has({}, x)
                 /\ Has({}, x) <=> ListKey[Found(b, SetKey(x))] = SetKey(x)
=============================================================================
