---------------------------- MODULE LazySkipList ----------------------------
(***************************************************************************)
(* The skip list of skiplist/lazy_sync/skiplist.c.  A search goes down the *)
(* levels without locks; an update then locks the predecessors it found,   *)
(* from the lowest level up, validates them, and starts over if one of     *)
(* them changed.  The word next[0] of a node also holds two tags: marked,  *)
(* which takes the node out of the set, and fully linked.  A search is one *)
(* step per level, the stores to shared words and the taking of each lock  *)
(* are steps, and locks are released in one.  Levels count from 1.         *)
(*                                                                         *)
(* The locks are the ticket locks of TicketSpinlock; here they may also be *)
(* unlocked by a thread that does not hold them.                           *)
(*                                                                         *)
(* fault says what went wrong beyond repair: a lookup or an update is wild *)
(* when it follows a pointer out of a freed or half-made node; a word is   *)
(* overwritten when the plain read-modify-write that sets the second tag   *)
(* undoes a store of another thread.  Nothing is said of what comes after. *)
(*                                                                         *)
(* sl_range and sl_print change nothing and are left out.                  *)
(*                                                                         *)
(* An operator named Faulty... is a variant of the next definition with a  *)
(* defect that some property must detect.                                  *)
(***************************************************************************)
EXTENDS Naturals, FiniteSets, SequencesExt

CONSTANTS Threads,
          Nodes,                \* what aligned_alloc gives out
          head, tail, NULL,
          MaxKey,               \* the keys are 1 .. MaxKey
          MaxLevels,            \* the argument of sl_create
          LookupKeys,           \* bound: the keys that sl_lookup looks for
          MaxUpdates,           \* bound: calls of sl_insert and sl_remove
          MaxSurplus            \* bound: surplus unlocks of one lock

(* Assumed where the constants get their values.                           *)
SkipListAssumption == /\ Nodes \cap {head, tail, NULL} = {}
                      /\ Cardinality({head, tail, NULL}) = 3
                      /\ MaxKey \in Nat /\ MaxSurplus \in Nat
                      /\ MaxLevels \in Nat \ {0}

VARIABLES next, sign,           \* the next pointers, the tags of next[0]
          key, height, free,    \* the nodes, and those malloc may return
          queue, surplus,       \* locks: the holder and who waits, and the
                                \* unlocks that nobody had locked for
          updates,              \* counts towards MaxUpdates
          alive, fault,
          inside, waits,        \* reclamation, see GracePeriod
          pc, op, k, h,         \* a thread's place, call, key and node_levels
          lev,                  \* i
          preds, succs, found,  \* found_level, 0 for none
          node, word,           \* its node, and what it loaded of next[0]
          ret                   \* 0 ("yes"), or an error ("no")

nodes == <<next, sign, key, height, free>>
locks == <<queue, surplus>>
ebr   == <<inside, waits>>
path  == <<lev, preds, succs, found>>
call  == <<op, k, h, node, word, ret>>
vars  == <<nodes, locks, updates, alive, fault, ebr, pc, path, call>>

Ebr == INSTANCE GracePeriod

Keys    == 1 .. MaxKey
Levels  == 1 .. MaxLevels
AllNode == Nodes \cup {head, tail}
Pointer == AllNode \cup {NULL}
Tags    == {"MARK", "FULL"}
Nowhere == [i \in Levels |-> NULL]

TypeOK == /\ next \in [AllNode -> [Levels -> Pointer]] /\ sign \in [AllNode -> SUBSET Tags]
          /\ key \in [AllNode -> 0 .. MaxKey + 1] /\ height \in [AllNode -> 0 .. MaxLevels]
          /\ free \subseteq Nodes
          /\ queue \in [AllNode -> Seq(Threads)] /\ surplus \in [AllNode -> Nat]
          /\ alive \in BOOLEAN /\ fault \in {"none", "wild lookup", "wild update", "overwritten"}
          /\ inside \subseteq Threads /\ Ebr!Retired \subseteq Nodes
          /\ pc \in [Threads -> {"idle", "find", "found", "spin", "own", "await_own", "mark",
                                 "lock", "await", "check", "link", "sign", "store",
                                 "unlink", "put", "exit"}]
          /\ op \in [Threads -> {"none", "insert", "lookup", "remove"}]
          /\ k \in [Threads -> 0 .. MaxKey] /\ h \in [Threads -> 0 .. MaxLevels]
          /\ lev \in [Threads -> 0 .. MaxLevels] /\ found \in [Threads -> 0 .. MaxLevels]
          /\ preds \in [Threads -> [Levels -> Pointer]]
          /\ succs \in [Threads -> [Levels -> Pointer]]
          /\ node \in [Threads -> Pointer] /\ ret \in [Threads -> {"none", "yes", "no"}]
          /\ word \in [Threads -> [to : Pointer, sign : SUBSET Tags]]

Blank == [to |-> NULL, sign |-> {}]

(* sl_create.  sl->levels only delays the use of the higher levels: with   *)
(* more than two levels, this is a list that is empty again after nodes of *)
(* all heights.                                                            *)
Init == /\ next = [n \in AllNode |-> IF n = head THEN [i \in Levels |-> tail] ELSE Nowhere]
        /\ sign = [n \in AllNode |-> IF n \in Nodes THEN {} ELSE {"FULL"}]
        /\ key = [n \in AllNode |-> IF n = tail THEN MaxKey + 1 ELSE 0]
        /\ height = [n \in AllNode |-> IF n \in Nodes THEN 0 ELSE MaxLevels]
        /\ free = Nodes
        /\ queue = [n \in AllNode |-> <<>>] /\ surplus = [n \in AllNode |-> 0]
        /\ updates = 0 /\ alive = TRUE /\ fault = "none" /\ Ebr!Init
        /\ pc = [t \in Threads |-> "idle"] /\ op = [t \in Threads |-> "none"]
        /\ k = [t \in Threads |-> 0] /\ h = [t \in Threads |-> 0]
        /\ lev = [t \in Threads |-> 0] /\ found = [t \in Threads |-> 0]
        /\ preds = [t \in Threads |-> Nowhere] /\ succs = [t \in Threads |-> Nowhere]
        /\ node = [t \in Threads |-> NULL] /\ word = [t \in Threads |-> Blank]
        /\ ret = [t \in Threads |-> "none"]

-----------------------------------------------------------------------------
At(t, label) == pc[t] = label /\ fault = "none"
Goto(t, to)  == pc' = [pc EXCEPT ![t] = to]
Fail(what)   == fault' = what /\ UNCHANGED <<nodes, locks, alive, ebr, pc, path, call>>

(* The search begins at the top; what an earlier one found is dead.        *)
Restart(t) == /\ Goto(t, "find") /\ lev' = [lev EXCEPT ![t] = MaxLevels]
              /\ preds' = [preds EXCEPT ![t] = Nowhere]
              /\ succs' = [succs EXCEPT ![t] = Nowhere]
              /\ found' = [found EXCEPT ![t] = 0]

Forget(t) == /\ lev' = [lev EXCEPT ![t] = 0] /\ found' = [found EXCEPT ![t] = 0]
             /\ preds' = [preds EXCEPT ![t] = Nowhere] /\ succs' = [succs EXCEPT ![t] = Nowhere]

Return(t) == /\ Goto(t, "idle") /\ Forget(t) /\ op' = [op EXCEPT ![t] = "none"]
             /\ k' = [k EXCEPT ![t] = 0] /\ h' = [h EXCEPT ![t] = 0]
             /\ node' = [node EXCEPT ![t] = NULL] /\ word' = [word EXCEPT ![t] = Blank]
             /\ ret' = [ret EXCEPT ![t] = "none"]

(* ebr_exit and the return.                                                *)
Leave(t)  == Ebr!Exit(t) /\ Return(t)

-----------------------------------------------------------------------------
(* sl_insert, with get_rand_levels.                                        *)
CallInsert(t) ==
    /\ At(t, "idle") /\ alive
    /\ updates < MaxUpdates /\ updates' = updates + 1
    /\ \E x \in Keys, n \in Levels :
          /\ op' = [op EXCEPT ![t] = "insert"] /\ k' = [k EXCEPT ![t] = x]
          /\ h' = [h EXCEPT ![t] = n]
    /\ Ebr!Enter(t) /\ Restart(t)
    /\ UNCHANGED <<nodes, locks, alive, fault, node, word, ret>>

CallRemove(t) ==
    /\ At(t, "idle") /\ alive
    /\ updates < MaxUpdates /\ updates' = updates + 1
    /\ op' = [op EXCEPT ![t] = "remove"] /\ \E x \in Keys : k' = [k EXCEPT ![t] = x]
    /\ Ebr!Enter(t) /\ Restart(t)
    /\ UNCHANGED <<nodes, locks, alive, fault, h, node, word, ret>>

(* sl_lookup does not call ebr_enter.                                      *)
CallLookup(t) ==
    /\ At(t, "idle") /\ alive
    /\ op' = [op EXCEPT ![t] = "lookup"] /\ \E x \in LookupKeys : k' = [k EXCEPT ![t] = x]
    /\ Restart(t)
    /\ UNCHANGED <<nodes, locks, alive, fault, ebr, h, node, word, ret>>

(* find on level i, from p: the last node with a smaller key.              *)
Wild(p, i) == p \in free \/ i > height[p] \/ next[p][i] \in free \cup {NULL}

RECURSIVE LastBelow(_, _, _)
LastBelow(p, i, x) ==
    IF ~ Wild(p, i) /\ key[next[p][i]] < x THEN LastBelow(next[p][i], i, x) ELSE p

Upto(f, n) == [i \in Levels |-> IF i <= n THEN f[i] ELSE NULL]

FindLevel(t, p, c) ==
    /\ preds' = [preds EXCEPT ![t][lev[t]] = p] /\ succs' = [succs EXCEPT ![t][lev[t]] = c]
    /\ found' = [found EXCEPT ![t] = IF key[c] = k[t] /\ @ = 0 THEN lev[t] ELSE @]

(* The last level: an insertion that found no node with its key, and a     *)
(* removal that has marked its node, go on to lock their predecessors.     *)
FindEnd(t, p, c) ==
    LET hit == IF found[t] # 0 THEN succs[t][found[t]] ELSE IF key[c] = k[t] THEN c ELSE NULL
        own == (op[t] = "insert" /\ hit = NULL) \/ (op[t] = "remove" /\ ret[t] = "yes")
    IN /\ Goto(t, IF own THEN "lock" ELSE "found")
       /\ node' = [node EXCEPT ![t] = hit]
       /\ IF op[t] = "remove" \/ own
            THEN LET n == IF own THEN h[t] ELSE MaxLevels
                 IN /\ preds' = [preds EXCEPT ![t] = Upto([@ EXCEPT ![1] = p], n)]
                    /\ succs' = [succs EXCEPT ![t] = Upto([@ EXCEPT ![1] = c], n)]
                    /\ found' = [found EXCEPT ![t] = 0] /\ UNCHANGED lev
            ELSE Forget(t)
       /\ UNCHANGED <<op, k, h, word, ret>>

Find(t) ==
    /\ At(t, "find")
    /\ LET i == lev[t]
           p == LastBelow(IF i = MaxLevels THEN head ELSE preds[t][i + 1], i, k[t])
       IN \/ Wild(p, i) /\ Fail(IF op[t] = "lookup" THEN "wild lookup" ELSE "wild update")
          \/ /\ ~ Wild(p, i)
             /\ \/ /\ i > 1 /\ FindLevel(t, p, next[p][i])
                   /\ lev' = [lev EXCEPT ![t] = i - 1] /\ UNCHANGED <<pc, call>>
                \/ i = 1 /\ FindEnd(t, p, next[p][i])
             /\ UNCHANGED <<nodes, locks, alive, fault, ebr>>

There(t) == node[t] # NULL /\ sign[node[t]] = {"FULL"}

FoundInsert(t) ==
    /\ At(t, "found") /\ op[t] = "insert"
    /\ \/ "MARK" \in sign[node[t]] /\ Restart(t) /\ node' = [node EXCEPT ![t] = NULL]
       \/ "MARK" \notin sign[node[t]] /\ Goto(t, "spin") /\ UNCHANGED <<path, node>>
    /\ UNCHANGED <<nodes, locks, alive, fault, ebr, op, k, h, word, ret>>

(* Waits until the other insertion of the key is through.                  *)
Spin(t) ==
    /\ At(t, "spin") /\ "FULL" \in sign[node[t]]
    /\ Leave(t) /\ UNCHANGED <<nodes, locks, alive, fault>>

FoundLookup(t) ==
    /\ At(t, "found") /\ op[t] = "lookup"
    /\ IF node[t] \in free THEN Fail("wild lookup")
       ELSE Leave(t) /\ UNCHANGED <<nodes, locks, alive, fault>>

(* sl_remove returns without ebr_exit when the key is not there.  Once it  *)
(* has marked the node it only looks for the predecessors.                 *)
FoundRemove(t) ==
    /\ At(t, "found") /\ op[t] = "remove"
    /\ IF There(t) THEN Goto(t, "own") /\ UNCHANGED <<path, call>>
                   ELSE Return(t)
    /\ UNCHANGED <<nodes, locks, alive, fault, ebr>>

-----------------------------------------------------------------------------
(* spin_lock(n): the lock is the thread's at once, or it waits for its     *)
(* turn, which never comes when that ticket was served already.            *)
Lock(t, n, granted, wait) ==
    IF surplus[n] > 0
      THEN surplus' = [surplus EXCEPT ![n] = @ - 1] /\ Goto(t, wait) /\ UNCHANGED queue
      ELSE /\ queue' = [queue EXCEPT ![n] = Append(@, t)] /\ UNCHANGED surplus
           /\ Goto(t, IF queue[n] = <<>> THEN granted ELSE wait)

Turn(t, n) == queue[n] # <<>> /\ queue[n][1] = t

(* spin_unlock serves the next ticket, whoever has the lock.               *)
Unlock(S) ==
    /\ queue' = [n \in AllNode |-> IF n \in S /\ queue[n] # <<>> THEN Tail(queue[n]) ELSE queue[n]]
    /\ surplus' = [n \in AllNode |-> IF n \in S /\ queue[n] = <<>> THEN surplus[n] + 1
                                     ELSE surplus[n]]

(* Lets go of one lock less than it took.                                  *)
FaultyTaken(t) == {preds[t][i] : i \in 1 .. lev[t] - 1}

(* The predecessors that are locked when the loop stops at level i.        *)
Taken(t) == {preds[t][i] : i \in 1 .. lev[t]}

-----------------------------------------------------------------------------
(* sl_remove locks its node, and marks it, or finds it marked.             *)
Own(t) ==
    /\ At(t, "own") /\ Lock(t, node[t], "mark", "await_own")
    /\ UNCHANGED <<nodes, alive, fault, ebr, path, call>>

AwaitOwn(t) ==
    /\ At(t, "await_own") /\ Turn(t, node[t]) /\ Goto(t, "mark")
    /\ UNCHANGED <<nodes, locks, alive, fault, ebr, path, call>>

Mark(t) ==
    /\ At(t, "mark")
    /\ \/ /\ "MARK" \in sign[node[t]]
          /\ Unlock({node[t]}) /\ Leave(t) /\ UNCHANGED sign
       \/ /\ "MARK" \notin sign[node[t]]
          /\ sign' = [sign EXCEPT ![node[t]] = @ \cup {"MARK"}]
          /\ h' = [h EXCEPT ![t] = height[node[t]]] /\ ret' = [ret EXCEPT ![t] = "yes"]
          /\ Goto(t, "lock")
          /\ preds' = [preds EXCEPT ![t] = Upto(@, height[node[t]])]
          /\ succs' = [succs EXCEPT ![t] = Upto(@, height[node[t]])]
          /\ UNCHANGED <<locks, ebr, op, k, node, word, lev, found>>
    /\ UNCHANGED <<next, key, height, free, alive, fault>>

(* The loop that locks the predecessors, a node that is on several levels  *)
(* once.                                                                   *)
LockPred(t) ==
    /\ At(t, "lock") /\ Lock(t, preds[t][lev[t]], "check", "await")
    /\ UNCHANGED <<nodes, alive, fault, ebr, path, call>>

Await(t) ==
    /\ At(t, "await") /\ Turn(t, preds[t][lev[t]]) /\ Goto(t, "check")
    /\ UNCHANGED <<nodes, locks, alive, fault, ebr, path, call>>

(* Does not look whether the predecessor was removed.                      *)
FaultyIntact(t) == next[preds[t][lev[t]]][lev[t]] = succs[t][lev[t]]

(* The level is as it was found.                                           *)
Intact(t) == LET p == preds[t][lev[t]]
                 s == succs[t][lev[t]]
             IN /\ "MARK" \notin sign[p] /\ next[p][lev[t]] = s
                /\ op[t] = "insert" => "MARK" \notin sign[s]

(* When a level has changed, everything is unlocked and the call starts    *)
(* over.  sl_remove unlocks its node as well, each time, and does not lock *)
(* it again.                                                               *)
Check(t) ==
    /\ At(t, "check")
    /\ \/ /\ ~ Intact(t) /\ (op[t] = "remove" => surplus[node[t]] < MaxSurplus)
          /\ Unlock(Taken(t) \cup ({node[t]} \ {NULL})) /\ Restart(t)
       \/ /\ Intact(t) /\ lev[t] < h[t]
          /\ Goto(t, IF preds[t][lev[t] + 1] = preds[t][lev[t]] THEN "check" ELSE "lock")
          /\ lev' = [lev EXCEPT ![t] = @ + 1]
          /\ UNCHANGED <<locks, preds, succs, found>>
       \/ /\ Intact(t) /\ lev[t] = h[t]
          /\ Goto(t, IF op[t] = "insert" THEN "link" ELSE "unlink")
          /\ lev' = [lev EXCEPT ![t] = 1] /\ UNCHANGED <<locks, preds, succs, found>>
    /\ UNCHANGED <<nodes, alive, fault, ebr, call>>

-----------------------------------------------------------------------------
(* Linking a node: the lowest level puts it into the set.  FULLY_LINK2     *)
(* writes the predecessor's word with the second tag and no mark.          *)
Further(t, done) ==
    IF lev[t] < h[t] THEN lev' = [lev EXCEPT ![t] = @ + 1] /\ UNCHANGED pc
                     ELSE Goto(t, done) /\ UNCHANGED lev

Link(t) ==
    /\ At(t, "link") /\ lev[t] = 1
    /\ \E n \in free :
          /\ free' = free \ {n} /\ node' = [node EXCEPT ![t] = n]
          /\ key' = [key EXCEPT ![n] = k[t]] /\ height' = [height EXCEPT ![n] = h[t]]
          /\ next' = [next EXCEPT ![n] = [Nowhere EXCEPT ![1] = succs[t][1]],
                                  ![preds[t][1]][1] = n]
          /\ sign' = [sign EXCEPT ![n] = {}, ![preds[t][1]] = {"FULL"}]
          /\ queue' = [queue EXCEPT ![n] = <<>>] /\ surplus' = [surplus EXCEPT ![n] = 0]
    /\ ret' = [ret EXCEPT ![t] = "yes"] /\ Further(t, "sign")
    /\ UNCHANGED <<alive, fault, ebr, preds, succs, found, op, k, h, word>>

LinkUp(t) ==
    /\ At(t, "link") /\ lev[t] > 1
    /\ LET i == lev[t] IN
       next' = [next EXCEPT ![node[t]][i] = succs[t][i], ![preds[t][i]][i] = node[t]]
    /\ Further(t, "sign")
    /\ UNCHANGED <<sign, key, height, free, locks, alive, fault, ebr,
                   preds, succs, found, call>>

Word(n) == [to |-> next[n][1], sign |-> sign[n]]

(* GET_SIGN(node) = FULLY_LINK(node): a load and a store, without the lock *)
(* of the node.                                                            *)
Sign(t) ==
    /\ At(t, "sign") /\ Goto(t, "store")
    /\ word' = [word EXCEPT ![t] = Word(node[t])]
    /\ UNCHANGED <<nodes, locks, alive, fault, ebr, path, op, k, h, node, ret>>

Store(t) ==
    /\ At(t, "store")
    /\ IF Word(node[t]) # word[t] THEN Fail("overwritten")
       ELSE /\ sign' = [sign EXCEPT ![node[t]] = @ \cup {"FULL"}]
            /\ Unlock(Taken(t)) /\ Leave(t)
            /\ UNCHANGED <<next, key, height, free, alive, fault>>

(* Unlinking a node, from the lowest level up.                             *)
Unlink(t) ==
    /\ At(t, "unlink")
    /\ LET i == lev[t]
           p == preds[t][i]
       IN /\ next' = [next EXCEPT ![p][i] = next[node[t]][i]]
          /\ sign' = IF i = 1 THEN [sign EXCEPT ![p] = {"FULL"}] ELSE sign
    /\ IF lev[t] < h[t] THEN lev' = [lev EXCEPT ![t] = @ + 1] /\ UNCHANGED <<pc, locks, preds, succs, found>>
       ELSE Goto(t, "put") /\ Forget(t) /\ Unlock(Taken(t) \cup {node[t]})
    /\ UNCHANGED <<key, height, free, alive, fault, ebr, call>>

Put(t) ==
    /\ At(t, "put") /\ Ebr!Retire(node[t]) /\ Goto(t, "exit")
    /\ UNCHANGED <<nodes, locks, alive, fault, path, call>>

Exit(t) ==
    /\ At(t, "exit") /\ Leave(t)
    /\ UNCHANGED <<nodes, locks, alive, fault>>

-----------------------------------------------------------------------------
(* The nodes of a level, from the head.                                    *)
RECURSIVE From(_, _)
From(n, i) == IF n = NULL THEN {} ELSE {n} \cup From(next[n][i], i)
Listed(i)  == From(head, i)

(* The keys in the set.                                                    *)
Contents == {key[n] : n \in {m \in Listed(1) \cap Nodes : "MARK" \notin sign[m]}}

(* free_node, called by the collector; what a freed node holds is junk.    *)
Scrubbed(S) == /\ free' = free \cup S
               /\ next' = [n \in AllNode |-> IF n \in S THEN Nowhere ELSE next[n]]
               /\ sign' = [n \in AllNode |-> IF n \in S THEN {} ELSE sign[n]]
               /\ key' = [n \in AllNode |-> IF n \in S THEN 0 ELSE key[n]]
               /\ height' = [n \in AllNode |-> IF n \in S THEN 0 ELSE height[n]]
               /\ surplus' = [n \in AllNode |-> IF n \in S THEN 0 ELSE surplus[n]]

Collect(n) ==
    /\ fault = "none" /\ Ebr!Collect(n) /\ Scrubbed({n})
    /\ UNCHANGED <<queue, alive, fault, pc, path, call>>

(* sl_destroy frees the lowest level, and what is left in limbo.           *)
Destroy ==
    /\ alive /\ alive' = FALSE /\ fault = "none" /\ \A t \in Threads : pc[t] = "idle"
    /\ Scrubbed((Listed(1) \cap Nodes) \cup Ebr!Retired) /\ waits' = <<>>
    /\ UNCHANGED <<queue, fault, inside, pc, path, call>>

Step(t) == \/ CallLookup(t)
           \/ Find(t) \/ FoundInsert(t) \/ Spin(t) \/ FoundLookup(t) \/ FoundRemove(t)
           \/ Own(t) \/ AwaitOwn(t) \/ Mark(t) \/ LockPred(t) \/ Await(t) \/ Check(t)
           \/ Link(t) \/ LinkUp(t) \/ Sign(t) \/ Store(t)
           \/ Unlink(t) \/ Put(t) \/ Exit(t)

Next == \/ \E t \in Threads : CallInsert(t) \/ CallRemove(t)
        \/ \E t \in Threads : Step(t) /\ UNCHANGED updates
        \/ \E n \in Nodes : Collect(n) /\ UNCHANGED updates
        \/ Destroy /\ UNCHANGED updates

Spec == Init /\ [][Next]_vars
-----------------------------------------------------------------------------
(* Each sl_insert and sl_remove that returns 0 changed the set, once, when *)
(* it linked the lowest level or marked the node, and nothing else did;    *)
(* sl_destroy ends the set.                                                *)
Outcome == [t \in Threads |->
               CASE ret[t] = "yes" /\ op[t] # "lookup" -> "changed"
                 [] ret[t] = "no" \/ (ret[t] = "yes" /\ op[t] = "lookup") -> "failed"
                 [] OTHER -> "none"]

Set == INSTANCE LinearSet WITH keys <- Contents, outcome <- Outcome
ImplementsSet == Set!Init /\ [][Set!Next \/ ~alive']_<<Contents, Outcome>>

(* No update ever follows a pointer out of a freed or half-made node, in   *)
(* spite of the towers that are linked and unlinked level by level, and    *)
(* the updates never wait for each other in a circle: when all calls wait, *)
(* one of them waits for a lock whose turn was given away by the second    *)
(* unlock of a removal that started over.                                  *)
Missed(t) == \/ pc[t] = "await" /\ t \notin ToSet(queue[preds[t][lev[t]]])
             \/ pc[t] = "await_own" /\ t \notin ToSet(queue[node[t]])
Waiting(t) == \/ pc[t] = "await" /\ ~ Turn(t, preds[t][lev[t]])
              \/ pc[t] = "await_own" /\ ~ Turn(t, node[t])
              \/ pc[t] = "spin" /\ "FULL" \notin sign[node[t]]
Busy == {t \in Threads : pc[t] # "idle"}

OnlyKnownHarm ==
    /\ TypeOK
    /\ fault # "wild update"
    /\ fault = "none" /\ Busy # {} /\ (\A t \in Busy : Waiting(t)) => \E t \in Busy : Missed(t)
=============================================================================
