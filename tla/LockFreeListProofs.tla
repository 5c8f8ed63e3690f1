------------------------- MODULE LockFreeListProofs -------------------------
(***************************************************************************)
(* For any number of threads, nodes and keys, and whatever a freed node    *)
(* holds: the list stays sorted, loses no node and implements a set, no    *)
(* call touches a node that was freed and every answer was right at some   *)
(* moment of the call, but for the lookups that lost their first node      *)
(* before ebr_enter.  These are in the model, and write nothing.           *)
(***************************************************************************)
EXTENDS LockFreeList, ChainTheorems

Points == {"idle", "head", "curr", "unlink", "put", "alloc", "insert", "load", "mark",
           "snip", "retire", "enter", "walk", "exit"}

(* The nodes that a thread may come to. *)
Known == Listed \cup Unlinked \cup Ebr!Retired

(* A step of another thread leaves u where it is. *)
Same(u) == /\ pc'[u] = pc[u] /\ op'[u] = op[u] /\ k'[u] = k[u] /\ pred'[u] = pred[u]
           /\ curr'[u] = curr[u] /\ word'[u] = word[u] /\ node'[u] = node[u]
           /\ ret'[u] = ret[u] /\ seen[u] \subseteq seen'[u]
           /\ pc[u] = "idle" => seen'[u] = seen[u]
           /\ u \in late => u \in late'

OnlyMoves(t) == \A u \in Threads \ {t} : Same(u)

(* What it may do to the grace periods is drop its own claims. *)
EbrOnly(t) ==
    /\ inside' \subseteq Threads /\ inside \ {t} \subseteq inside'
    /\ waits' \in [Ebr!Retired -> SUBSET Threads] /\ Ebr!Retired' = Ebr!Retired
    /\ \A n \in Ebr!Retired : waits[n] \ {t} \subseteq waits'[n]

(* What u relies on outlives a step. *)
Steady(u) ==
    \A n \in AllNode :
        /\ Safe(u, n) => /\ Safe(u, n)' /\ key'[n] = key[n]
                         /\ next[n].mark => next'[n] = next[n]
        /\ Walkable(u, n) => Walkable(u, n)'

LEMMA EbrEnter ==
    ASSUME TypeOK, NEW t \in Threads, Ebr!Enter(t)
    PROVE  EbrOnly(t) /\ t \in inside'
BY DEF TypeOK, Ebr!Enter, Ebr!Retired, EbrOnly

LEMMA EbrExit ==
    ASSUME TypeOK, NEW t \in Threads, Ebr!Exit(t)
    PROVE  EbrOnly(t)
BY DEF TypeOK, Ebr!Exit, Ebr!Retired, EbrOnly

LEMMA EbrSame ==
    ASSUME TypeOK, NEW t \in Threads, UNCHANGED ebr
    PROVE  EbrOnly(t) /\ inside' = inside
BY DEF TypeOK, ebr, Ebr!Retired, EbrOnly

LEMMA Names ==
    /\ HeadNode \in AllNode /\ TailNode \in AllNode /\ NULL \notin AllNode
    /\ HeadNode \notin Nodes /\ TailNode \notin Nodes /\ NULL \notin Nodes
    /\ HeadNode # TailNode /\ IsFiniteSet(AllNode) /\ MaxKey \in Nat
    /\ AllNode \subseteq Pointer
<1>1. IsFiniteSet({HeadNode, TailNode})
  <2>1. IsFiniteSet({HeadNode}) /\ {HeadNode, TailNode} = {HeadNode} \cup {TailNode}
    BY FS_Singleton
  <2> QED
    BY <2>1, FS_AddElement
<1>2. IsFiniteSet(Nodes \cup {HeadNode, TailNode})
  BY <1>1, ListAssumption, FS_Union
<1> QED
  BY <1>2, ListAssumption DEF AllNode, Pointer

(* The operators of the model are chains. *)
LEMMA FromChain ==
    /\ \A n : From(n) = Chain(AllNode, Link, n)
    /\ \A n : From(n)' = Chain(AllNode, Link', n)
BY Names, VisitedChain DEF From

LEMMA LinkType ==
    ASSUME TypeOK
    PROVE  /\ \A n \in AllNode : Link[n] = next[n].to /\ next[n] \in Words
           /\ \A n \in AllNode : key[n] \in Nat
BY DEF TypeOK, Link

LEMMA LinkNext ==
    \A n \in AllNode : Link'[n] = next'[n].to
BY DEF Link

LEMMA FromFacts ==
    ASSUME TypeOK
    PROVE  \A n : /\ From(n) \subseteq AllNode
                  /\ n \in AllNode => n \in From(n)
                  /\ \A m \in From(n) :
                        /\ next[m].to \in AllNode => next[m].to \in From(n)
                        /\ From(m) \subseteq From(n)
                        /\ From(next[m].to) \subseteq From(n)
<1> SUFFICES ASSUME NEW n
             PROVE  /\ From(n) \subseteq AllNode
                    /\ n \in AllNode => n \in From(n)
                    /\ \A m \in From(n) :
                          /\ next[m].to \in AllNode => next[m].to \in From(n)
                          /\ From(m) \subseteq From(n)
                          /\ From(next[m].to) \subseteq From(n)
  OBVIOUS
<1>1. From(n) \subseteq AllNode /\ Closed(AllNode, From(n), Link, n)
  BY FromChain, ChainClosed
<1>2. ASSUME NEW m \in From(n)
      PROVE  From(m) \subseteq From(n) /\ From(Link[m]) \subseteq From(n)
  BY <1>2, FromChain, ChainSuffix
<1> QED
  BY <1>1, <1>2, LinkType DEF Closed

(* The chain of the list, while there is one. *)
LEMMA ListFacts ==
    ASSUME TypeOK, Ends, Rising, alive
    PROVE  /\ Ascends(AllNode, Link, key, HeadNode)
           /\ Acyclic(AllNode, Link, HeadNode)
           /\ HeadNode \in Listed /\ Listed \subseteq AllNode
           /\ \A n \in Listed : n # TailNode => /\ next[n].to \in Listed
                                               /\ key[n] < key[next[n].to]
<1>1. HeadNode \in Listed /\ Listed \subseteq AllNode
  BY Names, FromFacts DEF Listed
<1>2. \A n \in Listed : n # TailNode => /\ next[n].to \in Listed
                                       /\ key[n] < key[next[n].to]
  BY FromFacts DEF Listed, Rising
<1>3. Ascends(AllNode, Link, key, HeadNode)
  <2>1. Link[TailNode] = NULL
    BY Names, LinkType DEF Ends, Plain
  <2>2. \A n \in Listed : key[n] \in Nat /\ (Link[n] \in AllNode => key[n] < key[Link[n]])
    BY <1>1, <1>2, <2>1, Names, LinkType
  <2> QED
    BY <2>2, FromChain DEF Ascends, Listed
<1> QED
  BY <1>1, <1>2, <1>3, AscendsAcyclic

LEMMA SafeKnown ==
    ASSUME IInv, NEW u \in Threads, NEW n, Safe(u, n)
    PROVE  n \in Known /\ n \in AllNode /\ n \notin free /\ n \notin Private
<1>1. n \in Known
  BY DEF Safe, Known
<1>2. Known \subseteq AllNode
  BY FromFacts DEF IInv, TypeOK, Conservation, Known, AllNode, Listed
<1> QED
  BY <1>1, <1>2, Names DEF IInv, Conservation, Known, TypeOK, AllNode, Private

(* A node that is safe and not marked is on the list. *)
LEMMA SafeListed ==
    ASSUME IInv, NEW u \in Threads, NEW n, Safe(u, n), ~ next[n].mark
    PROVE  n \in Listed
BY DEF IInv, Dead, Safe

-----------------------------------------------------------------------------
(* What a thread relies on, when the others move. *)
LEMMA LocalsKept ==
    ASSUME IInv, NEW u \in Threads, Same(u), Firm(u) => Steady(u),
           alive' = alive, u \in inside => u \in inside',
           pc[u] # "idle" => (k[u] \in Contents') \in seen'[u],
           node[u] \in Nodes => /\ next'[node[u]] = next[node[u]]
                                /\ key'[node[u]] = key[node[u]]
    PROVE  LocalsOf(u)' /\ AnswerOf(u)'
<1>0. /\ LocalsOf(u) /\ AnswerOf(u) /\ TypeOK
      /\ pc'[u] = pc[u] /\ op'[u] = op[u] /\ k'[u] = k[u] /\ pred'[u] = pred[u]
      /\ curr'[u] = curr[u] /\ word'[u] = word[u] /\ node'[u] = node[u]
      /\ ret'[u] = ret[u] /\ seen[u] \subseteq seen'[u]
      /\ u \in late => u \in late'
  BY DEF IInv, Locals, Same
<1>1. IF pc'[u] = "insert"
        THEN node'[u] \in Nodes /\ next'[node'[u]] = Plain(curr'[u]) /\ key'[node'[u]] = k'[u]
        ELSE node'[u] = NULL
  BY <1>0 DEF LocalsOf
<1>2. /\ ret'[u] \in CASE pc'[u] = "exit" -> {"yes", "no"}
                       [] pc'[u] \in {"snip", "retire"} -> {"yes"}
                       [] OTHER -> {"none"}
      /\ CASE pc'[u] \in {"enter", "walk"} -> op'[u] = "lookup"
           [] pc'[u] \in {"alloc", "insert"} -> op'[u] = "insert"
           [] pc'[u] \in {"load", "mark", "snip", "retire"} -> op'[u] = "remove"
           [] pc'[u] \in {"head", "curr", "unlink", "put"} -> op'[u] # "lookup"
           [] OTHER -> TRUE
  BY <1>0 DEF LocalsOf
<1>9. pc'[u] = "idle" => seen'[u] = {}
  BY <1>0 DEF LocalsOf, Same
<1>3. /\ pc'[u] # "idle" => alive' /\ k'[u] \in Keys /\ (k'[u] \in Contents') \in seen'[u]
      /\ pc'[u] \notin {"idle", "enter"} => u \in inside'
  BY <1>0 DEF LocalsOf, Firm
<1>4. ASSUME pc[u] \in Walking, Firm(u)
      PROVE  /\ Walkable(u, curr[u]) /\ curr[u] \in AllNode /\ Safe(u, curr[u])
             /\ Walkable(u, curr[u])' /\ key'[curr[u]] = key[curr[u]]
             /\ next[curr[u]].mark => next'[curr[u]] = next[curr[u]]
  <2>1. Walkable(u, curr[u]) /\ curr[u] \in AllNode
    BY <1>0, <1>4 DEF LocalsOf, Walkable
  <2>2. Safe(u, curr[u])
    BY <1>0, <2>1, FromFacts DEF Walkable
  <2> QED
    BY <1>0, <1>4, <2>1, <2>2 DEF Steady, Walking
<1>5. pc'[u] \in Walking /\ Firm(u)' => /\ Walkable(u, curr[u])'
                                        /\ key'[curr'[u]] > k'[u] => FALSE \in seen'[u]
  BY <1>0, <1>4 DEF LocalsOf, Firm
<1>6. pc'[u] \in Walking \ {"walk"} =>
          pred'[u] \in AllNode /\ Safe(u, pred[u])' /\ key'[pred'[u]] < k'[u]
  BY <1>0 DEF LocalsOf, Steady, Walking, Firm
<1>7. /\ pc'[u] \in {"unlink", "put"} => word'[u] = next'[curr'[u]] /\ word'[u].mark
      /\ pc'[u] = "snip" => next'[curr'[u]] = Marked(word'[u])
  <2>1. pc[u] = "snip" => Marked(word[u]).mark
    BY <1>0 DEF Marked, TypeOK, Words
  <2> QED
    BY <1>0, <1>4, <2>1 DEF LocalsOf, Walking, Firm
<1>8. /\ pc'[u] \in {"alloc", "insert"} => key'[curr'[u]] > k'[u]
      /\ pc'[u] \in {"load", "mark", "snip"} => key'[curr'[u]] = k'[u]
  BY <1>0, <1>4 DEF LocalsOf, Walking, Firm
<1>10. AnswerOf(u)'
  BY <1>0 DEF AnswerOf
<1>11. LocalsOf(u)'
  BY <1>1, <1>2, <1>3, <1>5, <1>6, <1>7, <1>8, <1>9 DEF LocalsOf
<1> QED
  BY <1>10, <1>11

(* The list may lose the node of a lookup in its gap, which is late then.  *)
LEMMA GapsKept ==
    ASSUME IInv, NEW t \in Threads, OnlyMoves(t), key' = key \/ \A n \in Listed : key'[n] = key[n],
           \A u \in Threads \ {t} :
               pc[u] = "enter" /\ u \notin late' /\ curr[u] \in Listed => curr[u] \in Listed',
           pc'[t] = "enter" => /\ curr'[t] \in Listed'
                               /\ key'[curr'[t]] > k'[t] => FALSE \in seen'[t]
    PROVE  Gaps'
<1> SUFFICES ASSUME NEW u \in Threads, pc'[u] = "enter", u \notin late'
             PROVE  curr'[u] \in Listed' /\ (key'[curr'[u]] > k'[u] => FALSE \in seen'[u])
  BY DEF Gaps
<1>1. CASE u = t
  BY <1>1
<1>2. CASE u # t
  <2>1. /\ pc[u] = "enter" /\ curr'[u] = curr[u] /\ k'[u] = k[u] /\ u \notin late
        /\ seen[u] \subseteq seen'[u]
    BY <1>2 DEF OnlyMoves, Same
  <2>2. curr[u] \in Listed /\ (key[curr[u]] > k[u] => FALSE \in seen[u])
    BY <2>1 DEF IInv, Gaps
  <2>3. key'[curr[u]] = key[curr[u]]
    BY <2>2
  <2>4. curr[u] \in Listed'
    BY <1>2, <2>1, <2>2
  <2> QED
    BY <2>1, <2>2, <2>3, <2>4
<1> QED
  BY <1>1, <1>2

(* A step of t keeps the invariant if it keeps the list, what the others   *)
(* rely on, and what t itself relies on.                                   *)
LEMMA Assemble ==
    ASSUME IInv, NEW t \in Threads, OnlyMoves(t),
           alive' = alive, inside \ {t} \subseteq inside',
           Contents' = Contents \/ Observe,
           \A u \in Threads \ {t} :
               /\ Firm(u) => Steady(u)
               /\ node[u] \in Nodes => /\ next'[node[u]] = next[node[u]]
                                       /\ key'[node[u]] = key[node[u]],
           TypeOK', Ends', Rising', Dead', Conservation', LocalsOf(t)', AnswerOf(t)',
           Gaps'
    PROVE  IInv'
<1>1. ASSUME NEW u \in Threads \ {t}, pc[u] # "idle"
      PROVE  (k[u] \in Contents') \in seen'[u]
  <2>1. CASE Contents' = Contents
    <3>1. (k[u] \in Contents) \in seen[u] /\ seen[u] \subseteq seen'[u]
      BY <1>1 DEF IInv, Locals, LocalsOf, OnlyMoves, Same
    <3> QED
      BY <2>1, <3>1
  <2>2. CASE Observe
    <3>1. seen'[u] = seen[u] \cup {k[u] \in Contents'}
      BY <1>1, <2>2 DEF Observe
    <3> QED
      BY <3>1
  <2> QED
    BY <2>1, <2>2
<1>2. ASSUME NEW u \in Threads \ {t} PROVE LocalsOf(u)' /\ AnswerOf(u)'
  BY <1>1, LocalsKept DEF OnlyMoves
<1>3. Locals'
  BY <1>2 DEF Locals
<1> QED
  BY <1>3 DEF IInv

-----------------------------------------------------------------------------
(* A step that leaves the words of the nodes alone. *)
LEMMA MemorySame ==
    ASSUME next' = next, key' = key
    PROVE  /\ \A n : From(n)' = From(n)
           /\ Listed' = Listed /\ Contents' = Contents
           /\ \A n, x : Lacks(n, x)' = Lacks(n, x)
<1>1. Link' = Link
  BY DEF Link
<1>2. \A n : From(n)' = From(n)
  BY <1>1 DEF From
<1>3. Listed' = Listed
  BY <1>2 DEF Listed
<1> QED
  BY <1>2, <1>3 DEF Contents, Lacks

(* A listed node that shows a key missing is right. *)
LEMMA LacksListed ==
    ASSUME TypeOK, Ends, Rising, alive, NEW n \in Listed, NEW x, Lacks(n, x)
    PROVE  x \notin Contents
<1> SUFFICES ASSUME NEW m \in Listed \cap Nodes, ~ next[m].mark, key[m] = x
             PROVE  FALSE
  BY DEF Contents
<1>1. Ascends(AllNode, Link, key, HeadNode) /\ Listed \subseteq AllNode
  BY ListFacts
<1>2. /\ key[m] = key[n] => m = n
      /\ key[n] < key[m] => key[Link[n]] <= key[m]
  BY <1>1, FromChain, AscendsOnce DEF Listed
<1>3. Link[n] = next[n].to /\ key[n] \in Nat /\ key[m] \in Nat
  BY <1>1, LinkType
<1>4. next[n].to \in AllNode => key[next[n].to] \in Nat
  BY LinkType
<1> QED
  BY <1>2, <1>3, <1>4 DEF Lacks

(* What a search may rely on when it starts. *)
LEMMA HeadWalk ==
    ASSUME TypeOK, Ends, Rising, alive, NEW u \in Threads,
           k[u] \in Keys, (k[u] \in Contents) \in seen[u]
    PROVE  /\ Walkable(u, HeadNode) /\ Walkable(u, next[HeadNode].to)
           /\ Safe(u, HeadNode) /\ key[HeadNode] < k[u]
           /\ key[next[HeadNode].to] > k[u] => FALSE \in seen[u]
<1>1. /\ HeadNode \in Listed /\ Listed \subseteq AllNode
      /\ next[HeadNode].to \in Listed
  BY ListFacts, Names
<1>2. ASSUME NEW m \in Listed
      PROVE  Safe(u, m) /\ (Lacks(m, k[u]) => FALSE \in seen[u])
  <2>1. ASSUME Lacks(m, k[u]) PROVE (k[u] \in Contents) = FALSE
    BY <2>1, LacksListed
  <2> QED
    BY <2>1 DEF Safe
<1>3. From(next[HeadNode].to) \subseteq Listed
  BY <1>1, FromFacts DEF Listed
<1>4. key[HeadNode] < k[u]
  BY DEF Ends, Keys
<1>5. key[next[HeadNode].to] > k[u] => Lacks(HeadNode, k[u])
  BY <1>1, <1>4, LinkType DEF Lacks, Keys
<1> QED
  BY <1>1, <1>2, <1>3, <1>4, <1>5 DEF Walkable, Listed

LEMMA SteadyFrame ==
    ASSUME IInv, NEW u \in Threads, k'[u] = k[u], seen[u] \subseteq seen'[u],
           \A n \in AllNode :
               Safe(u, n) => Safe(u, n)' /\ next'[n] = next[n] /\ key'[n] = key[n]
    PROVE  Steady(u)
<1>0. TypeOK
  BY DEF IInv
<1>1. ASSUME NEW c \in AllNode, Walkable(u, c)
      PROVE  Walkable(u, c)'
  <2>1. \A m \in From(c) : m \in AllNode /\ Safe(u, m)
    BY <1>0, <1>1, FromFacts DEF Walkable
  <2>2. \A m \in From(c) : Link'[m] = Link[m]
    BY <1>0, <2>1, LinkType, LinkNext
  <2>3. From(c)' = From(c)
    BY <2>2, FromChain, ChainFrame
  <2>4. ASSUME NEW m \in From(c), Lacks(m, k[u])' PROVE Lacks(m, k[u])
    <3>1. next'[m] = next[m] /\ key'[m] = key[m]
      BY <2>1
    <3>2. next[m].to \in AllNode => key'[next[m].to] = key[next[m].to]
      BY <1>0, <2>1, FromFacts
    <3> QED
      BY <2>4, <3>1, <3>2 DEF Lacks
  <2> QED
    BY <1>1, <2>1, <2>3, <2>4 DEF Walkable
<1> QED
  BY <1>1 DEF Steady

(* No node comes into the hands of t, and none leaves them. *)
LEMMA HandsSame ==
    ASSUME NEW t \in Threads, OnlyMoves(t), pc[t] \notin {"put", "retire"},
           pc'[t] \notin {"put", "retire"}
    PROVE  /\ Snipped' = Snipped /\ Unlinked' = Unlinked
           /\ \A u \in Snipped : curr'[u] = curr[u]
<1>1. \A u \in Threads \ {t} : curr'[u] = curr[u] /\ pc'[u] = pc[u]
  BY DEF OnlyMoves, Same
<1>2. \A u \in Threads : pc'[u] \in {"put", "retire"} <=> pc[u] \in {"put", "retire"}
  BY <1>1
<1>3. Snipped' = Snipped
  BY <1>2 DEF Snipped
<1>4. \A u \in Snipped : curr'[u] = curr[u]
  BY <1>1 DEF Snipped
<1> QED
  BY <1>3, <1>4 DEF Unlinked

LEMMA PrivateSame ==
    ASSUME NEW t \in Threads, OnlyMoves(t), node'[t] = node[t]
    PROVE  /\ Private' = Private
           /\ \A u \in Threads : node'[u] = node[u]
<1>1. \A u \in Threads : node'[u] = node[u]
  BY DEF OnlyMoves, Same
<1> QED
  BY <1>1 DEF Private

(* A step of t that only moves t. *)
LEMMA QuietStep ==
    ASSUME IInv, NEW t \in Threads, OnlyMoves(t), EbrOnly(t),
           next' = next, key' = key, free' = free, alive' = alive,
           node'[t] = node[t],
           pc[t] \notin {"put", "retire"}, pc'[t] \notin {"put", "retire"},
           TypeOK', LocalsOf(t)', AnswerOf(t)',
           pc'[t] = "enter" => /\ curr'[t] \in Listed'
                               /\ key'[curr'[t]] > k'[t] => FALSE \in seen'[t]
    PROVE  IInv'
<1>1. /\ Listed' = Listed /\ Contents' = Contents /\ Unlinked' = Unlinked
      /\ Snipped' = Snipped /\ Private' = Private /\ Ebr!Retired' = Ebr!Retired
  BY MemorySame, HandsSame, PrivateSame DEF EbrOnly
<1>2. ASSUME NEW u \in Threads \ {t} PROVE Steady(u)
  <2>1. ASSUME NEW n \in AllNode, Safe(u, n) PROVE Safe(u, n)'
    BY <1>1, <2>1 DEF Safe, EbrOnly
  <2> QED
    BY <2>1, SteadyFrame DEF OnlyMoves, Same
<1>3. Ends' /\ Rising' /\ Dead'
  BY <1>1 DEF IInv, Ends, Rising, Dead
<1>4. Conservation'
  BY <1>1, HandsSame, PrivateSame DEF IInv, Conservation
<1>5. Gaps'
  BY <1>1, GapsKept
<1> QED
  BY <1>1, <1>2, <1>3, <1>4, <1>5, Assemble DEF OnlyMoves, Same, EbrOnly

-----------------------------------------------------------------------------
(* The quiet steps. *)
LEMMA SelfSteady ==
    ASSUME IInv, NEW t \in Threads, OnlyMoves(t), UNCHANGED ebr,
           next' = next, key' = key, k'[t] = k[t], seen[t] \subseteq seen'[t],
           pc[t] \notin {"put", "retire"}, pc'[t] \notin {"put", "retire"}
    PROVE  /\ Steady(t)
           /\ \A n : Safe(t, n)' = Safe(t, n)
<1>1. \A n : Safe(t, n)' = Safe(t, n)
  BY MemorySame, HandsSame DEF Safe, ebr, Ebr!Retired
<1> QED
  BY <1>1, SteadyFrame

(* The call has its answer. *)
LEMMA FinishLocals ==
    ASSUME IInv, NEW t \in Threads, NEW r \in {"yes", "no"}, Finish(t, r),
           pc[t] \notin {"idle", "enter"}, k' = k, alive' = alive, inside' = inside,
           (k[t] \in Contents') \in seen'[t]
    PROVE  LocalsOf(t)'
<1>1. pc'[t] = "exit" /\ ret'[t] = r /\ node'[t] = NULL
  BY DEF IInv, TypeOK, Finish, Goto
<1>2. alive /\ t \in inside /\ k[t] \in Keys
  BY DEF IInv, Locals, LocalsOf
<1> QED
  BY <1>1, <1>2 DEF LocalsOf, Walking, Firm

LEMMA FinishType ==
    ASSUME TypeOK, NEW t \in Threads, NEW r \in {"yes", "no"}, Finish(t, r)
    PROVE  /\ pc' \in [Threads -> Points] /\ pred' \in [Threads -> Pointer]
           /\ curr' \in [Threads -> Pointer] /\ node' \in [Threads -> Pointer]
           /\ word' \in [Threads -> Words] /\ ret' \in [Threads -> {"none", "yes", "no"}]
           /\ pc'[t] = "exit" /\ ret'[t] = r /\ node'[t] = NULL
           /\ \A u \in Threads \ {t} :
                 /\ pc'[u] = pc[u] /\ pred'[u] = pred[u] /\ curr'[u] = curr[u]
                 /\ word'[u] = word[u] /\ node'[u] = node[u] /\ ret'[u] = ret[u]
BY DEF TypeOK, Finish, Goto, Points, Pointer, Words, Plain

LEMMA UpdateStep ==
    ASSUME IInv, NEW t \in Threads, Update(t)
    PROVE  IInv'
<1>0. /\ TypeOK /\ LocalsOf(t) /\ EbrOnly(t) /\ t \in inside'
  BY EbrEnter DEF IInv, Locals, Update, Protect
<1>1. PICK o \in {"insert", "remove"} : Call(t, o)
  BY DEF Update
<1>2. PICK x \in Keys : /\ k' = [k EXCEPT ![t] = x]
                        /\ seen' = [seen EXCEPT ![t] = {(x \in Contents)}]
  BY <1>1 DEF Call
<1>3. /\ pc[t] = "idle" /\ alive /\ pc'[t] = "head" /\ op'[t] = o /\ k'[t] = x
      /\ next' = next /\ key' = key /\ free' = free /\ alive' = alive /\ ret' = ret
      /\ late' = late
      /\ pred' = pred /\ curr' = curr /\ word' = word /\ node' = node
      /\ seen'[t] = {(x \in Contents)}
  BY <1>0, <1>1, <1>2 DEF Update, Call, Goto, TypeOK, memory, local
<1>4. OnlyMoves(t)
  BY <1>0, <1>1, <1>2, <1>3 DEF OnlyMoves, Same, Update, Call, Goto, TypeOK
<1>5. Contents' = Contents
  BY <1>3, MemorySame
<1>6. (k'[t] \in Contents') \in seen'[t]
  BY <1>3, <1>5
<1>7. LocalsOf(t)'
  BY <1>0, <1>3, <1>6 DEF LocalsOf, Walking, Firm
<1>8. AnswerOf(t)'
  BY <1>3 DEF AnswerOf
<1>9. TypeOK'
  <2>1. k' \in [Threads -> 0 .. MaxKey] /\ seen' \in [Threads -> SUBSET BOOLEAN]
    BY <1>0, <1>2, Names DEF TypeOK, Keys
  <2>2. pc' \in [Threads -> Points] /\ op' \in [Threads -> {"insert", "lookup", "remove"}]
    BY <1>0, <1>1 DEF TypeOK, Update, Call, Goto, Points
  <2> QED
    BY <1>0, <1>3, <2>1, <2>2 DEF TypeOK, Points, EbrOnly
<1> QED
  BY <1>0, <1>3, <1>4, <1>7, <1>8, <1>9, QuietStep

LEMMA LookupStep ==
    ASSUME IInv, NEW t \in Threads, Lookup(t)
    PROVE  IInv'
<1>0. /\ TypeOK /\ LocalsOf(t) /\ EbrOnly(t) /\ Ends /\ Rising
  BY EbrSame DEF IInv, Locals, Lookup, ebr
<1>2. PICK x \in Keys : /\ k' = [k EXCEPT ![t] = x]
                        /\ seen' = [seen EXCEPT ![t] = {(x \in Contents)}]
  BY DEF Lookup, Call
<1>3. /\ pc[t] = "idle" /\ alive /\ pc'[t] = "enter" /\ op'[t] = "lookup" /\ k'[t] = x
      /\ next' = next /\ key' = key /\ free' = free /\ alive' = alive /\ ret' = ret
      /\ late' = late
      /\ pred' = pred /\ word' = word /\ node' = node
      /\ curr' = [curr EXCEPT ![t] = next[HeadNode].to]
      /\ curr'[t] = next[HeadNode].to
      /\ seen'[t] = {(x \in Contents)}
  BY <1>0, <1>2 DEF Lookup, Call, Goto, TypeOK, memory
<1>4. OnlyMoves(t)
  BY <1>0, <1>2, <1>3 DEF OnlyMoves, Same, Lookup, Call, Goto, TypeOK
<1>5. /\ Contents' = Contents /\ Listed' = Listed /\ \A n : From(n)' = From(n)
      /\ \A n, y : Lacks(n, y)' = Lacks(n, y)
  BY <1>3, MemorySame
<1>6. (k'[t] \in Contents') \in seen'[t]
  BY <1>3, <1>5
<1>7. ASSUME NEW m \in Listed, Lacks(m, x) PROVE FALSE \in seen'[t]
  <2>1. (x \in Contents) = FALSE
    BY <1>0, <1>3, <1>7, LacksListed
  <2> QED
    BY <1>3, <2>1
<1>8. /\ HeadNode \in Listed /\ next[HeadNode].to \in Listed
      /\ From(next[HeadNode].to) \subseteq Listed /\ next[HeadNode].to \in AllNode
  <2>1. HeadNode \in Listed /\ next[HeadNode].to \in Listed /\ Listed \subseteq AllNode
    BY <1>0, <1>3, ListFacts, Names
  <2> QED
    BY <1>0, <2>1, FromFacts DEF Listed
<1>9. curr'[t] \in Listed'
  BY <1>3, <1>5, <1>8
<1>10. key'[curr'[t]] > k'[t] => FALSE \in seen'[t]
  <2>1. key[HeadNode] < x
    BY <1>0 DEF Ends, Keys
  <2>2. key[next[HeadNode].to] > x => Lacks(HeadNode, x)
    BY <1>0, <1>8, <2>1, LinkType DEF Lacks, Keys
  <2> QED
    BY <1>3, <1>7, <1>8, <2>2
<1>11. LocalsOf(t)'
  BY <1>0, <1>3, <1>6 DEF LocalsOf, Walking, Firm
<1>12. AnswerOf(t)'
  BY <1>3 DEF AnswerOf
<1>13. TypeOK'
  <2>1. k' \in [Threads -> 0 .. MaxKey] /\ seen' \in [Threads -> SUBSET BOOLEAN]
    BY <1>0, <1>2, Names DEF TypeOK, Keys
  <2>2. pc' \in [Threads -> Points] /\ op' \in [Threads -> {"insert", "lookup", "remove"}]
    BY <1>0 DEF TypeOK, Lookup, Call, Goto, Points
  <2>3. curr' \in [Threads -> Pointer]
    BY <1>0, <1>3, <1>8, Names DEF TypeOK
  <2> QED
    BY <1>0, <1>3, <2>1, <2>2, <2>3 DEF TypeOK, Points, EbrOnly
<1> QED
  BY <1>0, <1>3, <1>4, <1>9, <1>10, <1>11, <1>12, <1>13, QuietStep

(* A lookup that is not late begins its walk on the list. *)
LEMMA EnterStep ==
    ASSUME IInv, NEW t \in Threads, Enter(t)
    PROVE  IInv'
<1>0. /\ TypeOK /\ LocalsOf(t) /\ EbrOnly(t) /\ t \in inside' /\ Ends /\ Rising
  BY EbrEnter DEF IInv, Locals, Enter
<1>1. /\ pc[t] = "enter" /\ pc'[t] = "walk" /\ alive
      /\ UNCHANGED <<next, key, free, alive, late, op, k, pred, curr, word, node, ret, seen>>
  BY <1>0 DEF Enter, Goto, TypeOK, LocalsOf, memory, local
<1>2. OnlyMoves(t)
  BY <1>0, <1>1 DEF OnlyMoves, Same, Enter, Goto, TypeOK
<1>3. /\ Contents' = Contents /\ Listed' = Listed /\ \A n : From(n)' = From(n)
      /\ \A n, y : Lacks(n, y)' = Lacks(n, y)
  BY <1>1, MemorySame
<1>4. ASSUME t \notin late
      PROVE  /\ Walkable(t, curr[t])'
             /\ key[curr[t]] > k[t] => FALSE \in seen[t]
  <2>1. /\ curr[t] \in Listed /\ From(curr[t]) \subseteq Listed /\ Listed \subseteq AllNode
        /\ key[curr[t]] > k[t] => FALSE \in seen[t]
    BY <1>0, <1>1, <1>4, FromFacts DEF IInv, Gaps, Listed
  <2>2. ASSUME NEW m \in Listed, Lacks(m, k[t]) PROVE FALSE \in seen[t]
    <3>1. (k[t] \in Contents) = FALSE
      BY <1>0, <1>1, <2>2, LacksListed
    <3> QED
      BY <1>0, <1>1, <3>1 DEF LocalsOf
  <2> QED
    BY <1>1, <1>3, <2>1, <2>2 DEF Walkable, Safe
<1>5. LocalsOf(t)' /\ AnswerOf(t)'
  BY <1>0, <1>1, <1>3, <1>4 DEF LocalsOf, Walking, AnswerOf, Firm
<1>6. TypeOK'
  <2>1. pc' \in [Threads -> Points]
    BY <1>0 DEF TypeOK, Enter, Goto, Points
  <2> QED
    BY <1>0, <1>1, <2>1 DEF TypeOK, Points, EbrOnly
<1> QED
  BY <1>0, <1>1, <1>2, <1>5, <1>6, QuietStep

(* What a step sees of the set. *)
LEMMA ObserveAll ==
    ASSUME IInv, Observe
    PROVE  \A u \in Threads : /\ seen[u] \subseteq seen'[u]
                              /\ pc[u] = "idle" => seen'[u] = seen[u]
                              /\ pc[u] # "idle" => (k[u] \in Contents') \in seen'[u]
<1> SUFFICES ASSUME NEW u \in Threads
             PROVE  /\ seen[u] \subseteq seen'[u]
                    /\ pc[u] = "idle" => seen'[u] = seen[u]
                    /\ pc[u] # "idle" => (k[u] \in Contents') \in seen'[u]
  OBVIOUS
<1>1. CASE pc[u] = "idle"
  BY <1>1 DEF Observe, IInv, Locals, LocalsOf
<1>2. CASE pc[u] # "idle"
  <2>1. seen'[u] = seen[u] \cup {(k[u] \in Contents')}
    BY <1>2 DEF Observe
  <2> QED
    BY <1>2, <2>1
<1> QED
  BY <1>1, <1>2

LEMMA ObserveType ==
    ASSUME TypeOK, Observe
    PROVE  seen' \in [Threads -> SUBSET BOOLEAN]
<1>1. ASSUME NEW u \in Threads
      PROVE  (IF pc[u] = "idle" THEN {} ELSE seen[u] \cup {(k[u] \in Contents')})
                 \in SUBSET BOOLEAN
  <2>1. seen[u] \subseteq BOOLEAN
    BY DEF TypeOK
  <2>2. (k[u] \in Contents') \in BOOLEAN
    OBVIOUS
  <2> QED
    BY <2>1, <2>2
<1> QED
  BY <1>1 DEF Observe

LEMMA ExitStep ==
    ASSUME IInv, NEW t \in Threads, Exit(t)
    PROVE  IInv'
<1>0. /\ TypeOK /\ LocalsOf(t) /\ EbrOnly(t)
  BY EbrExit DEF IInv, Locals, Exit
<1>1. /\ pc[t] = "exit" /\ pc'[t] = "idle" /\ ret'[t] = "none" /\ seen'[t] = {}
      /\ UNCHANGED <<next, key, free, alive, pred, curr, word, node>>
  BY <1>0 DEF Exit, Goto, TypeOK, memory, local
<1>2. OnlyMoves(t)
  BY <1>0, <1>1 DEF OnlyMoves, Same, Exit, Goto, TypeOK
<1>3. LocalsOf(t)' /\ AnswerOf(t)'
  BY <1>0, <1>1 DEF LocalsOf, Walking, Firm, AnswerOf
<1>4. TypeOK'
  <2>1. /\ pc' \in [Threads -> Points] /\ op' \in [Threads -> {"insert", "lookup", "remove"}]
        /\ k' \in [Threads -> 0 .. MaxKey] /\ ret' \in [Threads -> {"none", "yes", "no"}]
        /\ seen' \in [Threads -> SUBSET BOOLEAN] /\ late' \subseteq Threads
    BY <1>0, Names DEF TypeOK, Exit, Goto, Points
  <2> QED
    BY <1>0, <1>1, <2>1 DEF TypeOK, Points, EbrOnly
<1> QED
  BY <1>0, <1>1, <1>2, <1>3, <1>4, QuietStep

(* A lookup goes on to the next node, or knows. *)
LEMMA WalkStep ==
    ASSUME IInv, NEW t \in Threads, Walk(t)
    PROVE  IInv'
<1>0. /\ TypeOK /\ LocalsOf(t) /\ UNCHANGED ebr /\ EbrOnly(t) /\ inside' = inside
      /\ Ends
  BY EbrSame DEF IInv, Locals, Walk
<1>1. /\ pc[t] = "walk" /\ op[t] = "lookup" /\ alive /\ k[t] \in Keys
      /\ curr[t] \in AllNode /\ (k[t] \in Contents) \in seen[t]
      /\ UNCHANGED <<next, key, free, alive, late, op, k, seen>>
  BY <1>0 DEF Walk, LocalsOf, TypeOK, Pointer, memory
<1>2. Contents' = Contents
  BY <1>1, MemorySame
<1>5. ASSUME t \notin late
      PROVE  /\ Walkable(t, curr[t]) /\ Safe(t, curr[t]) /\ curr[t] \in From(curr[t])
             /\ key[curr[t]] > k[t] => FALSE \in seen[t]
  BY <1>0, <1>1, <1>5, FromFacts DEF LocalsOf, Walking, Firm, Walkable
<1>3. CASE key[curr[t]] < k[t]
  <2>1. /\ curr' = [curr EXCEPT ![t] = next[curr[t]].to] /\ curr'[t] = next[curr[t]].to
        /\ UNCHANGED <<pc, pred, word, node, ret>>
    BY <1>0, <1>3 DEF Walk, TypeOK
  <2>2. OnlyMoves(t)
    BY <1>0, <1>1, <2>1 DEF OnlyMoves, Same, TypeOK
  <2>3. ASSUME t \notin late
        PROVE  /\ Walkable(t, curr[t])'
               /\ key[next[curr[t]].to] > k[t] => FALSE \in seen[t]
    <3>1. next[curr[t]].to \in AllNode
      <4>1. curr[t] # TailNode
        BY <1>0, <1>1, <1>3, Names DEF Ends, Keys
      <4> QED
        BY <1>0, <1>1, <1>5, <2>3, <4>1, ListFacts DEF IInv, Safe, Dead
    <3>2. Walkable(t, next[curr[t]].to)
      BY <1>0, <1>5, <2>3, <3>1, FromFacts DEF Walkable
    <3>3. key[next[curr[t]].to] > k[t] => FALSE \in seen[t]
      BY <1>1, <1>3, <1>5, <2>3, <3>1 DEF Walkable, Lacks
    <3>4. Walkable(t, curr[t])'
      BY <1>0, <1>1, <2>1, <2>2, <3>1, <3>2, SelfSteady DEF Steady
    <3> QED
      BY <3>3, <3>4
  <2>7. LocalsOf(t)' /\ AnswerOf(t)'
    BY <1>0, <1>1, <1>2, <2>1, <2>3 DEF LocalsOf, Walking, Firm, AnswerOf
  <2>8. TypeOK'
    <3>1. next[curr[t]].to \in Pointer
      BY <1>0, <1>1, LinkType DEF Words
    <3> QED
      BY <1>0, <1>1, <2>1, <3>1 DEF TypeOK, EbrOnly
  <2> QED
    BY <1>0, <1>1, <2>1, <2>2, <2>7, <2>8, QuietStep
<1>4. CASE ~ (key[curr[t]] < k[t])
  <2>1. PICK r \in {"yes", "no"} : Finish(t, r) /\ (r = "yes" <=> Present(t))
    BY <1>4 DEF Walk
  <2>2. /\ pc'[t] = "exit" /\ ret'[t] = r /\ node'[t] = NULL /\ node[t] = NULL
        /\ OnlyMoves(t)
    BY <1>0, <1>1, <2>1, FinishType DEF OnlyMoves, Same, LocalsOf
  <2>3. LocalsOf(t)'
    BY <1>0, <1>1, <1>2, <2>1, FinishLocals
  <2>4. ASSUME r = "yes", t \notin late PROVE AnswerOf(t)'
    <3>1. curr[t] \in Listed /\ ~ next[curr[t]].mark /\ key[curr[t]] = k[t]
      BY <1>5, <2>1, <2>4, SafeListed DEF Present
    <3>2. curr[t] \in Nodes
      BY <1>0, <1>1, <3>1, Names DEF Ends, Keys, AllNode
    <3>3. (k[t] \in Contents) = TRUE
      BY <3>1, <3>2 DEF Contents
    <3> QED
      BY <1>1, <2>2, <2>4, <3>3 DEF AnswerOf
  <2>5. ASSUME r = "no", t \notin late PROVE AnswerOf(t)'
    <3>1. FALSE \in seen[t]
      <4>1. CASE key[curr[t]] = k[t]
        BY <1>1, <1>5, <2>1, <2>5, <4>1 DEF Walkable, Lacks, Present
      <4>2. CASE key[curr[t]] # k[t]
        <5>1. key[curr[t]] \in Nat /\ k[t] \in Nat
          BY <1>0, <1>1, LinkType, Names DEF Keys
        <5>2. key[curr[t]] > k[t]
          BY <1>4, <4>2, <5>1
        <5> QED
          BY <1>5, <2>5, <5>2
      <4> QED
        BY <4>1, <4>2
    <3> QED
      BY <1>1, <2>2, <2>5, <3>1 DEF AnswerOf
  <2>6. TypeOK'
    BY <1>0, <1>1, <2>1, FinishType DEF TypeOK, EbrOnly, Points
  <2>7. ASSUME t \in late PROVE AnswerOf(t)'
    BY <1>1, <2>7 DEF AnswerOf
  <2> QED
    BY <1>0, <1>1, <2>2, <2>3, <2>4, <2>5, <2>6, <2>7, QuietStep
<1> QED
  BY <1>3, <1>4

LEMMA FindHeadStep ==
    ASSUME IInv, NEW t \in Threads, FindHead(t)
    PROVE  IInv'
<1>0. /\ TypeOK /\ LocalsOf(t) /\ UNCHANGED ebr /\ EbrOnly(t) /\ inside' = inside
      /\ Ends /\ Rising
  BY EbrSame DEF IInv, Locals, FindHead
<1>1. /\ pc[t] = "head" /\ pc'[t] = "curr" /\ op[t] # "lookup" /\ alive
      /\ k[t] \in Keys /\ (k[t] \in Contents) \in seen[t] /\ ret[t] = "none"
      /\ UNCHANGED <<next, key, free, alive, late, op, k, word, node, ret, seen>>
      /\ pred'[t] = HeadNode /\ curr'[t] = next[HeadNode].to
  BY <1>0 DEF FindHead, LocalsOf, Goto, TypeOK, memory
<1>2. OnlyMoves(t)
  BY <1>0, <1>1 DEF OnlyMoves, Same, FindHead, Goto, TypeOK
<1>3. /\ Walkable(t, next[HeadNode].to) /\ Safe(t, HeadNode) /\ key[HeadNode] < k[t]
      /\ key[next[HeadNode].to] > k[t] => FALSE \in seen[t]
      /\ next[HeadNode].to \in AllNode
  BY <1>0, <1>1, HeadWalk DEF Walkable
<1>4. /\ Walkable(t, next[HeadNode].to)' /\ Safe(t, HeadNode)'
      /\ Contents' = Contents
  BY <1>0, <1>1, <1>2, <1>3, Names, MemorySame, SelfSteady DEF Steady
<1>5. Walkable(t, curr[t])' /\ Safe(t, pred[t])'
  BY <1>1, <1>4
<1>6. LocalsOf(t)' /\ AnswerOf(t)'
  BY <1>0, <1>1, <1>3, <1>4, <1>5, Names DEF LocalsOf, Walking, Firm, AnswerOf
<1>7. TypeOK'
  <2>1. /\ pc' \in [Threads -> Points] /\ pred' \in [Threads -> Pointer]
        /\ curr' \in [Threads -> Pointer]
    BY <1>0, <1>3, Names DEF TypeOK, FindHead, Goto, Points
  <2> QED
    BY <1>0, <1>1, <2>1 DEF TypeOK, Points, EbrOnly
<1> QED
  BY <1>0, <1>1, <1>2, <1>6, <1>7, QuietStep

(* A search meets a marked node, passes one, or ends. *)
LEMMA FindCurrStep ==
    ASSUME IInv, NEW t \in Threads, FindCurr(t)
    PROVE  IInv'
<1>0. /\ TypeOK /\ LocalsOf(t) /\ UNCHANGED ebr /\ EbrOnly(t) /\ inside' = inside
      /\ Ends
  BY EbrSame DEF IInv, Locals, FindCurr
<1>1. /\ pc[t] = "curr" /\ op[t] \in {"insert", "remove"} /\ alive /\ k[t] \in Keys
      /\ Walkable(t, curr[t]) /\ curr[t] \in AllNode /\ Safe(t, curr[t])
      /\ curr[t] \in From(curr[t])
      /\ key[curr[t]] > k[t] => FALSE \in seen[t]
      /\ pred[t] \in AllNode /\ Safe(t, pred[t]) /\ key[pred[t]] < k[t]
      /\ (k[t] \in Contents) \in seen[t] /\ ret[t] = "none" /\ node[t] = NULL
      /\ UNCHANGED <<next, key, free, alive, late, op, k, seen>>
  BY <1>0, FromFacts DEF FindCurr, LocalsOf, Walking, Firm, Walkable, memory, TypeOK
<1>2. Contents' = Contents
  BY <1>1, MemorySame
<1>3. /\ key[curr[t]] \in Nat /\ k[t] \in Nat /\ k[t] <= MaxKey /\ MaxKey \in Nat
      /\ next[curr[t]] \in Words
  BY <1>0, <1>1, LinkType, Names DEF Keys
<1>4. CASE next[curr[t]].mark
  <2>1. /\ pc'[t] = "unlink" /\ word'[t] = next[curr[t]] /\ OnlyMoves(t)
        /\ UNCHANGED <<pred, curr, node, ret>>
    BY <1>0, <1>1, <1>4 DEF FindCurr, OnlyMoves, Same, Goto, TypeOK
  <2>2. Walkable(t, curr[t])' /\ Safe(t, pred[t])'
    BY <1>0, <1>1, <2>1, SelfSteady DEF Steady
  <2>3. LocalsOf(t)' /\ AnswerOf(t)'
    BY <1>0, <1>1, <1>2, <1>4, <2>1, <2>2 DEF LocalsOf, Walking, Firm, AnswerOf
  <2>4. TypeOK'
    <3>1. pc' \in [Threads -> Points] /\ word' \in [Threads -> Words]
      BY <1>0, <1>3, <1>4 DEF TypeOK, FindCurr, Goto, Points
    <3> QED
      BY <1>0, <1>1, <2>1, <3>1 DEF TypeOK, Points, EbrOnly
  <2> QED
    BY <1>0, <1>1, <2>1, <2>3, <2>4, QuietStep
<1>5. CASE ~ next[curr[t]].mark /\ ~ Arrived(t)
  <2>1. /\ pred'[t] = curr[t] /\ curr'[t] = next[curr[t]].to /\ OnlyMoves(t)
        /\ UNCHANGED <<pc, word, node, ret>> /\ key[curr[t]] < k[t]
        /\ pred' = [pred EXCEPT ![t] = curr[t]]
        /\ curr' = [curr EXCEPT ![t] = next[curr[t]].to]
    BY <1>0, <1>1, <1>3, <1>5 DEF FindCurr, OnlyMoves, Same, Arrived, TypeOK
  <2>2. next[curr[t]].to \in AllNode
    <3>1. curr[t] # TailNode
      BY <1>0, <1>3, <2>1 DEF Ends
    <3> QED
      BY <1>0, <1>1, <3>1, ListFacts DEF IInv, Safe, Dead
  <2>3. Walkable(t, next[curr[t]].to)
    BY <1>0, <1>1, <2>2, FromFacts DEF Walkable
  <2>4. key[next[curr[t]].to] > k[t] => FALSE \in seen[t]
    BY <1>1, <2>1, <2>2 DEF Walkable, Lacks
  <2>5. Walkable(t, curr[t])' /\ Safe(t, pred[t])'
    BY <1>0, <1>1, <2>1, <2>2, <2>3, SelfSteady DEF Steady
  <2>6. LocalsOf(t)' /\ AnswerOf(t)'
    BY <1>0, <1>1, <1>2, <2>1, <2>4, <2>5 DEF LocalsOf, Walking, Firm, AnswerOf
  <2>7. TypeOK'
    BY <1>0, <1>1, <2>1, <2>2, Names DEF TypeOK, EbrOnly
  <2> QED
    BY <1>0, <1>1, <2>1, <2>6, <2>7, QuietStep
<1>6. CASE ~ next[curr[t]].mark /\ Arrived(t) /\ Finish(t, "no")
  <2>1. /\ pc'[t] = "exit" /\ ret'[t] = "no" /\ node'[t] = NULL /\ OnlyMoves(t)
    BY <1>0, <1>1, <1>6, FinishType DEF OnlyMoves, Same
  <2>2. LocalsOf(t)'
    BY <1>0, <1>1, <1>2, <1>6, FinishLocals
  <2>3. op[t] = "insert" <=> Hit(t)
    BY <1>1, <1>6, <2>1 DEF FindCurr, Goto
  <2>4. ASSUME op[t] = "insert" PROVE TRUE \in seen[t]
    <3>1. curr[t] \in Listed /\ key[curr[t]] = k[t]
      BY <1>1, <1>6, <2>3, <2>4, SafeListed DEF Hit
    <3>2. curr[t] \in Nodes
      BY <1>0, <1>1, <3>1, Names DEF Ends, Keys, AllNode
    <3>3. (k[t] \in Contents) = TRUE
      BY <1>6, <3>1, <3>2 DEF Contents
    <3> QED
      BY <1>1, <3>3
  <2>5. ASSUME op[t] = "remove" PROVE FALSE \in seen[t]
    <3>1. key[curr[t]] > k[t]
      BY <1>3, <1>6, <2>3, <2>5 DEF Hit, Arrived
    <3> QED
      BY <1>1, <3>1
  <2>6. AnswerOf(t)'
    BY <1>1, <2>1, <2>4, <2>5 DEF AnswerOf
  <2>7. TypeOK'
    BY <1>0, <1>1, <1>6, FinishType DEF TypeOK, EbrOnly, Points
  <2> QED
    BY <1>0, <1>1, <2>1, <2>2, <2>6, <2>7, QuietStep
<1>7. CASE ~ next[curr[t]].mark /\ Arrived(t) /\ ~ Finish(t, "no")
  <2>1. /\ pc'[t] \in {"alloc", "load"} /\ OnlyMoves(t)
        /\ pc'[t] = "alloc" => op[t] = "insert" /\ ~ Hit(t)
        /\ pc'[t] = "load" => op[t] = "remove" /\ Hit(t)
        /\ UNCHANGED <<pred, curr, word, node, ret>>
    BY <1>0, <1>1, <1>7 DEF FindCurr, OnlyMoves, Same, Goto, TypeOK, local
  <2>2. Walkable(t, curr[t])' /\ Safe(t, pred[t])'
    BY <1>0, <1>1, <2>1, SelfSteady DEF Steady
  <2>3. /\ pc'[t] = "alloc" => key[curr[t]] > k[t]
        /\ pc'[t] = "load" => key[curr[t]] = k[t]
    BY <1>3, <1>7, <2>1 DEF Hit, Arrived
  <2>4. LocalsOf(t)' /\ AnswerOf(t)'
    BY <1>0, <1>1, <1>2, <2>1, <2>2, <2>3 DEF LocalsOf, Walking, Firm, AnswerOf
  <2>5. TypeOK'
    <3>1. pc' \in [Threads -> Points]
      BY <1>0, <1>1, <1>7 DEF TypeOK, FindCurr, Goto, Points
    <3> QED
      BY <1>0, <1>1, <2>1, <3>1 DEF TypeOK, Points, EbrOnly
  <2> QED
    BY <1>0, <1>1, <2>1, <2>4, <2>5, QuietStep
<1> QED
  BY <1>4, <1>5, <1>6, <1>7

LEMMA RemoveLoadStep ==
    ASSUME IInv, NEW t \in Threads, RemoveLoad(t)
    PROVE  IInv'
<1>0. /\ TypeOK /\ LocalsOf(t) /\ UNCHANGED ebr /\ EbrOnly(t) /\ inside' = inside
  BY EbrSame DEF IInv, Locals, RemoveLoad
<1>1. /\ pc[t] = "load" /\ pc'[t] = "mark" /\ OnlyMoves(t)
      /\ Walkable(t, curr[t]) /\ curr[t] \in AllNode /\ next[curr[t]] \in Words
      /\ pred[t] \in AllNode /\ Safe(t, pred[t])
      /\ UNCHANGED <<next, key, free, alive, late, op, k, pred, curr, node, ret, seen>>
  BY <1>0, LinkType
     DEF RemoveLoad, LocalsOf, Walking, Firm, Walkable, OnlyMoves, Same, Goto, TypeOK, memory
<1>2. Walkable(t, curr[t])' /\ Safe(t, pred[t])' /\ Contents' = Contents
  BY <1>0, <1>1, MemorySame, SelfSteady DEF Steady
<1>3. LocalsOf(t)' /\ AnswerOf(t)'
  BY <1>0, <1>1, <1>2 DEF LocalsOf, Walking, Firm, AnswerOf
<1>4. TypeOK'
  <2>1. pc' \in [Threads -> Points] /\ word' \in [Threads -> Words]
    BY <1>0, <1>1 DEF TypeOK, RemoveLoad, Goto, Points
  <2> QED
    BY <1>0, <1>1, <2>1 DEF TypeOK, Points, EbrOnly
<1> QED
  BY <1>0, <1>1, <1>3, <1>4, QuietStep

(* A swap that fails starts the search again. *)
LEMMA RetryStep ==
    ASSUME IInv, NEW t \in Threads, Retry(t), pc[t] \in {"unlink", "mark"},
           UNCHANGED <<memory, alive, ebr, late, op, k, local, ret>>,
           UNCHANGED seen \/ Observe, seen' \in [Threads -> SUBSET BOOLEAN]
    PROVE  IInv'
<1>0. /\ TypeOK /\ LocalsOf(t) /\ EbrOnly(t) /\ inside' = inside
  BY EbrSame DEF IInv, Locals
<1>1. /\ pc'[t] = "head" /\ pc' \in [Threads -> Points]
      /\ UNCHANGED <<next, key, free, alive, late, op, k, pred, curr, word, node, ret>>
  BY <1>0 DEF Retry, Goto, TypeOK, Points, memory, local
<1>2. Contents' = Contents
  BY <1>1, MemorySame
<1>3. \A u \in Threads : /\ seen[u] \subseteq seen'[u]
                         /\ pc[u] = "idle" => seen'[u] = seen[u]
                         /\ pc[u] # "idle" => (k[u] \in Contents') \in seen'[u]
  <2>1. CASE Observe
    BY <2>1, ObserveAll
  <2>2. CASE UNCHANGED seen
    BY <1>2, <2>2 DEF IInv, Locals, LocalsOf
  <2> QED
    BY <2>1, <2>2
<1>4. OnlyMoves(t)
  BY <1>0, <1>1, <1>3 DEF OnlyMoves, Same, Retry, Goto, TypeOK
<1>5. LocalsOf(t)' /\ AnswerOf(t)'
  BY <1>0, <1>1, <1>3 DEF LocalsOf, Walking, Firm, AnswerOf
<1>6. TypeOK'
  BY <1>0, <1>1 DEF TypeOK, Points, EbrOnly
<1> QED
  BY <1>0, <1>1, <1>4, <1>5, <1>6, QuietStep

LEMMA SnipLostStep ==
    ASSUME IInv, NEW t \in Threads, RemoveSnip(t), ~ Linked(t)
    PROVE  IInv'
<1>0. /\ TypeOK /\ LocalsOf(t) /\ UNCHANGED ebr /\ EbrOnly(t) /\ inside' = inside
  BY EbrSame DEF IInv, Locals, RemoveSnip
<1>1. /\ pc[t] = "snip" /\ op[t] = "remove" /\ node[t] = NULL /\ Finish(t, "yes")
      /\ UNCHANGED <<next, key, free, alive, late, op, k, seen>>
      /\ (k[t] \in Contents) \in seen[t]
  BY <1>0 DEF RemoveSnip, Unlinks, LocalsOf
<1>2. /\ pc'[t] = "exit" /\ ret'[t] = "yes" /\ node'[t] = NULL /\ OnlyMoves(t)
      /\ Contents' = Contents
  BY <1>0, <1>1, FinishType, MemorySame DEF OnlyMoves, Same
<1>3. LocalsOf(t)'
  BY <1>0, <1>1, <1>2, FinishLocals
<1>4. AnswerOf(t)'
  BY <1>1, <1>2 DEF AnswerOf
<1>5. TypeOK'
  BY <1>0, <1>1, FinishType DEF TypeOK, EbrOnly, Points
<1> QED
  BY <1>0, <1>1, <1>2, <1>3, <1>4, <1>5, QuietStep

-----------------------------------------------------------------------------
(* The steps that write a word which is not on the list. *)
LEMMA ListSame ==
    ASSUME TypeOK, \A n \in Listed : next'[n] = next[n] /\ key'[n] = key[n]
    PROVE  /\ Listed' = Listed /\ Contents' = Contents
           /\ Rising /\ alive' = alive => Rising'
<1>1. Listed \subseteq AllNode
  BY FromFacts DEF Listed
<1>2. \A n \in Listed : Link'[n] = Link[n]
  BY <1>1, LinkType, LinkNext
<1>3. Listed' = Listed
  BY <1>2, FromChain, ChainFrame DEF Listed
<1>4. Contents' = Contents
  BY <1>3 DEF Contents
<1>5. ASSUME Rising, alive' = alive, alive, NEW n \in Listed \ {TailNode}
      PROVE  next'[n].to \in AllNode /\ key'[n] < key'[next'[n].to]
  <2>1. /\ next[n].to \in AllNode /\ key[n] < key[next[n].to]
    BY <1>5 DEF Rising
  <2>2. next[n].to \in Listed
    BY <2>1, FromFacts DEF Listed
  <2> QED
    BY <2>1, <2>2
<1> QED
  BY <1>3, <1>4, <1>5 DEF Rising

LEMMA PrivateGain ==
    ASSUME TypeOK, Conservation, NEW t \in Threads, node[t] = NULL,
           NEW n \in Nodes \ Private, node' = [node EXCEPT ![t] = n]
    PROVE  /\ Private' = Private \cup {n}
           /\ \A u, w \in Threads : node'[u] = node'[w] /\ node'[u] # NULL => u = w
<1>1. /\ node'[t] = n /\ n # NULL
      /\ \A u \in Threads \ {t} : node'[u] = node[u] /\ node[u] # n
  BY Names DEF TypeOK, Private
<1> QED
  BY <1>1 DEF Private, Conservation

LEMMA PrivateDrop ==
    ASSUME TypeOK, Conservation, NEW t \in Threads, node[t] \in Nodes,
           node' = [node EXCEPT ![t] = NULL]
    PROVE  /\ Private' = Private \ {node[t]} /\ node[t] \in Private
           /\ \A u, w \in Threads : node'[u] = node'[w] /\ node'[u] # NULL => u = w
<1>1. /\ node'[t] = NULL /\ node[t] # NULL
      /\ \A u \in Threads \ {t} : node'[u] = node[u] /\ node[u] # node[t]
  BY Names DEF TypeOK, Conservation
<1> QED
  BY <1>1 DEF Private, Conservation

LEMMA AllocStep ==
    ASSUME IInv, NEW t \in Threads, Alloc(t)
    PROVE  IInv' /\ Contents' = Contents
<1>0. /\ TypeOK /\ LocalsOf(t) /\ UNCHANGED ebr /\ EbrOnly(t) /\ inside' = inside
      /\ Ends /\ Rising /\ Dead /\ Conservation
  BY EbrSame DEF IInv, Locals, Alloc
<1>1. PICK n \in free : /\ node' = [node EXCEPT ![t] = n]
                        /\ free' = free \ {n}
                        /\ key' = [key EXCEPT ![n] = k[t]]
                        /\ next' = [next EXCEPT ![n] = Plain(curr[t])]
  BY DEF Alloc
<1>2. /\ pc[t] = "alloc" /\ pc'[t] = "insert" /\ op[t] = "insert" /\ node[t] = NULL
      /\ k[t] \in Keys /\ key[curr[t]] > k[t] /\ Walkable(t, curr[t])
      /\ curr[t] \in AllNode /\ Safe(t, curr[t])
      /\ pred[t] \in AllNode /\ Safe(t, pred[t]) /\ key[pred[t]] < k[t]
      /\ UNCHANGED <<alive, late, op, k, pred, curr, word, ret, seen>>
      /\ n \in Nodes /\ node'[t] = n /\ next'[n] = Plain(curr[t]) /\ key'[n] = k[t]
  <2>1. /\ pc[t] = "alloc" /\ pc'[t] = "insert"
        /\ UNCHANGED <<alive, late, op, k, pred, curr, word, ret, seen>>
    BY <1>0 DEF Alloc, Goto, TypeOK
  <2>2. n \in Nodes /\ node'[t] = n /\ next'[n] = Plain(curr[t]) /\ key'[n] = k[t]
    BY <1>0, <1>1 DEF TypeOK, AllNode
  <2>3. /\ op[t] = "insert" /\ node[t] = NULL
        /\ k[t] \in Keys /\ key[curr[t]] > k[t] /\ Walkable(t, curr[t])
        /\ pred[t] \in AllNode /\ Safe(t, pred[t]) /\ key[pred[t]] < k[t]
    BY <1>0, <2>1 DEF LocalsOf, Walking, Firm
  <2>4. curr[t] \in AllNode /\ Safe(t, curr[t])
    BY <1>0, <2>3, FromFacts DEF Walkable
  <2> QED
    BY <2>1, <2>2, <2>3, <2>4
<1>3. n \notin Known /\ n \notin Private
  BY <1>0, <1>1, <1>2 DEF Conservation, Known
<1>4. \A m \in AllNode \ {n} : next'[m] = next[m] /\ key'[m] = key[m]
  BY <1>0, <1>1 DEF TypeOK
<1>5. OnlyMoves(t)
  BY <1>0, <1>1, <1>2 DEF OnlyMoves, Same, Alloc, Goto, TypeOK
<1>6. /\ Listed' = Listed /\ Contents' = Contents /\ Rising'
      /\ Snipped' = Snipped /\ Unlinked' = Unlinked /\ Ebr!Retired' = Ebr!Retired
      /\ \A u \in Snipped : curr'[u] = curr[u]
  <2>1. \A m \in Listed : m \in AllNode \ {n}
    BY <1>0, <1>3, FromFacts DEF Known, Listed
  <2> QED
    BY <1>0, <1>2, <1>4, <1>5, <2>1, ListSame, HandsSame DEF EbrOnly
<1>7. ASSUME NEW u \in Threads PROVE Steady(u)
  <2>1. ASSUME NEW m \in AllNode, Safe(u, m)
        PROVE  Safe(u, m)' /\ next'[m] = next[m] /\ key'[m] = key[m]
    <3>1. m # n
      BY <1>3, <2>1, SafeKnown
    <3> QED
      BY <1>0, <1>4, <1>6, <2>1, <3>1 DEF Safe, ebr, Ebr!Retired
  <2> QED
    BY <1>2, <2>1, SteadyFrame
<1>8. ASSUME NEW u \in Threads \ {t}, node[u] \in Nodes
      PROVE  next'[node[u]] = next[node[u]] /\ key'[node[u]] = key[node[u]]
  BY <1>3, <1>4, <1>8, Names DEF Private, AllNode
<1>9. Ends'
  BY <1>0, <1>2, <1>4, Names DEF Ends
<1>10. Dead'
  <2>1. \A m \in Ebr!Retired \cup Unlinked : m \in AllNode \ {n}
    BY <1>0, <1>3 DEF Known, TypeOK, Conservation, AllNode
  <2> QED
    BY <1>0, <1>4, <1>6, <2>1 DEF Dead
<1>11. Conservation'
  <2>1. /\ Private' = Private \cup {n}
        /\ \A u, w \in Threads : node'[u] = node'[w] /\ node'[u] # NULL => u = w
    BY <1>0, <1>1, <1>2, <1>3, PrivateGain
  <2> QED
    BY <1>0, <1>1, <1>2, <1>3, <1>6, <2>1 DEF Conservation, Known
<1>12. Walkable(t, curr[t])' /\ Safe(t, pred[t])' /\ key'[curr[t]] = key[curr[t]]
       /\ key'[pred[t]] = key[pred[t]]
  BY <1>2, <1>7 DEF Steady
<1>13. LocalsOf(t)' /\ AnswerOf(t)'
  BY <1>0, <1>2, <1>6, <1>12 DEF LocalsOf, Walking, Firm, AnswerOf
<1>14. TypeOK'
  <2>1. /\ next' \in [AllNode -> Words] /\ key' \in [AllNode -> 0 .. MaxKey + 1]
        /\ node' \in [Threads -> Pointer] /\ pc' \in [Threads -> Points]
    BY <1>0, <1>1, <1>2, Names
       DEF TypeOK, Alloc, Goto, Points, Words, Plain, Keys, Pointer, AllNode
  <2> QED
    BY <1>0, <1>1, <1>2, <2>1 DEF TypeOK, Points, EbrOnly
<1>15. Gaps'
  <2>1. \A m \in Listed : key'[m] = key[m]
    BY <1>0, <1>3, <1>4, FromFacts DEF Known, Listed
  <2> QED
    BY <1>2, <1>5, <1>6, <2>1, GapsKept
<1> QED
  BY <1>0, <1>2, <1>5, <1>6, <1>7, <1>8, <1>9, <1>10, <1>11, <1>13, <1>14, <1>15, Assemble

(* An insert that lost its place gives its node back. *)
LEMMA InsertLostStep ==
    ASSUME IInv, NEW t \in Threads, Insert(t), ~ Linked(t)
    PROVE  IInv'
<1>0. /\ TypeOK /\ LocalsOf(t) /\ UNCHANGED ebr /\ EbrOnly(t) /\ inside' = inside
      /\ Ends /\ Rising /\ Dead /\ Conservation
  BY EbrSame DEF IInv, Locals, Insert
<1>1. /\ pc[t] = "insert" /\ pc'[t] = "head" /\ op[t] = "insert" /\ ret[t] = "none"
      /\ node[t] \in Nodes /\ node'[t] = NULL
      /\ free' = free \cup {node[t]} /\ node' = [node EXCEPT ![t] = NULL]
      /\ UNCHANGED <<next, key, alive, late, op, k, pred, curr, word, ret>> /\ Observe
      /\ k[t] \in Keys
  BY <1>0 DEF Insert, LocalsOf, Retry, Goto, TypeOK
<1>2. \A u \in Threads : /\ seen[u] \subseteq seen'[u]
                         /\ pc[u] = "idle" => seen'[u] = seen[u]
                         /\ pc[u] # "idle" => (k[u] \in Contents') \in seen'[u]
  BY <1>1, ObserveAll
<1>3. OnlyMoves(t)
  BY <1>0, <1>1, <1>2 DEF OnlyMoves, Same, Insert, Retry, Goto, TypeOK
<1>4. /\ Listed' = Listed /\ Contents' = Contents
      /\ Snipped' = Snipped /\ Unlinked' = Unlinked /\ Ebr!Retired' = Ebr!Retired
      /\ \A u \in Snipped : curr'[u] = curr[u]
  BY <1>0, <1>1, <1>3, MemorySame, HandsSame DEF EbrOnly
<1>5. ASSUME NEW u \in Threads \ {t} PROVE Steady(u)
  <2>1. ASSUME NEW m \in AllNode, Safe(u, m) PROVE Safe(u, m)'
    BY <1>0, <1>4, <2>1 DEF Safe, ebr, Ebr!Retired
  <2> QED
    BY <1>1, <1>2, <2>1, SteadyFrame
<1>6. Ends' /\ Rising' /\ Dead'
  BY <1>0, <1>1, <1>4 DEF Ends, Rising, Dead
<1>7. Conservation'
  <2>1. /\ Private' = Private \ {node[t]} /\ node[t] \in Private
        /\ \A u, w \in Threads : node'[u] = node'[w] /\ node'[u] # NULL => u = w
    BY <1>0, <1>1, PrivateDrop
  <2> QED
    BY <1>0, <1>1, <1>4, <2>1 DEF Conservation
<1>8. LocalsOf(t)' /\ AnswerOf(t)'
  BY <1>0, <1>1, <1>2 DEF LocalsOf, Walking, Firm, AnswerOf
<1>9. TypeOK'
  <2>1. /\ node' \in [Threads -> Pointer] /\ pc' \in [Threads -> Points]
        /\ seen' \in [Threads -> SUBSET BOOLEAN]
    BY <1>0, <1>1, Names, ObserveType DEF TypeOK, Insert, Retry, Goto, Points, Pointer
  <2> QED
    BY <1>0, <1>1, <2>1 DEF TypeOK, Points, EbrOnly
<1>10. Gaps'
  BY <1>1, <1>3, <1>4, GapsKept
<1> QED
  BY <1>0, <1>1, <1>3, <1>4, <1>5, <1>6, <1>7, <1>8, <1>9, <1>10, Assemble

-----------------------------------------------------------------------------
(* ebr_put: the node is in limbo until all that are inside have left. *)
LEMMA RetireFacts ==
    ASSUME IInv, NEW t \in Threads, OnlyMoves(t), pc[t] \in {"put", "retire"},
           pc'[t] \notin {"put", "retire"}, Ebr!Retire(curr[t]),
           next' = next, key' = key, free' = free, alive' = alive, node'[t] = node[t],
           k' = k, seen' = seen
    PROVE  /\ curr[t] \in Unlinked /\ Unlinked' = Unlinked \ {curr[t]}
           /\ Ebr!Retired' = Ebr!Retired \cup {curr[t]} /\ inside' = inside
           /\ waits' \in [Ebr!Retired' -> SUBSET Threads]
           /\ Listed' = Listed /\ Contents' = Contents
           /\ \A u \in Threads : Firm(u) => Steady(u)
           /\ Ends' /\ Rising' /\ Dead' /\ Conservation'
<1>0. /\ TypeOK /\ Ends /\ Rising /\ Dead /\ Conservation
  BY DEF IInv
<1>1. t \in Snipped /\ curr[t] \in Unlinked /\ curr[t] \notin Ebr!Retired
  BY <1>0 DEF Snipped, Unlinked, Conservation
<1>2. \A u \in Threads \ {t} : pc'[u] = pc[u] /\ curr'[u] = curr[u]
  BY DEF OnlyMoves, Same
<1>3. Snipped' = Snipped \ {t} /\ \A u \in Snipped \ {t} : curr'[u] = curr[u]
  BY <1>2 DEF Snipped
<1>4. Unlinked' = Unlinked \ {curr[t]}
  <2>1. \A u \in Snipped \ {t} : curr[u] # curr[t]
    BY <1>0, <1>1 DEF Conservation
  <2> QED
    BY <1>1, <1>3, <2>1 DEF Unlinked
<1>5. /\ Ebr!Retired' = Ebr!Retired \cup {curr[t]} /\ inside' = inside
      /\ \A m \in Ebr!Retired : waits'[m] = waits[m]
      /\ waits'[curr[t]] = inside
      /\ waits' \in [Ebr!Retired' -> SUBSET Threads]
  BY <1>0, <1>1 DEF Ebr!Retire, Ebr!Retired, TypeOK
<1>6. Listed' = Listed /\ Contents' = Contents
  BY MemorySame
<1>7. ASSUME NEW u \in Threads, Firm(u) PROVE Steady(u)
  <2>1. u \in inside
    BY <1>7 DEF IInv, Locals, LocalsOf, Firm
  <2>2. ASSUME NEW m \in AllNode, Safe(u, m) PROVE Safe(u, m)'
    <3>1. CASE m = curr[t]
      BY <1>5, <2>1, <3>1 DEF Safe
    <3>2. CASE m # curr[t]
      BY <1>4, <1>5, <1>6, <2>2, <3>2 DEF Safe
    <3> QED
      BY <3>1, <3>2
  <2> QED
    BY <2>2, SteadyFrame
<1>8. Ends' /\ Rising' /\ Dead'
  BY <1>0, <1>1, <1>4, <1>5, <1>6 DEF Ends, Rising, Dead
<1>9. Conservation'
  BY <1>0, <1>1, <1>3, <1>4, <1>5, <1>6, PrivateSame DEF Conservation
<1> QED
  BY <1>1, <1>4, <1>5, <1>6, <1>7, <1>8, <1>9

LEMMA FindPutStep ==
    ASSUME IInv, NEW t \in Threads, FindPut(t)
    PROVE  IInv'
<1>0. TypeOK /\ LocalsOf(t)
  BY DEF IInv, Locals
<1>1. /\ pc[t] = "put" /\ pc'[t] = "curr" /\ op[t] # "lookup" /\ ret[t] = "none"
      /\ node[t] = NULL /\ alive /\ t \in inside /\ k[t] \in Keys
      /\ (k[t] \in Contents) \in seen[t] /\ word[t] = next[curr[t]] /\ word[t].mark
      /\ curr'[t] = word[t].to /\ curr' = [curr EXCEPT ![t] = word[t].to]
      /\ Ebr!Retire(curr[t]) /\ Walkable(t, curr[t]) /\ curr[t] \in AllNode
      /\ curr[t] \in From(curr[t])
      /\ key[curr[t]] > k[t] => FALSE \in seen[t]
      /\ pred[t] \in AllNode /\ Safe(t, pred[t]) /\ key[pred[t]] < k[t]
      /\ UNCHANGED <<next, key, free, alive, late, op, k, pred, word, node, ret, seen>>
  BY <1>0, FromFacts DEF FindPut, Goto, TypeOK, LocalsOf, Walking, Firm, Walkable, memory
<1>2. OnlyMoves(t)
  BY <1>0, <1>1 DEF OnlyMoves, Same, FindPut, Goto, TypeOK
<1>3. /\ curr[t] \in Unlinked /\ Ebr!Retired' = Ebr!Retired \cup {curr[t]}
      /\ inside' = inside /\ Contents' = Contents
      /\ waits' \in [Ebr!Retired' -> SUBSET Threads]
      /\ \A u \in Threads : Firm(u) => Steady(u)
      /\ Ends' /\ Rising' /\ Dead' /\ Conservation'
  BY <1>1, <1>2, RetireFacts
<1>4. word[t].to \in AllNode
  BY <1>1, <1>3 DEF IInv, Dead
<1>5. Walkable(t, word[t].to)
  BY <1>0, <1>1, <1>4, FromFacts DEF Walkable
<1>6. key[word[t].to] > k[t] => FALSE \in seen[t]
  <2>1. key[curr[t]] \in Nat /\ k[t] \in Nat /\ key[word[t].to] \in Nat
    BY <1>0, <1>1, <1>4, LinkType DEF Keys
  <2>2. Lacks(curr[t], k[t]) => FALSE \in seen[t]
    BY <1>1 DEF Walkable
  <2>3. CASE key[curr[t]] = k[t]
    BY <1>1, <2>2, <2>3 DEF Lacks
  <2>4. CASE key[curr[t]] < k[t]
    BY <1>1, <1>4, <2>1, <2>2, <2>4 DEF Lacks
  <2>5. CASE key[curr[t]] > k[t]
    BY <1>1, <2>5
  <2>6. \/ key[curr[t]] = k[t] \/ key[curr[t]] < k[t] \/ key[curr[t]] > k[t]
    BY <2>1
  <2> QED
    BY <2>3, <2>4, <2>5, <2>6
<1>7. /\ Walkable(t, curr[t])' /\ Safe(t, pred[t])'
  BY <1>1, <1>3, <1>4, <1>5 DEF Steady, Firm
<1>8. LocalsOf(t)' /\ AnswerOf(t)'
  BY <1>0, <1>1, <1>3, <1>6, <1>7 DEF LocalsOf, Walking, Firm, AnswerOf
<1>9. TypeOK'
  <2>1. pc' \in [Threads -> Points] /\ curr' \in [Threads -> Pointer]
    BY <1>0, <1>1, <1>4, Names DEF TypeOK, FindPut, Goto, Points
  <2>2. Ebr!Retired' \subseteq Nodes
    BY <1>0, <1>3 DEF IInv, TypeOK, Conservation
  <2> QED
    BY <1>0, <1>1, <1>3, <2>1, <2>2 DEF TypeOK, Points
<1>10. Gaps'
  BY <1>1, <1>2, MemorySame, GapsKept
<1> QED
  BY <1>1, <1>2, <1>3, <1>8, <1>9, <1>10, Assemble DEF OnlyMoves, Same

LEMMA RemovePutStep ==
    ASSUME IInv, NEW t \in Threads, RemovePut(t)
    PROVE  IInv'
<1>0. TypeOK /\ LocalsOf(t)
  BY DEF IInv, Locals
<1>1. /\ pc[t] = "retire" /\ op[t] = "remove" /\ node[t] = NULL
      /\ alive /\ t \in inside /\ k[t] \in Keys /\ (k[t] \in Contents) \in seen[t]
      /\ Ebr!Retire(curr[t]) /\ Finish(t, "yes")
      /\ UNCHANGED <<next, key, free, alive, late, op, k, seen>>
  BY <1>0 DEF RemovePut, LocalsOf, memory
<1>2. /\ pc'[t] = "exit" /\ ret'[t] = "yes" /\ node'[t] = NULL /\ OnlyMoves(t)
      /\ \A u \in Threads : node'[u] = node[u]
  BY <1>0, <1>1, FinishType DEF OnlyMoves, Same
<1>3. /\ curr[t] \in Unlinked /\ Ebr!Retired' = Ebr!Retired \cup {curr[t]}
      /\ inside' = inside /\ Contents' = Contents
      /\ waits' \in [Ebr!Retired' -> SUBSET Threads]
      /\ \A u \in Threads : Firm(u) => Steady(u)
      /\ Ends' /\ Rising' /\ Dead' /\ Conservation'
  BY <1>1, <1>2, RetireFacts
<1>4. LocalsOf(t)'
  BY <1>0, <1>1, <1>3, FinishLocals
<1>5. AnswerOf(t)'
  BY <1>1, <1>2 DEF AnswerOf
<1>6. TypeOK'
  <2>1. Ebr!Retired' \subseteq Nodes
    BY <1>0, <1>3 DEF IInv, TypeOK, Conservation
  <2> QED
    BY <1>0, <1>1, <1>3, <2>1, FinishType DEF TypeOK, Points
<1>7. Gaps'
  BY <1>1, <1>2, MemorySame, GapsKept
<1> QED
  BY <1>1, <1>2, <1>3, <1>4, <1>5, <1>6, <1>7, Assemble DEF OnlyMoves, Same

(* What no thread waits for, no thread can come to. *)
LEMMA CollectStep ==
    ASSUME IInv, NEW n \in Nodes, Collect(n)
    PROVE  IInv' /\ Contents' = Contents
<1>0. /\ TypeOK /\ Ends /\ Rising /\ Dead /\ Conservation
  BY DEF IInv
<1>1. /\ n \in Ebr!Retired /\ waits[n] = {} /\ inside' = inside
      /\ Ebr!Retired' = Ebr!Retired \ {n}
      /\ \A m \in Ebr!Retired \ {n} : waits'[m] = waits[m]
      /\ waits' \in [Ebr!Retired' -> SUBSET Threads]
  BY <1>0 DEF Collect, Ebr!Collect, Ebr!Retired, TypeOK
<1>2. /\ free' = free \cup {n}
      /\ UNCHANGED <<alive, pc, late, op, k, pred, curr, word, node, ret, seen>>
      /\ \E j \in Junk : next' = [next EXCEPT ![n] = j.word] /\ key' = [key EXCEPT ![n] = j.key]
  BY DEF Collect, local
<1>3. n \notin Listed /\ n \notin Unlinked /\ n \notin Private /\ n \notin free
  BY <1>0, <1>1 DEF Conservation
<1>4. \A m \in AllNode \ {n} : next'[m] = next[m] /\ key'[m] = key[m]
  BY <1>0, <1>2 DEF TypeOK
<1>5. Snipped' = Snipped /\ Unlinked' = Unlinked /\ Private' = Private
  BY <1>2 DEF Snipped, Unlinked, Private
<1>6. Listed' = Listed /\ Contents' = Contents /\ Rising'
  <2>1. \A m \in Listed : m \in AllNode \ {n}
    BY <1>0, <1>3, FromFacts DEF Listed
  <2> QED
    BY <1>0, <1>2, <1>4, <2>1, ListSame
<1>7. ASSUME NEW u \in Threads PROVE LocalsOf(u)' /\ AnswerOf(u)'
  <2>1. ASSUME NEW m \in AllNode, Safe(u, m)
        PROVE  Safe(u, m)' /\ next'[m] = next[m] /\ key'[m] = key[m]
    <3>1. m # n
      BY <1>1, <1>3, <2>1 DEF Safe
    <3> QED
      BY <1>1, <1>4, <1>5, <1>6, <2>1, <3>1 DEF Safe
  <2>2. Steady(u)
    BY <1>2, <2>1, SteadyFrame
  <2>3. ASSUME node[u] \in Nodes
        PROVE  next'[node[u]] = next[node[u]] /\ key'[node[u]] = key[node[u]]
    BY <1>3, <1>4, <2>3, Names DEF Private, AllNode
  <2>4. pc[u] # "idle" => (k[u] \in Contents') \in seen'[u]
    BY <1>2, <1>6 DEF IInv, Locals, LocalsOf
  <2> QED
    BY <1>1, <1>2, <2>2, <2>3, <2>4, LocalsKept DEF Same
<1>8. Ends'
  BY <1>0, <1>2, <1>4, Names DEF Ends, AllNode, TypeOK
<1>9. Dead'
  <2>1. \A m \in Ebr!Retired' \cup Unlinked : m \in AllNode \ {n}
    BY <1>0, <1>1, <1>3 DEF TypeOK, Conservation, AllNode
  <2> QED
    BY <1>0, <1>1, <1>4, <1>5, <2>1 DEF Dead
<1>10. Conservation'
  BY <1>0, <1>1, <1>2, <1>3, <1>5, <1>6 DEF Conservation
<1>11. TypeOK'
  <2>1. next' \in [AllNode -> Words] /\ key' \in [AllNode -> 0 .. MaxKey + 1]
    BY <1>0, <1>2, JunkAssumption DEF TypeOK
  <2> QED
    BY <1>0, <1>1, <1>2, <2>1 DEF TypeOK
<1>12. Gaps'
  <2>1. \A m \in Listed : key'[m] = key[m]
    BY <1>0, <1>3, <1>4, FromFacts DEF Listed
  <2> QED
    BY <1>2, <1>6, <2>1 DEF IInv, Gaps
<1> QED
  BY <1>6, <1>7, <1>8, <1>9, <1>10, <1>11, <1>12 DEF IInv, Locals

-----------------------------------------------------------------------------
(* The mark takes the key out of the set. *)
LEMMA MarkStep ==
    ASSUME IInv, NEW t \in Threads, RemoveMark(t), next[curr[t]] = Plain(word[t].to)
    PROVE  /\ IInv'
           /\ k[t] \in Contents /\ Contents' = Contents \ {k[t]}
<1> DEFINE c == curr[t]
<1>0. /\ TypeOK /\ LocalsOf(t) /\ UNCHANGED ebr /\ EbrOnly(t) /\ inside' = inside
      /\ Ends /\ Rising /\ Dead /\ Conservation
  BY EbrSame DEF IInv, Locals, RemoveMark
<1>1. /\ pc[t] = "mark" /\ pc'[t] = "snip" /\ pc' \in [Threads -> Points]
      /\ op[t] = "remove" /\ ret'[t] = "yes" /\ node[t] = NULL
      /\ ret' \in [Threads -> {"none", "yes", "no"}]
      /\ next' = [next EXCEPT ![c] = Marked(word[t])]
      /\ UNCHANGED <<key, free, alive, late, op, k, pred, curr, word, node>> /\ Observe
      /\ alive /\ t \in inside /\ k[t] \in Keys
  BY <1>0 DEF RemoveMark, LocalsOf, Goto, TypeOK, Points, local
<1>2. /\ Walkable(t, c) /\ c \in AllNode /\ Safe(t, c) /\ key[c] = k[t]
      /\ pred[t] \in AllNode /\ Safe(t, pred[t]) /\ key[pred[t]] < k[t]
  <2>1. /\ Walkable(t, c) /\ key[c] = k[t]
        /\ pred[t] \in AllNode /\ Safe(t, pred[t]) /\ key[pred[t]] < k[t]
    BY <1>0, <1>1 DEF LocalsOf, Walking, Firm
  <2> QED
    BY <1>0, <2>1, FromFacts DEF Walkable
<1>3. /\ ~ next[c].mark /\ next[c].to = word[t].to /\ word[t] \in Words
      /\ Marked(word[t]) \in Words /\ Marked(word[t]).mark
      /\ Marked(word[t]).to = word[t].to
  <2>1. ~ next[c].mark /\ next[c].to = word[t].to
    BY DEF Plain
  <2>2. word[t] \in Words
    BY <1>0 DEF TypeOK
  <2>3. \A w \in Words : Marked(w) \in Words /\ Marked(w).mark /\ Marked(w).to = w.to
    BY DEF Marked, Words
  <2> QED
    BY <2>1, <2>2, <2>3
<1>4. /\ next'[c] = Marked(word[t]) /\ next'[c].to = next[c].to /\ next'[c].mark
      /\ \A m \in AllNode \ {c} : next'[m] = next[m]
      /\ \A m \in AllNode : next'[m].to = next[m].to
  BY <1>0, <1>1, <1>2, <1>3 DEF TypeOK
<1>5. c \in Listed /\ c \in Nodes
  <2>1. c \in Listed
    BY <1>2, <1>3, SafeListed
  <2> QED
    BY <1>0, <1>1, <1>2, <2>1, Names DEF Ends, Keys, AllNode
<1>6. /\ Listed' = Listed /\ \A n : From(n)' = From(n)
  <2>1. Link' = Link
    BY <1>4 DEF Link
  <2> QED
    BY <2>1 DEF From, Listed
<1>7. k[t] \in Contents /\ Contents' = Contents \ {k[t]}
  <2>1. \A m \in Listed : key[m] = k[t] => m = c
    <3>1. Ascends(AllNode, Link, key, HeadNode)
      BY <1>0, <1>1, ListFacts
    <3> QED
      BY <1>2, <1>5, <3>1, FromChain, AscendsOnce DEF Listed
  <2>2. \A m \in Listed : ~ next'[m].mark <=> ~ next[m].mark /\ m # c
    BY <1>0, <1>4, FromFacts DEF Listed
  <2>3. k[t] \in Contents
    BY <1>2, <1>3, <1>5 DEF Contents
  <2>4. ASSUME NEW x PROVE x \in Contents' <=> x \in Contents /\ x # k[t]
    BY <1>1, <1>2, <1>6, <2>1, <2>2 DEF Contents
  <2> QED
    BY <2>3, <2>4
<1>8. \A u \in Threads : /\ seen[u] \subseteq seen'[u]
                         /\ pc[u] = "idle" => seen'[u] = seen[u]
                         /\ pc[u] # "idle" => (k[u] \in Contents') \in seen'[u]
  BY <1>1, ObserveAll
<1>9. OnlyMoves(t)
  BY <1>0, <1>1, <1>8 DEF OnlyMoves, Same, RemoveMark, Goto, TypeOK
<1>10. /\ Snipped' = Snipped /\ Unlinked' = Unlinked /\ Ebr!Retired' = Ebr!Retired
       /\ Private' = Private /\ \A u \in Snipped : curr'[u] = curr[u]
       /\ \A u, n : Safe(u, n)' = Safe(u, n)
  BY <1>0, <1>1, <1>6, <1>9, HandsSame, PrivateSame DEF EbrOnly, Safe, ebr, Ebr!Retired
<1>11. ASSUME NEW u \in Threads, pc[u] # "idle" PROVE Steady(u)
  <2>1. ASSUME NEW m \in AllNode, Lacks(m, k[u])', ~ Lacks(m, k[u])
        PROVE  FALSE \in seen'[u]
    <3>1. m = c
      BY <1>1, <1>4, <2>1 DEF Lacks
    <3>2. k[u] = k[t]
      BY <1>1, <1>2, <1>4, <2>1, <3>1 DEF Lacks
    <3>3. (k[u] \in Contents') = FALSE
      BY <1>7, <3>2
    <3> QED
      BY <1>8, <1>11, <3>3
  <2>2. ASSUME NEW n \in AllNode, Walkable(u, n) PROVE Walkable(u, n)'
    <3>1. \A m \in From(n) : m \in AllNode
      BY <1>0, FromFacts
    <3> QED
      BY <1>1, <1>6, <1>8, <1>10, <2>1, <2>2, <3>1 DEF Walkable
  <2>3. ASSUME NEW n \in AllNode, next[n].mark PROVE next'[n] = next[n]
    BY <1>3, <1>4, <2>3
  <2> QED
    BY <1>1, <1>10, <2>2, <2>3 DEF Steady
<1>12. Ends' /\ Rising' /\ Dead' /\ Conservation'
  <2>1. Ends'
    BY <1>0, <1>1, <1>4, <1>5, Names DEF Ends
  <2>2. Rising'
    <3>1. Listed \subseteq AllNode
      BY <1>0, FromFacts DEF Listed
    <3> QED
      BY <1>0, <1>1, <1>4, <1>6, <3>1 DEF Rising
  <2>3. Dead'
    <3>1. \A m \in Ebr!Retired \cup Unlinked : m \in AllNode
      BY <1>0 DEF TypeOK, Conservation, AllNode
    <3> QED
      BY <1>0, <1>3, <1>4, <1>10, <3>1 DEF Dead
  <2>4. Conservation'
    BY <1>0, <1>1, <1>6, <1>10 DEF Conservation
  <2> QED
    BY <2>1, <2>2, <2>3, <2>4
<1>13. LocalsOf(t)' /\ AnswerOf(t)'
  <2>1. Walkable(t, c)'
    BY <1>1, <1>2, <1>11 DEF Steady
  <2> QED
    BY <1>0, <1>1, <1>2, <1>4, <1>8, <1>10, <2>1 DEF LocalsOf, Walking, Firm, AnswerOf
<1>14. TypeOK'
  <2>1. next' \in [AllNode -> Words] /\ seen' \in [Threads -> SUBSET BOOLEAN]
    BY <1>0, <1>1, <1>3, ObserveType DEF TypeOK
  <2> QED
    BY <1>0, <1>1, <2>1 DEF TypeOK, Points, EbrOnly
<1>15. ASSUME NEW u \in Threads \ {t}, node[u] \in Nodes
       PROVE  next'[node[u]] = next[node[u]] /\ key'[node[u]] = key[node[u]]
  <2>1. node[u] # c
    BY <1>0, <1>5, <1>15, Names DEF Conservation, Private
  <2> QED
    BY <1>1, <1>4, <1>15, <2>1 DEF AllNode
<1>16. Gaps'
  BY <1>1, <1>6, <1>9, GapsKept
<1> QED
  BY <1>0, <1>1, <1>7, <1>9, <1>11, <1>12, <1>13, <1>14, <1>15, <1>16, Assemble
     DEF Firm

LEMMA RemoveMarkStep ==
    ASSUME IInv, NEW t \in Threads, RemoveMark(t)
    PROVE  IInv'
<1>1. CASE next[curr[t]] = Plain(word[t].to)
  BY <1>1, MarkStep
<1>2. CASE next[curr[t]] # Plain(word[t].to)
  <2>1. /\ Retry(t) /\ pc[t] = "mark" /\ Observe
        /\ UNCHANGED <<memory, alive, ebr, late, op, k, local, ret>>
    BY <1>2 DEF RemoveMark, memory
  <2>2. seen' \in [Threads -> SUBSET BOOLEAN]
    BY <2>1, ObserveType DEF IInv
  <2> QED
    BY <2>1, <2>2, RetryStep
<1> QED
  BY <1>1, <1>2

-----------------------------------------------------------------------------
(* The swap that takes a marked node off the list: who has it in hand goes *)
(* on from it as before, and who stands before it misses nothing.          *)
LEMMA UnlinkFacts ==
    ASSUME IInv, NEW t \in Threads, pc[t] \in {"unlink", "snip"}, Linked(t),
           Swap(t, word[t].to), OnlyMoves(t), pc'[t] \in {"put", "retire"},
           curr'[t] = curr[t], node'[t] = node[t],
           key' = key, free' = free, alive' = alive, UNCHANGED ebr,
           k' = k, seen' = seen,
           late' = late \cup {u \in Threads : pc[u] = "enter" /\ curr[u] = curr[t]}
    PROVE  /\ curr[t] \in AllNode /\ Walkable(t, curr[t]) /\ alive /\ next' \in [AllNode -> Words]
           /\ pred[t] \in AllNode /\ Safe(t, pred[t]) /\ key[pred[t]] < k[t]
           /\ next'[curr[t]] = next[curr[t]]
           /\ Contents' = Contents
           /\ \A u \in Threads : Firm(u) => Steady(u)
           /\ \A u \in Threads : node[u] \in Nodes => next'[node[u]] = next[node[u]]
           /\ Ends' /\ Rising' /\ Dead' /\ Conservation' /\ Gaps'
<1> DEFINE p == pred[t]
           c == curr[t]
           d == next[c].to
<1>0. /\ TypeOK /\ LocalsOf(t) /\ Ebr!Retired' = Ebr!Retired /\ waits' = waits
      /\ Ends /\ Rising /\ Dead /\ Conservation
  BY DEF IInv, Locals, ebr, Ebr!Retired
<1>1. /\ next[c].mark /\ d = word[t].to /\ alive /\ pc[t] # "idle"
      /\ p \in AllNode /\ Safe(t, p) /\ key[p] < k[t]
      /\ Walkable(t, c) /\ c \in AllNode /\ Safe(t, c)
  <2>1. /\ alive /\ p \in AllNode /\ Safe(t, p) /\ key[p] < k[t] /\ Walkable(t, c)
        /\ pc[t] # "idle"
    BY <1>0 DEF LocalsOf, Walking, Firm
  <2>2. next[c].mark /\ d = word[t].to
    <3>1. CASE pc[t] = "unlink"
      BY <1>0, <3>1 DEF LocalsOf
    <3>2. CASE pc[t] = "snip"
      <4>1. next[c] = Marked(word[t]) /\ word[t] \in Words
        BY <1>0, <3>2 DEF LocalsOf, TypeOK
      <4>2. Marked(word[t]).mark /\ Marked(word[t]).to = word[t].to
        BY <4>1 DEF Marked, Words
      <4> QED
        BY <4>1, <4>2
    <3> QED
      BY <3>1, <3>2
  <2> QED
    BY <1>0, <2>1, <2>2, FromFacts DEF Walkable
<1>2. ~ next[p].mark /\ next[p].to = c /\ p # c
  BY <1>1 DEF Linked, Plain
<1>3. /\ p \in Listed /\ p # TailNode /\ c \in Listed /\ c \in Nodes
      /\ d \in Listed /\ Listed \subseteq AllNode
      /\ key[p] < key[c] /\ key[c] < key[d]
      /\ key[p] \in Nat /\ key[c] \in Nat /\ key[d] \in Nat
  <2>1. p \in Listed
    BY <1>1, <1>2, SafeListed
  <2>2. p # TailNode
    BY <1>0, <1>1, <1>2, Names DEF Ends, Plain
  <2>3. c \in Listed /\ Listed \subseteq AllNode /\ key[p] < key[c]
    BY <1>0, <1>1, <1>2, <2>1, <2>2, ListFacts
  <2>4. c \in Nodes /\ c # TailNode
    BY <1>0, <1>1, Names DEF Ends, AllNode, Plain
  <2>5. d \in Listed /\ key[c] < key[d]
    BY <1>0, <1>1, <2>3, <2>4, ListFacts
  <2> QED
    BY <1>0, <2>1, <2>2, <2>3, <2>4, <2>5, LinkType
<1>4. /\ next'[p] = Plain(d) /\ next'[p].to = d /\ ~ next'[p].mark
      /\ \A m \in AllNode \ {p} : next'[m] = next[m]
      /\ next' \in [AllNode -> Words]
  <2>1. next' = [next EXCEPT ![p] = Plain(d)]
    BY <1>1 DEF Swap
  <2>2. Plain(d) \in Words /\ Plain(d).to = d /\ ~ Plain(d).mark
    BY <1>3, Names DEF Plain, Words
  <2> QED
    BY <1>0, <1>1, <2>1, <2>2 DEF TypeOK
<1>5. /\ Link[p] = c /\ Link[c] = d /\ Link'[p] = d
      /\ \A m \in AllNode \ {p} : Link'[m] = Link[m]
  BY <1>0, <1>1, <1>2, <1>4, LinkType, LinkNext
<1>6. Listed' = Listed \ {c}
  <2>1. Acyclic(AllNode, Link, HeadNode)
    BY <1>0, <1>1, ListFacts
  <2>2. p \in Chain(AllNode, Link, HeadNode)
    BY <1>3, FromChain DEF Listed
  <2>3. \A m \in Chain(AllNode, Link, HeadNode) \ {p} : Link'[m] = Link[m]
    BY <1>3, <1>5, FromChain DEF Listed
  <2>4. Link[p] \in AllNode /\ Link'[p] = Link[Link[p]]
    BY <1>1, <1>5
  <2>5. Chain(AllNode, Link', HeadNode) = Chain(AllNode, Link, HeadNode) \ {Link[p]}
    BY <2>1, <2>2, <2>3, <2>4, ChainRemove
  <2> QED
    BY <1>5, <2>5, FromChain DEF Listed
<1>7. /\ Snipped' = Snipped \cup {t} /\ t \notin Snipped /\ Unlinked' = Unlinked \cup {c}
      /\ \A u \in Snipped' : curr'[u] = curr[u]
      /\ Private' = Private /\ \A u \in Threads : node'[u] = node[u]
  <2>1. \A u \in Threads \ {t} : curr'[u] = curr[u] /\ pc'[u] = pc[u]
    BY DEF OnlyMoves, Same
  <2>2. Snipped' = Snipped \cup {t} /\ t \notin Snipped
    BY <2>1 DEF Snipped
  <2>3. \A u \in Snipped' : curr'[u] = curr[u]
    BY <2>1 DEF Snipped
  <2> QED
    BY <2>2, <2>3, PrivateSame DEF Unlinked
<1>8. \A u, n : Safe(u, n)' = Safe(u, n)
  BY <1>0, <1>3, <1>6, <1>7 DEF Safe
<1>9. Contents' = Contents
  <2>1. \A m \in Listed' \cap Nodes : ~ next'[m].mark <=> ~ next[m].mark
    BY <1>2, <1>3, <1>4, <1>6
  <2>2. {m \in Listed' \cap Nodes : ~ next'[m].mark} = {m \in Listed \cap Nodes : ~ next[m].mark}
    BY <1>1, <1>6, <2>1
  <2> QED
    BY <2>2 DEF Contents
<1>10. \A x \in AllNode : From(x)' \subseteq From(x)
  <2> SUFFICES ASSUME NEW x \in AllNode PROVE From(x)' \subseteq From(x)
    OBVIOUS
  <2>1. From(x) \subseteq AllNode /\ Closed(AllNode, From(x), Link, x)
    BY FromChain, ChainClosed
  <2>2. ASSUME NEW m \in From(x), Link'[m] \in AllNode PROVE Link'[m] \in From(x)
    <3>1. CASE m = p
      <4>1. c \in From(x)
        BY <1>1, <1>5, <2>1, <3>1 DEF Closed
      <4> QED
        BY <1>5, <2>1, <2>2, <3>1, <4>1 DEF Closed
    <3>2. CASE m # p
      BY <1>5, <2>1, <2>2, <3>2 DEF Closed
    <3> QED
      BY <3>1, <3>2
  <2>3. Closed(AllNode, From(x), Link', x)
    BY <2>1, <2>2 DEF Closed
  <2>4. Chain(AllNode, Link', x) \subseteq From(x)
    BY <2>1, <2>3, ChainLeast
  <2> QED
    BY <2>4, FromChain
<1>11. ASSUME NEW m \in AllNode, NEW y \in Nat, Lacks(m, y)'
       PROVE  Lacks(m, y) \/ (m = p /\ Lacks(c, y))
  <2>1. CASE m # p
    BY <1>4, <1>11, <2>1 DEF Lacks
  <2>2. CASE m = p
    <3>1. key[p] < y /\ y < key[d]
      BY <1>4, <1>11, <2>2 DEF Lacks
    <3>2. CASE y < key[c]
      BY <1>1, <1>2, <2>2, <3>1, <3>2 DEF Lacks
    <3>3. CASE y = key[c]
      BY <1>1, <2>2, <3>3 DEF Lacks
    <3>4. CASE key[c] < y
      BY <1>3, <2>2, <3>1, <3>4 DEF Lacks
    <3> QED
      BY <1>3, <3>2, <3>3, <3>4
  <2> QED
    BY <2>1, <2>2
<1>12. ASSUME NEW u \in Threads, pc[u] # "idle" PROVE Steady(u)
  <2>1. k[u] \in Nat
    <3>1. k[u] \in Keys
      BY <1>12 DEF IInv, Locals, LocalsOf
    <3> QED
      BY <3>1, Names DEF Keys
  <2>2. ASSUME NEW n \in AllNode, Walkable(u, n) PROVE Walkable(u, n)'
    <3>1. ASSUME NEW m \in From(n)' PROVE Safe(u, m)' /\ (Lacks(m, k[u])' => FALSE \in seen[u])
      <4>1. m \in From(n) /\ m \in AllNode
        BY <1>0, <1>10, <3>1, FromFacts
      <4>2. m = p => c \in From(n)
        BY <1>0, <1>1, <1>2, <4>1, FromFacts
      <4>3. Lacks(m, k[u])' => FALSE \in seen[u]
        BY <1>11, <2>1, <2>2, <4>1, <4>2 DEF Walkable
      <4> QED
        BY <1>8, <2>2, <4>1, <4>3 DEF Walkable
    <3> QED
      BY <2>2, <3>1 DEF Walkable
  <2>3. ASSUME NEW n \in AllNode, next[n].mark PROVE next'[n] = next[n]
    BY <1>2, <1>4, <2>3
  <2> QED
    BY <1>8, <2>2, <2>3 DEF Steady
<1>13. Ends'
  BY <1>0, <1>3, <1>4, Names DEF Ends
<1>14. Rising'
  <2> SUFFICES ASSUME NEW n \in Listed' \ {TailNode}
               PROVE  next'[n].to \in AllNode /\ key[n] < key[next'[n].to]
    BY DEF Rising
  <2>1. CASE n = p
    BY <1>3, <1>4, <2>1
  <2>2. CASE n # p
    BY <1>0, <1>1, <1>3, <1>4, <1>6, <2>2 DEF Rising
  <2> QED
    BY <2>1, <2>2
<1>15. Dead'
  <2>1. ASSUME NEW m \in Ebr!Retired \cup Unlinked PROVE m \in AllNode \ {p}
    BY <1>0, <1>2, <2>1 DEF TypeOK, Conservation, AllNode, Dead
  <2>2. c \in AllNode \ {p} /\ d \in AllNode
    BY <1>1, <1>2, <1>3
  <2> QED
    BY <1>0, <1>1, <1>4, <1>7, <2>1, <2>2 DEF Dead
<1>16. Conservation'
  <2>1. \A u \in Snipped : curr[u] # c
    BY <1>0, <1>3 DEF Conservation, Unlinked
  <2>2. \A u, w \in Snipped' : curr'[u] = curr'[w] => u = w
    BY <1>0, <1>7, <2>1 DEF Conservation
  <2> QED
    BY <1>0, <1>1, <1>3, <1>6, <1>7, <2>2 DEF Conservation
<1>17. ASSUME NEW u \in Threads, node[u] \in Nodes PROVE next'[node[u]] = next[node[u]]
  <2>1. node[u] # p
    BY <1>0, <1>3, <1>17, Names DEF Conservation, Private
  <2> QED
    BY <1>4, <1>17, <2>1 DEF AllNode
<1>18. Gaps'
  <2>1. ASSUME NEW u \in Threads \ {t}, pc[u] = "enter", u \notin late', curr[u] \in Listed
        PROVE  curr[u] \in Listed'
    BY <1>6, <2>1
  <2> QED
    BY <2>1, GapsKept
<1> QED
  BY <1>1, <1>2, <1>4, <1>9, <1>12, <1>13, <1>14, <1>15, <1>16, <1>17, <1>18 DEF Firm

LEMMA FindUnlinkStep ==
    ASSUME IInv, NEW t \in Threads, FindUnlink(t)
    PROVE  IInv' /\ Contents' = Contents
<1>0. /\ TypeOK /\ LocalsOf(t) /\ UNCHANGED ebr /\ EbrOnly(t) /\ inside' = inside
  BY EbrSame DEF IInv, Locals, FindUnlink
<1>1. /\ pc[t] = "unlink" /\ op[t] # "lookup" /\ ret[t] = "none" /\ node[t] = NULL
      /\ t \in inside /\ k[t] \in Keys /\ (k[t] \in Contents) \in seen[t]
      /\ word[t] = next[curr[t]] /\ word[t].mark
      /\ key[curr[t]] > k[t] => FALSE \in seen[t]
      /\ UNCHANGED <<key, free, alive, op, k, pred, curr, word, node, ret, seen>>
  BY <1>0 DEF FindUnlink, LocalsOf, Walking, Firm, local
<1>2. CASE Linked(t)
  <2>1. /\ late' = late \cup {u \in Threads : pc[u] = "enter" /\ curr[u] = curr[t]}
        /\ Swap(t, word[t].to) /\ pc'[t] = "put" /\ pc' \in [Threads -> Points]
        /\ OnlyMoves(t)
    BY <1>0, <1>1, <1>2 DEF FindUnlink, Cut, Goto, TypeOK, Points, OnlyMoves, Same
  <2>2. /\ curr[t] \in AllNode /\ Walkable(t, curr[t]) /\ alive /\ next' \in [AllNode -> Words]
        /\ pred[t] \in AllNode /\ Safe(t, pred[t]) /\ key[pred[t]] < k[t]
        /\ next'[curr[t]] = next[curr[t]]
        /\ Contents' = Contents
        /\ \A u \in Threads : Firm(u) => Steady(u)
        /\ \A u \in Threads : node[u] \in Nodes => next'[node[u]] = next[node[u]]
        /\ Ends' /\ Rising' /\ Dead' /\ Conservation' /\ Gaps'
    BY <1>0, <1>1, <1>2, <2>1, UnlinkFacts
  <2>3. Walkable(t, curr[t])' /\ Safe(t, pred[t])'
    BY <1>1, <2>2 DEF Steady, Firm
  <2>4. LocalsOf(t)' /\ AnswerOf(t)'
    BY <1>0, <1>1, <2>1, <2>2, <2>3 DEF LocalsOf, Walking, Firm, AnswerOf
  <2>5. TypeOK'
    BY <1>0, <1>1, <2>1, <2>2 DEF TypeOK, Points, EbrOnly
  <2> QED
    BY <1>0, <1>1, <2>1, <2>2, <2>4, <2>5, Assemble
<1>3. CASE ~ Linked(t)
  <2>1. /\ Retry(t) /\ UNCHANGED <<memory, alive, ebr, late, op, k, local, ret>> /\ UNCHANGED seen
    BY <1>3 DEF FindUnlink, memory, ebr
  <2>2. seen' \in [Threads -> SUBSET BOOLEAN] /\ next' = next /\ key' = key
    BY <1>0, <2>1 DEF TypeOK, memory
  <2> QED
    BY <1>1, <2>1, <2>2, RetryStep, MemorySame
<1> QED
  BY <1>2, <1>3

LEMMA RemoveSnipStep ==
    ASSUME IInv, NEW t \in Threads, RemoveSnip(t)
    PROVE  IInv' /\ Contents' = Contents
<1>0. /\ TypeOK /\ LocalsOf(t) /\ UNCHANGED ebr /\ EbrOnly(t) /\ inside' = inside
  BY EbrSame DEF IInv, Locals, RemoveSnip
<1>1. /\ pc[t] = "snip" /\ op[t] = "remove" /\ ret[t] = "yes" /\ node[t] = NULL
      /\ t \in inside /\ k[t] \in Keys /\ (k[t] \in Contents) \in seen[t]
      /\ UNCHANGED <<key, free, alive, op, k, seen>>
  BY <1>0 DEF RemoveSnip, LocalsOf, Walking, Firm
<1>2. CASE Linked(t)
  <2>1. /\ late' = late \cup {u \in Threads : pc[u] = "enter" /\ curr[u] = curr[t]}
        /\ Swap(t, word[t].to) /\ pc'[t] = "retire" /\ pc' \in [Threads -> Points]
        /\ UNCHANGED <<pred, curr, word, node, ret>> /\ OnlyMoves(t)
    BY <1>0, <1>1, <1>2
       DEF RemoveSnip, Unlinks, Cut, Goto, TypeOK, Points, OnlyMoves, Same, local
  <2>2. /\ curr[t] \in AllNode /\ Walkable(t, curr[t]) /\ alive /\ next' \in [AllNode -> Words]
        /\ Contents' = Contents
        /\ \A u \in Threads : Firm(u) => Steady(u)
        /\ \A u \in Threads : node[u] \in Nodes => next'[node[u]] = next[node[u]]
        /\ Ends' /\ Rising' /\ Dead' /\ Conservation' /\ Gaps'
    BY <1>0, <1>1, <1>2, <2>1, UnlinkFacts
  <2>4. LocalsOf(t)' /\ AnswerOf(t)'
    BY <1>0, <1>1, <2>1, <2>2 DEF LocalsOf, Walking, Firm, AnswerOf
  <2>5. TypeOK'
    BY <1>0, <1>1, <2>1, <2>2 DEF TypeOK, Points, EbrOnly
  <2> QED
    BY <1>0, <1>1, <2>1, <2>2, <2>4, <2>5, Assemble
<1>3. CASE ~ Linked(t)
  <2>1. next' = next
    BY <1>3 DEF RemoveSnip
  <2> QED
    BY <1>1, <1>3, <2>1, SnipLostStep, MemorySame
<1> QED
  BY <1>2, <1>3

-----------------------------------------------------------------------------
(* The swap that puts a node between two others. *)
LEMMA PutStep ==
    ASSUME IInv, NEW t \in Threads, Insert(t), Linked(t)
    PROVE  /\ IInv'
           /\ k[t] \notin Contents /\ Contents' = Contents \cup {k[t]}
<1> DEFINE p == pred[t]
           c == curr[t]
           n == node[t]
<1>0. /\ TypeOK /\ LocalsOf(t) /\ UNCHANGED ebr /\ EbrOnly(t) /\ inside' = inside
      /\ Ends /\ Rising /\ Dead /\ Conservation
  BY EbrSame DEF IInv, Locals, Insert
<1>1. /\ pc[t] = "insert" /\ op[t] = "insert" /\ Finish(t, "yes") /\ Swap(t, n)
      /\ UNCHANGED <<key, free, alive, late, op, k>> /\ Observe
      /\ alive /\ t \in inside /\ k[t] \in Keys
      /\ n \in Nodes /\ next[n] = Plain(c) /\ key[n] = k[t]
      /\ Walkable(t, c) /\ c \in AllNode /\ key[c] > k[t]
      /\ p \in AllNode /\ Safe(t, p) /\ key[p] < k[t]
  BY <1>0 DEF Insert, LocalsOf, Walking, Firm, Walkable
<1>2. ~ next[p].mark /\ next[p].to = c
  BY <1>1 DEF Linked, Plain
<1>3. /\ p \in Listed /\ p # TailNode /\ c \in Listed /\ Listed \subseteq AllNode
      /\ n \in AllNode /\ n \notin Known /\ n # p /\ n # TailNode /\ n # HeadNode
      /\ k[t] \in Nat /\ key[p] \in Nat /\ key[c] \in Nat
  <2>1. p \in Listed
    BY <1>1, <1>2, SafeListed
  <2>2. p # TailNode
    BY <1>0, <1>1, <1>2, Names DEF Ends, Plain
  <2>3. c \in Listed /\ Listed \subseteq AllNode
    BY <1>0, <1>1, <1>2, <2>1, <2>2, ListFacts
  <2>4. n \in Private
    BY <1>1, Names DEF Private
  <2>5. n \in AllNode /\ n \notin Known /\ n # TailNode /\ n # HeadNode
    BY <1>0, <1>1, <2>4, Names DEF Conservation, Known, AllNode
  <2>6. k[t] \in Nat /\ key[p] \in Nat /\ key[c] \in Nat
    BY <1>0, <1>1, LinkType, Names DEF Keys
  <2> QED
    BY <2>1, <2>2, <2>3, <2>5, <2>6 DEF Known
<1>4. /\ next'[p] = Plain(n) /\ next'[p].to = n /\ ~ next'[p].mark
      /\ \A m \in AllNode \ {p} : next'[m] = next[m]
      /\ next'[n].to = c /\ ~ next'[n].mark
      /\ next' \in [AllNode -> Words]
  <2>1. next' = [next EXCEPT ![p] = Plain(n)]
    BY <1>1 DEF Swap
  <2>2. \A m \in AllNode : Plain(m) \in Words /\ Plain(m).to = m /\ ~ Plain(m).mark
    BY Names DEF Plain, Words
  <2> QED
    BY <1>0, <1>1, <1>3, <2>1, <2>2 DEF TypeOK
<1>5. /\ Link[p] = c /\ Link'[p] = n /\ Link'[n] = c
      /\ \A m \in AllNode \ {p} : Link'[m] = Link[m]
  BY <1>0, <1>1, <1>2, <1>3, <1>4, LinkType, LinkNext
<1>6. Listed' = Listed \cup {n}
  <2>1. p \in Chain(AllNode, Link, HeadNode)
    BY <1>3, FromChain DEF Listed
  <2>2. \A m \in Chain(AllNode, Link, HeadNode) \ {p} : Link'[m] = Link[m]
    BY <1>3, <1>5, FromChain DEF Listed
  <2>3. Link'[p] \in AllNode /\ Link'[Link'[p]] = Link[p]
    BY <1>3, <1>5
  <2>4. Chain(AllNode, Link', HeadNode) = Chain(AllNode, Link, HeadNode) \cup {Link'[p]}
    BY <2>1, <2>2, <2>3, ChainInsert
  <2> QED
    BY <1>5, <2>4, FromChain DEF Listed
<1>7. k[t] \notin Contents /\ Contents' = Contents \cup {k[t]}
  <2>1. Lacks(p, k[t])
    BY <1>1, <1>2 DEF Lacks
  <2>2. k[t] \notin Contents
    BY <1>0, <1>1, <1>3, <2>1, LacksListed
  <2>3. \A m \in Listed : ~ next'[m].mark <=> ~ next[m].mark
    BY <1>2, <1>3, <1>4
  <2>4. {m \in Listed' \cap Nodes : ~ next'[m].mark}
            = {m \in Listed \cap Nodes : ~ next[m].mark} \cup {n}
    BY <1>1, <1>4, <1>6, <2>3
  <2> QED
    BY <1>1, <2>2, <2>4 DEF Contents
<1>8. \A u \in Threads : /\ seen[u] \subseteq seen'[u]
                         /\ pc[u] = "idle" => seen'[u] = seen[u]
                         /\ pc[u] # "idle" => (k[u] \in Contents') \in seen'[u]
  BY <1>1, ObserveAll
<1>9. /\ pc'[t] = "exit" /\ ret'[t] = "yes" /\ node'[t] = NULL /\ OnlyMoves(t)
  BY <1>0, <1>1, <1>8, FinishType DEF OnlyMoves, Same
<1>10. /\ Snipped' = Snipped /\ Unlinked' = Unlinked /\ Ebr!Retired' = Ebr!Retired
       /\ \A u \in Snipped : curr'[u] = curr[u]
       /\ Private' = Private \ {n} /\ n \in Private
       /\ \A u, w \in Threads : node'[u] = node'[w] /\ node'[u] # NULL => u = w
  <2>1. node' = [node EXCEPT ![t] = NULL]
    BY <1>1 DEF Finish
  <2> QED
    BY <1>0, <1>1, <1>9, <2>1, HandsSame, PrivateDrop DEF EbrOnly
<1>11. \A u, m : /\ Safe(u, m) \/ m = n => Safe(u, m)'
                 /\ Safe(u, m) => m # n
  <2>1. waits' = waits
    BY <1>0 DEF ebr
  <2> QED
    BY <1>3, <1>6, <1>10, <2>1 DEF Safe, Known
<1>12. ASSUME NEW x \in AllNode, n \notin From(x), p \notin From(x)
       PROVE  From(x)' = From(x)
  <2>1. \A m \in From(x) : Link'[m] = Link[m]
    BY <1>0, <1>5, <1>12, FromFacts
  <2> QED
    BY <2>1, FromChain, ChainFrame
<1>13. ASSUME NEW x \in AllNode, p \in From(x)
       PROVE  From(x)' \subseteq From(x) \cup {n}
  <2> DEFINE C == From(x) \cup {n}
  <2>1. From(x) \subseteq AllNode /\ Closed(AllNode, From(x), Link, x)
    BY FromChain, ChainClosed
  <2>2. c \in From(x)
    BY <1>1, <1>5, <1>13, <2>1 DEF Closed
  <2>3. ASSUME NEW m \in C, Link'[m] \in AllNode PROVE Link'[m] \in C
    <3>1. CASE m = p \/ m = n
      BY <1>5, <2>2, <3>1
    <3>2. CASE m # p /\ m # n
      BY <1>5, <2>1, <2>3, <3>2 DEF Closed
    <3> QED
      BY <3>1, <3>2
  <2>4. Closed(AllNode, C, Link', x) /\ C \subseteq AllNode
    BY <1>3, <2>1, <2>3 DEF Closed
  <2>5. Chain(AllNode, Link', x) \subseteq C
    BY <2>4, ChainLeast
  <2> QED
    BY <2>5, FromChain
<1>14. ASSUME NEW m \in AllNode, NEW y \in Nat, Lacks(m, y)'
       PROVE  Lacks(m, y) \/ (m = n /\ Lacks(p, y))
  <2>1. CASE m = n
    <3>1. k[t] < y /\ y < key[c]
      BY <1>1, <1>4, <1>14, <2>1 DEF Lacks
    <3> QED
      BY <1>1, <1>2, <1>3, <2>1, <3>1 DEF Lacks
  <2>2. CASE m = p
    <3>1. key[p] < y /\ y < k[t]
      BY <1>1, <1>4, <1>14, <2>2 DEF Lacks
    <3> QED
      BY <1>1, <1>2, <1>3, <2>2, <3>1 DEF Lacks
  <2>3. CASE m # n /\ m # p
    BY <1>1, <1>4, <1>14, <2>3 DEF Lacks
  <2> QED
    BY <2>1, <2>2, <2>3
<1>15. ASSUME NEW u \in Threads, pc[u] # "idle" PROVE Steady(u)
  <2>1. k[u] \in Nat /\ k'[u] = k[u]
    <3>1. k[u] \in Keys
      BY <1>15 DEF IInv, Locals, LocalsOf
    <3> QED
      BY <1>1, <3>1, Names DEF Keys
  <2>2. ASSUME NEW x \in AllNode, Walkable(u, x) PROVE Walkable(u, x)'
    <3>1. \A m \in From(x) : Safe(u, m) /\ m \in AllNode /\ m # n
      BY <1>0, <1>11, <2>2, FromFacts DEF Walkable
    <3>2. ASSUME NEW m \in From(x)' PROVE Safe(u, m)' /\ (Lacks(m, k[u])' => FALSE \in seen[u])
      <4>1. CASE m \in From(x)
        BY <1>11, <1>14, <2>1, <2>2, <3>1, <4>1 DEF Walkable
      <4>2. CASE m \notin From(x)
        <5>1. m = n /\ p \in From(x)
          BY <1>12, <1>13, <3>1, <3>2, <4>2
        <5>2. Lacks(m, k[u])' => Lacks(n, k[u]) \/ Lacks(p, k[u])
          BY <1>3, <1>14, <2>1, <5>1
        <5>3. ~ Lacks(n, k[u]) \/ Lacks(p, k[u])
          BY <1>1, <1>2, <1>3, <2>1 DEF Lacks, Plain
        <5> QED
          BY <1>11, <2>2, <5>1, <5>2, <5>3 DEF Walkable
      <4> QED
        BY <4>1, <4>2
    <3> QED
      BY <1>8, <2>1, <2>2, <3>2 DEF Walkable
  <2>3. ASSUME NEW m \in AllNode, next[m].mark PROVE next'[m] = next[m]
    BY <1>2, <1>4, <2>3
  <2> QED
    BY <1>1, <1>11, <2>2, <2>3 DEF Steady
<1>16. Ends'
  BY <1>0, <1>1, <1>3, <1>4, Names DEF Ends
<1>17. Rising'
  <2> SUFFICES ASSUME NEW m \in Listed' \ {TailNode}
               PROVE  next'[m].to \in AllNode /\ key[m] < key[next'[m].to]
    BY <1>1 DEF Rising
  <2>1. CASE m = p
    BY <1>1, <1>3, <1>4, <2>1
  <2>2. CASE m = n
    BY <1>1, <1>3, <1>4, <2>2
  <2>3. CASE m # p /\ m # n
    BY <1>0, <1>1, <1>3, <1>4, <1>6, <2>3 DEF Rising
  <2> QED
    BY <2>1, <2>2, <2>3
<1>18. Dead'
  <2>1. ASSUME NEW m \in Ebr!Retired \cup Unlinked PROVE m \in AllNode \ {p}
    BY <1>0, <1>2, <2>1 DEF TypeOK, Conservation, AllNode, Dead
  <2> QED
    BY <1>0, <1>4, <1>10, <2>1 DEF Dead
<1>19. Conservation'
  BY <1>0, <1>1, <1>3, <1>6, <1>10 DEF Conservation, Known
<1>20. ASSUME NEW u \in Threads \ {t}, node[u] \in Nodes
       PROVE  next'[node[u]] = next[node[u]] /\ key'[node[u]] = key[node[u]]
  <2>1. node[u] # p
    BY <1>0, <1>3, <1>20, Names DEF Conservation, Private
  <2> QED
    BY <1>1, <1>4, <1>20, <2>1 DEF AllNode
<1>21. LocalsOf(t)' /\ AnswerOf(t)'
  BY <1>0, <1>1, <1>8, <1>9, FinishLocals DEF AnswerOf
<1>22. TypeOK'
  <2>1. seen' \in [Threads -> SUBSET BOOLEAN]
    BY <1>0, <1>1, ObserveType
  <2> QED
    BY <1>0, <1>1, <1>4, <2>1, FinishType DEF TypeOK, EbrOnly, Points
<1>23. Gaps'
  BY <1>1, <1>6, <1>7, <1>9, GapsKept
<1> QED
  BY <1>0, <1>1, <1>7, <1>9, <1>15, <1>16, <1>17, <1>18, <1>19, <1>20, <1>21, <1>22, <1>23,
     Assemble
     DEF Firm

LEMMA InsertStep ==
    ASSUME IInv, NEW t \in Threads, Insert(t)
    PROVE  IInv'
BY PutStep, InsertLostStep

-----------------------------------------------------------------------------
(* Nobody is in a call when the list is destroyed. *)
LEMMA DestroyStep ==
    ASSUME IInv, Destroy
    PROVE  IInv'
<1>0. /\ TypeOK /\ Ends /\ Conservation
      /\ \A t \in Threads : LocalsOf(t)
  BY DEF IInv, Locals
<1>1. /\ alive' = FALSE /\ \A t \in Threads : pc[t] = "idle"
      /\ free' = free \cup (Listed \cap Nodes) \cup Ebr!Retired
      /\ next' = [n \in AllNode |-> Plain(NULL)]
      /\ UNCHANGED <<key, inside, pc, late, op, k, pred, curr, word, node, ret, seen>>
  BY DEF Destroy, local
<1>2. Ebr!Retired' = {} /\ waits' \in [Ebr!Retired' -> SUBSET Threads]
  <2>1. waits' = <<>>
    BY DEF Destroy
  <2> QED
    BY <2>1 DEF Ebr!Retired
<1>3. \A n \in AllNode : next'[n] = Plain(NULL) /\ next'[n].to = NULL /\ ~ next'[n].mark
  BY <1>1 DEF Plain
<1>4. Listed' = {HeadNode}
  <2>1. Link'[HeadNode] \notin AllNode
    BY <1>3, Names, LinkNext
  <2>2. Chain(AllNode, Link', HeadNode) = {HeadNode}
    BY <2>1, Names, ChainCons, ChainEmpty
  <2> QED
    BY <2>2, FromChain DEF Listed
<1>5. \A t \in Threads : node[t] = NULL /\ ret[t] = "none" /\ seen[t] = {}
  BY <1>0, <1>1 DEF LocalsOf
<1>6. Snipped' = {} /\ Unlinked' = {} /\ Private' = {}
  BY <1>1, <1>5 DEF Snipped, Unlinked, Private
<1>7. TypeOK'
  <2>1. next' \in [AllNode -> Words]
    BY <1>1 DEF Words, Plain, Pointer
  <2> QED
    BY <1>0, <1>1, <1>2, <2>1 DEF TypeOK
<1>8. Ends' /\ Rising' /\ Dead'
  BY <1>0, <1>1, <1>2, <1>3, <1>6, Names DEF Ends, Rising, Dead
<1>9. Conservation'
  BY <1>0, <1>1, <1>2, <1>4, <1>5, <1>6, Names DEF Conservation
<1>10. Locals'
  BY <1>1, <1>5 DEF Locals, LocalsOf, AnswerOf, Walking, Firm
<1>11. Gaps'
  BY <1>1 DEF Gaps
<1> QED
  BY <1>7, <1>8, <1>9, <1>10, <1>11 DEF IInv

LEMMA InitFacts ==
    ASSUME Init
    PROVE  IInv /\ Contents = {}
<1>0. Ebr!Retired = {} /\ inside = {} /\ waits \in [Ebr!Retired -> SUBSET Threads]
  BY DEF Init, Ebr!Init, Ebr!Retired
<1>1. /\ next[HeadNode] = Plain(TailNode) /\ next[TailNode] = Plain(NULL)
      /\ next[HeadNode].to = TailNode /\ ~ next[HeadNode].mark
      /\ next[TailNode].to = NULL
      /\ key[HeadNode] = 0 /\ key[TailNode] = MaxKey + 1 /\ \A n \in Nodes : key[n] = 0
  BY Names DEF Init, Plain, AllNode
<1>2. TypeOK
  <2>1. next \in [AllNode -> Words]
    <3>1. \A x \in Pointer : Plain(x) \in Words
      BY DEF Plain, Words
    <3>2. NULL \in Pointer /\ TailNode \in Pointer
      BY Names DEF Pointer
    <3>3. \A n \in AllNode : Plain(IF n = HeadNode THEN TailNode ELSE NULL) \in Words
      BY <3>1, <3>2
    <3> QED
      BY <3>3 DEF Init
  <2>2. key \in [AllNode -> 0 .. MaxKey + 1] /\ k \in [Threads -> 0 .. MaxKey]
    BY Names DEF Init
  <2>3. word \in [Threads -> Words] /\ NULL \in Pointer
    BY DEF Init, Words, Plain, Pointer
  <2> QED
    BY <1>0, <2>1, <2>2, <2>3 DEF Init, TypeOK
<1>3. Listed = {HeadNode, TailNode}
  <2>1. Link[HeadNode] = TailNode /\ Link[TailNode] \notin AllNode
    BY <1>1, <1>2, Names, LinkType
  <2>2. Chain(AllNode, Link, TailNode) = {TailNode}
    BY <2>1, Names, ChainCons, ChainEmpty
  <2>3. Chain(AllNode, Link, HeadNode) = {HeadNode, TailNode}
    BY <2>1, <2>2, Names, ChainCons
  <2> QED
    BY <2>3, FromChain DEF Listed
<1>4. Ends /\ Rising
  BY <1>1, <1>3, Names DEF Ends, Rising
<1>5. Snipped = {} /\ Unlinked = {} /\ Private = {}
  BY DEF Init, Snipped, Unlinked, Private
<1>6. Dead /\ Conservation
  BY <1>0, <1>3, <1>5, Names DEF Init, Dead, Conservation
<1>7. Locals
  BY DEF Init, Locals, LocalsOf, AnswerOf, Walking, Firm
<1>8. Contents = {}
  BY <1>3, Names DEF Contents
<1>9. Gaps
  BY DEF Init, Gaps
<1> QED
  BY <1>2, <1>4, <1>6, <1>7, <1>8, <1>9 DEF IInv

LEMMA StepIInv ==
    ASSUME IInv, [Next]_vars
    PROVE  IInv'
<1>1. CASE UNCHANGED vars
  <2>1. /\ next' = next /\ key' = key /\ free' = free /\ alive' = alive
        /\ inside' = inside /\ waits' = waits /\ pc' = pc /\ op' = op /\ k' = k
        /\ pred' = pred /\ curr' = curr /\ word' = word /\ node' = node
        /\ ret' = ret /\ seen' = seen /\ late' = late
    BY <1>1 DEF vars, memory, ebr, local
  <2>2. /\ Listed' = Listed /\ Contents' = Contents /\ \A n : From(n)' = From(n)
        /\ Snipped' = Snipped /\ Unlinked' = Unlinked /\ Private' = Private
        /\ Ebr!Retired' = Ebr!Retired
        /\ \A n, x : Lacks(n, x)' = Lacks(n, x)
    BY <2>1, MemorySame DEF Snipped, Unlinked, Private, Ebr!Retired
  <2>3. \A t, n : Safe(t, n)' = Safe(t, n)
    BY <2>1, <2>2 DEF Safe
  <2>4. \A t, n : Walkable(t, n)' = Walkable(t, n)
    BY <2>1, <2>2, <2>3 DEF Walkable
  <2>5. \A t \in Threads : LocalsOf(t)' /\ AnswerOf(t)'
    <3>1. \A t \in Threads : AnswerOf(t)'
      BY <2>1 DEF IInv, Locals, AnswerOf
    <3>2. \A t \in Threads : LocalsOf(t)'
      BY <2>1, <2>2, <2>3, <2>4 DEF IInv, Locals, LocalsOf, Firm
    <3> QED
      BY <3>1, <3>2
  <2>6. TypeOK' /\ Ends' /\ Rising' /\ Dead' /\ Conservation' /\ Gaps'
    BY <2>1, <2>2 DEF IInv, TypeOK, Ends, Rising, Dead, Conservation, Gaps
  <2> QED
    BY <2>5, <2>6 DEF IInv, Locals
<1>2. CASE Destroy
  BY <1>2, DestroyStep
<1>3. ASSUME NEW n \in Nodes, Collect(n) PROVE IInv'
  BY <1>3, CollectStep
<1>4. ASSUME NEW t \in Threads, Step(t) PROVE IInv'
  BY <1>4, UpdateStep, LookupStep, EnterStep, WalkStep, FindHeadStep, FindCurrStep,
     FindUnlinkStep, FindPutStep, AllocStep, InsertStep, RemoveLoadStep,
     RemoveMarkStep, RemoveSnipStep, RemovePutStep, ExitStep DEF Step
<1> QED
  BY <1>1, <1>2, <1>3, <1>4 DEF Next

-----------------------------------------------------------------------------
(* The inductive invariant holds in every reachable state. *)
THEOREM Invariance == Spec => []IInv
<1>1. Init => IInv
  BY InitFacts
<1>2. IInv /\ [Next]_vars => IInv'
  BY StepIInv
<1> QED
  BY <1>1, <1>2, PTL DEF Spec

(* What a thread stands on is not free, but for a lookup that is late.      *)
LEMMA Stands ==
    ASSUME IInv, NEW t \in Threads
    PROVE  /\ pc[t] \in Walking /\ Firm(t) => curr[t] \notin free
           /\ pc[t] \in Walking \ {"walk"} => pred[t] \notin free
<1>1. ASSUME pc[t] \in Walking, Firm(t)
      PROVE  curr[t] \notin free
  <2>1. Walkable(t, curr[t])
    BY <1>1 DEF IInv, Locals, LocalsOf
  <2>2. Safe(t, curr[t])
    BY <2>1, FromFacts DEF IInv, Walkable
  <2> QED
    BY <2>2, SafeKnown
<1>2. ASSUME pc[t] \in Walking \ {"walk"}
      PROVE  pred[t] \notin free
  <2>1. Safe(t, pred[t])
    BY <1>2 DEF IInv, Locals, LocalsOf
  <2> QED
    BY <2>1, SafeKnown
<1> QED
  BY <1>1, <1>2

(* No insert or removal reads or swaps a word of a node that was freed,    *)
(* although marked nodes are walked over while others unlink and retire    *)
(* them, and no lookup that is not late reads one, whatever the others do. *)
THEOREM MemorySafety == Spec => []NoUseAfterFree
<1>1. IInv => NoUseAfterFree
  BY Stands DEF NoUseAfterFree, Walking, Firm
<1> QED
  BY <1>1, Invariance, PTL

(* Every node is in one place: none is lost, retired twice or freed twice. *)
THEOREM NothingLost == Spec => []Conservation
<1>1. IInv => Conservation
  BY DEF IInv
<1> QED
  BY <1>1, Invariance, PTL

(* The chain is strictly sorted, whatever inserts and removals overlap. *)
THEOREM Order == Spec => []Sorted
<1>1. IInv => Sorted
  BY DEF IInv, Sorted, Rising
<1> QED
  BY <1>1, Invariance, PTL

(* Every refusal of an insert or a removal, and every answer of a lookup   *)
(* that is not late, was right at some moment of the call.                 *)
THEOREM Answered == Spec => []AnswersHappened
<1>1. IInv => AnswersHappened
  BY DEF IInv, Locals, AnswerOf, AnswersHappened
<1> QED
  BY <1>1, Invariance, PTL

-----------------------------------------------------------------------------
(* The refinement of LinearSet.  What a call has answered so far. *)
Judge(r, o) == CASE r = "yes" /\ o # "lookup" -> "changed"
                 [] r = "no" \/ (r = "yes" /\ o = "lookup") -> "failed"
                 [] OTHER -> "none"

Others(t) == \A u \in Threads \ {t} : ret'[u] = ret[u] /\ op'[u] = op[u]

LEMMA Judged ==
    /\ \A o : Judge("none", o) = "none" /\ Judge("no", o) = "failed"
    /\ \A o : o # "lookup" => Judge("yes", o) = "changed"
    /\ Judge("yes", "lookup") = "failed"
BY DEF Judge

LEMMA OutcomeMoves ==
    ASSUME NEW t \in Threads, Others(t)
    PROVE  /\ Outcome[t] = Judge(ret[t], op[t])
           /\ Outcome' = [Outcome EXCEPT ![t] = Judge(ret'[t], op'[t])]
<1>1. Outcome = [u \in Threads |-> Judge(ret[u], op[u])]
  BY DEF Outcome, Judge
<1>2. Outcome' = [u \in Threads |-> Judge(ret'[u], op'[u])]
  BY DEF Outcome, Judge
<1> QED
  BY <1>1, <1>2 DEF Others

(* A step that decides nothing. *)
LEMMA Stutters ==
    ASSUME NEW t \in Threads, Others(t), Contents' = Contents,
           Judge(ret'[t], op'[t]) = Judge(ret[t], op[t])
    PROVE  UNCHANGED <<Contents, Outcome>>
<1>1. Outcome' = [Outcome EXCEPT ![t] = Outcome[t]]
  BY OutcomeMoves
<1>2. Outcome' = Outcome
  BY <1>1 DEF Outcome
<1> QED
  BY <1>2

(* A step that answers without a change. *)
LEMMA Fails ==
    ASSUME NEW t \in Threads, Others(t), Contents' = Contents, ret[t] = "none",
           Judge(ret'[t], op'[t]) = "failed"
    PROVE  Set!Next
<1>1. Set!Fail(t)
  BY OutcomeMoves, Judged DEF Set!Fail, Set!Decide
<1> QED
  BY <1>1 DEF Set!Next

LEMMA InsertRefines ==
    ASSUME IInv, NEW t \in Threads, Insert(t)
    PROVE  Set!Next \/ UNCHANGED <<Contents, Outcome>>
<1>1. TypeOK /\ ret[t] = "none" /\ op[t] = "insert" /\ op' = op /\ k[t] \in Keys
  BY DEF IInv, Locals, LocalsOf, Insert
<1>2. CASE Linked(t)
  <2>1. Finish(t, "yes")
    BY <1>2 DEF Insert
  <2>2. Others(t) /\ ret'[t] = "yes"
    BY <1>1, <2>1, FinishType DEF Others
  <2>3. Set!Insert(t, k[t])
    BY <1>1, <1>2, <2>2, PutStep, OutcomeMoves, Judged DEF Set!Insert, Set!Decide
  <2> QED
    BY <1>1, <2>3 DEF Set!Next
<1>3. CASE ~ Linked(t)
  <2>1. next' = next /\ key' = key /\ ret' = ret
    BY <1>3 DEF Insert
  <2> QED
    BY <1>1, <2>1, MemorySame, Stutters DEF Others
<1> QED
  BY <1>2, <1>3

LEMMA MarkRefines ==
    ASSUME IInv, NEW t \in Threads, RemoveMark(t)
    PROVE  Set!Next \/ UNCHANGED <<Contents, Outcome>>
<1>1. TypeOK /\ ret[t] = "none" /\ op[t] = "remove" /\ op' = op /\ k[t] \in Keys
  BY DEF IInv, Locals, LocalsOf, RemoveMark
<1>2. CASE next[curr[t]] = Plain(word[t].to)
  <2>1. ret' = [ret EXCEPT ![t] = "yes"]
    BY <1>2 DEF RemoveMark
  <2>2. Others(t) /\ ret'[t] = "yes"
    BY <1>1, <2>1 DEF Others, TypeOK
  <2>3. Set!Remove(t, k[t])
    BY <1>1, <1>2, <2>2, MarkStep, OutcomeMoves, Judged DEF Set!Remove, Set!Decide
  <2> QED
    BY <1>1, <2>3 DEF Set!Next
<1>3. CASE next[curr[t]] # Plain(word[t].to)
  <2>1. next' = next /\ key' = key /\ ret' = ret
    BY <1>3 DEF RemoveMark
  <2> QED
    BY <1>1, <2>1, MemorySame, Stutters DEF Others
<1> QED
  BY <1>2, <1>3

(* The steps that answer without a change, or not at all. *)
LEMMA WalkRefines ==
    ASSUME IInv, NEW t \in Threads, Walk(t)
    PROVE  Set!Next \/ UNCHANGED <<Contents, Outcome>>
<1>1. TypeOK /\ ret[t] = "none" /\ op[t] = "lookup" /\ op' = op /\ Contents' = Contents
  BY MemorySame DEF IInv, Locals, LocalsOf, Walk, memory
<1>2. CASE key[curr[t]] < k[t]
  <2>1. ret' = ret
    BY <1>2 DEF Walk
  <2> QED
    BY <1>1, <2>1, Stutters DEF Others
<1>3. CASE ~ (key[curr[t]] < k[t])
  <2>1. PICK r \in {"yes", "no"} : Finish(t, r)
    BY <1>3 DEF Walk
  <2>2. Others(t) /\ ret'[t] = r
    BY <1>1, <2>1, FinishType DEF Others
  <2> QED
    BY <1>1, <2>2, Judged, Fails
<1> QED
  BY <1>2, <1>3

LEMMA FindCurrRefines ==
    ASSUME IInv, NEW t \in Threads, FindCurr(t)
    PROVE  Set!Next \/ UNCHANGED <<Contents, Outcome>>
<1>1. TypeOK /\ ret[t] = "none" /\ op' = op /\ Contents' = Contents
  BY MemorySame DEF IInv, Locals, LocalsOf, FindCurr, memory
<1>2. CASE ret' = ret
  BY <1>1, <1>2, Stutters DEF Others
<1>3. CASE Finish(t, "no")
  <2>1. Others(t) /\ ret'[t] = "no"
    BY <1>1, <1>3, FinishType DEF Others
  <2> QED
    BY <1>1, <2>1, Judged, Fails
<1> QED
  BY <1>2, <1>3 DEF FindCurr, local

(* The removal answered when it marked its node. *)
LEMMA SnipRefines ==
    ASSUME IInv, NEW t \in Threads, RemoveSnip(t) \/ RemovePut(t)
    PROVE  UNCHANGED <<Contents, Outcome>>
<1>1. TypeOK /\ ret[t] = "yes" /\ op' = op
  BY DEF IInv, Locals, LocalsOf, RemoveSnip, RemovePut
<1>2. Contents' = Contents
  <2>1. CASE RemoveSnip(t)
    BY <2>1, RemoveSnipStep
  <2>2. CASE RemovePut(t)
    BY <2>2, MemorySame DEF RemovePut, memory
  <2> QED
    BY <2>1, <2>2
<1>3. CASE ret' = ret
  BY <1>1, <1>2, <1>3, Stutters DEF Others
<1>4. CASE Finish(t, "yes")
  <2>1. Others(t) /\ ret'[t] = "yes"
    BY <1>1, <1>4, FinishType DEF Others
  <2> QED
    BY <1>1, <1>2, <2>1, Stutters
<1> QED
  BY <1>3, <1>4 DEF RemoveSnip, RemovePut

LEMMA CallRefines ==
    ASSUME IInv, NEW t \in Threads, Update(t) \/ Lookup(t) \/ Exit(t)
    PROVE  Set!Next \/ UNCHANGED <<Contents, Outcome>>
<1>1. TypeOK /\ Contents' = Contents
  BY MemorySame DEF IInv, Update, Lookup, Exit, Call, memory
<1>2. CASE Update(t) \/ Lookup(t)
  <2>1. PICK o : Call(t, o)
    BY <1>2 DEF Update, Lookup
  <2>2. /\ ret[t] = "none" /\ ret' = ret
        /\ \A u \in Threads \ {t} : op'[u] = op[u]
    <3>1. pc[t] = "idle" /\ ret' = ret /\ op' = [op EXCEPT ![t] = o]
      BY <2>1 DEF Call
    <3>2. ret[t] = "none"
      BY <3>1 DEF IInv, Locals, LocalsOf
    <3> QED
      BY <1>1, <3>1, <3>2 DEF TypeOK
  <2> QED
    BY <1>1, <2>2, Judged, Stutters DEF Others
<1>3. CASE Exit(t)
  <2>1. Others(t) /\ ret'[t] = "none"
    BY <1>1, <1>3 DEF Exit, Others, TypeOK
  <2>2. Set!Return(t)
    BY <1>1, <2>1, OutcomeMoves, Judged DEF Set!Return
  <2> QED
    BY <2>2 DEF Set!Next
<1> QED
  BY <1>2, <1>3

LEMMA QuietRefines ==
    ASSUME IInv, NEW t \in Threads,
           \/ Enter(t) \/ FindHead(t) \/ FindUnlink(t) \/ FindPut(t) \/ Alloc(t)
           \/ RemoveLoad(t)
    PROVE  UNCHANGED <<Contents, Outcome>>
<1>1. op' = op /\ ret' = ret
  BY DEF Enter, FindHead, FindUnlink, FindPut, Alloc, RemoveLoad, local
<1>2. Contents' = Contents
  <2>1. CASE FindUnlink(t)
    BY <2>1, FindUnlinkStep
  <2>2. CASE Alloc(t)
    BY <2>2, AllocStep
  <2>3. CASE Enter(t) \/ FindHead(t) \/ FindPut(t) \/ RemoveLoad(t)
    BY <2>3, MemorySame DEF Enter, FindHead, FindPut, RemoveLoad, memory
  <2> QED
    BY <2>1, <2>2, <2>3
<1> QED
  BY <1>1, <1>2, Stutters DEF Others

LEMMA StepRefines ==
    ASSUME IInv, [Next]_vars
    PROVE  [Set!Next \/ ~ alive']_<<Contents, Outcome>>
<1>1. CASE UNCHANGED vars
  <2>1. next' = next /\ key' = key /\ ret' = ret /\ op' = op
    BY <1>1 DEF vars, memory
  <2>2. Outcome' = Outcome
    BY <2>1 DEF Outcome
  <2> QED
    BY <2>1, <2>2, MemorySame
<1>2. CASE Destroy
  BY <1>2 DEF Destroy
<1>3. ASSUME NEW n \in Nodes, Collect(n) PROVE UNCHANGED <<Contents, Outcome>>
  <2>1. ret' = ret /\ op' = op
    BY <1>3 DEF Collect
  <2>2. Outcome' = Outcome
    BY <2>1 DEF Outcome
  <2> QED
    BY <1>3, <2>2, CollectStep
<1>4. ASSUME NEW t \in Threads, Step(t)
      PROVE  Set!Next \/ UNCHANGED <<Contents, Outcome>>
  BY <1>4, CallRefines, WalkRefines, FindCurrRefines, InsertRefines, MarkRefines,
     SnipRefines, QuietRefines DEF Step
<1> QED
  BY <1>1, <1>2, <1>3, <1>4 DEF Next

(* The list implements LinearSet until ll_destroy: an insert that returns  *)
(* 0 adds its key by one swap, a removal takes its key out by one mark,    *)
(* and no unlinking, retirement or failed swap changes the set.            *)
THEOREM Refinement == Spec => ImplementsSet
<1>1. Init => Set!Init
  <2>1. Init => Outcome = [t \in Threads |-> "none"]
    BY DEF Init, Outcome
  <2> QED
    BY <2>1, InitFacts DEF Set!Init
<1>2. IInv /\ [Next]_vars => [Set!Next \/ ~ alive']_<<Contents, Outcome>>
  BY StepRefines
<1> QED
  BY <1>1, <1>2, Invariance, PTL DEF Spec, ImplementsSet
=============================================================================
