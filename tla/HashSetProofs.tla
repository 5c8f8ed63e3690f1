---------------------------- MODULE HashSetProofs ----------------------------
(***************************************************************************)
(* Proofs about HashSet: no assertion of get_bucket_list fails, making a   *)
(* bucket cuts nothing out of the list of bucket 0, and a bucket that is   *)
(* joined is a sound shortcut into it.                                     *)
(***************************************************************************)
EXTENDS HashSet, ChainTheorems

-----------------------------------------------------------------------------
(* The split order.                                                        *)
LEMMA Greatest ==
    ASSUME NEW n \in Nat, NEW S, S \subseteq Bits(n), S # {}
    PROVE  /\ \E i \in S : \A j \in S : j <= i
           /\ \E i \in S : \A j \in S : i <= j
<1> DEFINE R == {p \in Int \X Int : p[1] < p[2]}
           Q == {p \in Int \X Int : p[2] < p[1]}
<1>1. StrictOrder(R) /\ StrictOrder(Q)
  BY DEF StrictOrder
<1>2. IsFiniteSet(S) /\ S \subseteq Int
  <2>1. IsFiniteSet(0 .. n - 1)
    BY FS_Interval
  <2>2. S \subseteq 0 .. n - 1
    BY DEF Bits
  <2>3. IsFiniteSet(S)
    BY <2>1, <2>2, FS_Subset
  <2> QED
    BY <2>2, <2>3
<1>3. /\ \E i \in S : \A j \in S : <<i, j>> \notin R
      /\ \E i \in S : \A j \in S : <<i, j>> \notin Q
  <2> HIDE DEF R, Q
  <2> QED
    BY <1>1, <1>2, OrderLast
<1>4. PICK i \in S : \A j \in S : <<i, j>> \notin R
  BY <1>3
<1>5. PICK h \in S : \A j \in S : <<h, j>> \notin Q
  BY <1>3
<1>6. \A j \in S : ~ i < j /\ ~ j < h
  BY <1>2, <1>4, <1>5
<1>7. \A j \in S : j <= i /\ h <= j
  BY <1>2, <1>6
<1> QED
  BY <1>7

Words == SUBSET Bits(Width)

LEMMA LessOrder ==
    /\ \A v \in Words : ~ Less(v, v)
    /\ \A u, v, w \in Words : Less(u, v) /\ Less(v, w) => Less(u, w)
    /\ \A v, w \in Words : v = w \/ Less(v, w) \/ Less(w, v)
    /\ \A v, w \in Words : v \subseteq w /\ v # w => Less(v, w)
    /\ \A v, w \in Words : w \subseteq v => ~ Less(v, w)
<1> USE HashSetAssumption
<1>1. \A w \in Words : w \subseteq Int
  BY DEF Words, Bits
<1>2. ASSUME NEW u \in Words, NEW v \in Words, NEW w \in Words, Less(u, v), Less(v, w)
      PROVE  Less(u, w)
  <2>1. PICK i \in v \ u : \A j \in u \ v : j < i
    BY <1>2 DEF Less
  <2>2. PICK h \in w \ v : \A j \in v \ w : j < h
    BY <1>2 DEF Less
  <2>3. i \in Int /\ h \in Int /\ u \subseteq Int /\ v \subseteq Int /\ i # h
    BY <1>1, <2>1, <2>2
  <2>4. CASE h < i
    <3>1. i \in w \ u
      BY <2>1, <2>2, <2>3, <2>4
    <3>2. ASSUME NEW j \in u \ w PROVE j < i
      BY <2>1, <2>2, <2>3, <2>4
    <3> QED
      BY <3>1, <3>2 DEF Less
  <2>5. CASE i < h
    <3>1. h \in w \ u
      BY <2>1, <2>2, <2>3, <2>5
    <3>2. ASSUME NEW j \in u \ w PROVE j < h
      BY <2>1, <2>2, <2>3, <2>5
    <3> QED
      BY <3>1, <3>2 DEF Less
  <2> QED
    BY <2>3, <2>4, <2>5
<1>3. ASSUME NEW v \in Words, NEW w \in Words, v # w PROVE Less(v, w) \/ Less(w, v)
  <2> DEFINE S == (v \ w) \cup (w \ v)
  <2>1. S # {} /\ S \subseteq Bits(Width) /\ S \subseteq Int
    BY <1>1, <1>3 DEF Words
  <2>2. PICK i \in S : \A j \in S : j <= i
    BY <2>1, Greatest
  <2>3. \A j \in S : j # i => j < i
    BY <2>1, <2>2
  <2> QED
    BY <2>3 DEF Less
<1> QED
  BY <1>2, <1>3 DEF Less

LEMMA ReverseWords ==
    /\ \A w \in Words : Reverse(w) \in Words
    /\ \A v, w \in Words : Reverse(v) = Reverse(w) => v = w
    /\ \A v, w \in Words : v \subseteq w => Reverse(v) \subseteq Reverse(w)
<1> USE HashSetAssumption
<1>1. \A w \in Words : \A i \in w : i \in Int /\ Width - 1 - i \in Bits(Width)
  BY DEF Words, Bits
<1>2. ASSUME NEW v \in Words, NEW w \in Words, Reverse(v) = Reverse(w), NEW i \in v PROVE i \in w
  <2>1. Width - 1 - i \in Reverse(w)
    BY <1>2 DEF Reverse
  <2>2. PICK j \in w : Width - 1 - i = Width - 1 - j
    BY <2>1 DEF Reverse
  <2>3. i = j
    BY <1>1, <2>2
  <2> QED
    BY <2>3
<1>3. \A w \in Words : Reverse(w) \in Words
  BY <1>1 DEF Words, Reverse
<1>4. \A v, w \in Words : v \subseteq w => Reverse(v) \subseteq Reverse(w)
  BY DEF Reverse
<1>5. \A v, w \in Words : Reverse(v) = Reverse(w) => v = w
  <2> SUFFICES ASSUME NEW v \in Words, NEW w \in Words, Reverse(v) = Reverse(w) PROVE v = w
    OBVIOUS
  <2>1. \A i \in v : i \in w
    BY <1>2
  <2>2. \A i \in w : i \in v
    BY <1>2
  <2> QED
    BY <2>1, <2>2
<1> QED
  BY <1>3, <1>4, <1>5

(* A sentinel comes before the keys of its bucket and after the sentinel   *)
(* of its father; no two of the list keys are the same.                    *)
LEMMA KeyOrder ==
    /\ \A b \in Buckets : SetSentinelKey(b) \in Words /\ SetSentinelKey(b) # Bits(Width)
    /\ \A x \in Keys : SetKey(x) \in Words /\ SetKey(x) # Bits(Width)
    /\ \A b \in Buckets : b # {} => /\ Father(b) \in Buckets /\ Father(b) # b
                                    /\ Less(SetSentinelKey(Father(b)), SetSentinelKey(b))
    /\ \A x \in Keys, n \in MinBits .. MaxBits :
          /\ x \cap Bits(n) \in Buckets
          /\ Less(SetSentinelKey(x \cap Bits(n)), SetKey(x))
    /\ \A x \in Keys, b \in Buckets : SetSentinelKey(b) # SetKey(x)
    /\ \A b, c \in Buckets : SetSentinelKey(b) = SetSentinelKey(c) => b = c
    /\ \A x, y \in Keys : SetKey(x) = SetKey(y) => x = y
    /\ {} \in Buckets /\ {} \in Words /\ Bits(Width) \in Words /\ Bits(Width) # {}
<1> USE HashSetAssumption
<1>1. /\ Width - 1 \in Bits(Width) /\ 0 \in Bits(Width)
      /\ Width - 1 \notin Bits(MaxBits) /\ Width - 1 \notin Bits(Width - 1)
      /\ Bits(MaxBits) \subseteq Bits(Width) /\ Bits(Width - 1) \subseteq Bits(Width)
      /\ \A n \in MinBits .. MaxBits : Bits(n) \subseteq Bits(MaxBits)
      /\ Bits(Width) = Bits(Width - 1) \cup {Width - 1}
  BY DEF Bits
<1>2. \A b \in Buckets : b \in Words /\ Width - 1 \notin b
  BY <1>1 DEF Buckets, Words
<1>3. ASSUME NEW x \in Keys
      PROVE  x \cup {Width - 1} \in Words /\ Width - 1 \notin x /\ x # Bits(Width - 1)
  BY <1>1 DEF Words
<1>4. ASSUME NEW w \in Words, Width - 1 \notin w PROVE Reverse(w) # Bits(Width)
  <2>1. 0 \notin Reverse(w)
    BY <1>4 DEF Reverse, Words, Bits
  <2> QED
    BY <1>1, <2>1
<1>5. \A b \in Buckets : SetSentinelKey(b) \in Words /\ SetSentinelKey(b) # Bits(Width)
  BY <1>2, <1>4, ReverseWords DEF SetSentinelKey
<1>6. ASSUME NEW x \in Keys PROVE SetKey(x) \in Words /\ SetKey(x) # Bits(Width)
  <2>1. Reverse(x \cup {Width - 1}) \in Words
    BY <1>3, ReverseWords
  <2>2. PICK i \in Bits(Width - 1) : i \notin x
    BY <1>3
  <2>3. i \in Int /\ i # Width - 1 /\ Width - 1 - i \in Bits(Width)
    BY <1>1, <2>2 DEF Bits
  <2>4. ASSUME Width - 1 - i \in Reverse(x \cup {Width - 1}) PROVE FALSE
    <3>1. PICK j \in x \cup {Width - 1} : Width - 1 - i = Width - 1 - j
      BY <2>4 DEF Reverse
    <3>2. j \in Int
      BY <1>3 DEF Words, Bits
    <3>3. i = j
      BY <2>3, <3>1, <3>2
    <3> QED
      BY <2>2, <2>3, <3>3
  <2> QED
    BY <2>1, <2>3, <2>4 DEF SetKey
<1>7. ASSUME NEW b \in Buckets, b # {}
      PROVE  /\ Father(b) \in Buckets /\ Father(b) # b
             /\ Less(SetSentinelKey(Father(b)), SetSentinelKey(b))
  <2>1. PICK i \in b : \A j \in b : j <= i
    BY <1>7, Greatest DEF Buckets
  <2>2. i \in Int /\ b \subseteq Int
    BY <2>1 DEF Buckets, Bits
  <2>3. Father(b) \subseteq b /\ i \notin Father(b)
    BY <2>1, <2>2 DEF Father
  <2>4. Father(b) \in Buckets /\ Father(b) # b
    BY <2>1, <2>3 DEF Buckets
  <2>5. Reverse(Father(b)) \subseteq Reverse(b) /\ Reverse(Father(b)) # Reverse(b)
    BY <1>2, <2>3, <2>4, ReverseWords
  <2>6. Reverse(b) \in Words /\ Reverse(Father(b)) \in Words
    BY <1>2, <2>4, ReverseWords
  <2> QED
    BY <2>4, <2>5, <2>6, LessOrder DEF SetSentinelKey
<1>8. ASSUME NEW x \in Keys, NEW n \in MinBits .. MaxBits
      PROVE  x \cap Bits(n) \in Buckets /\ Less(SetSentinelKey(x \cap Bits(n)), SetKey(x))
  <2> DEFINE b == x \cap Bits(n)
  <2>1. b \in Buckets
    BY <1>1 DEF Buckets
  <2>2. b \subseteq x \cup {Width - 1} /\ b # x \cup {Width - 1}
    BY <1>3
  <2>3. /\ Reverse(b) \subseteq Reverse(x \cup {Width - 1})
        /\ Reverse(b) # Reverse(x \cup {Width - 1})
    BY <1>2, <1>3, <2>1, <2>2, ReverseWords
  <2>4. Reverse(b) \in Words /\ Reverse(x \cup {Width - 1}) \in Words
    BY <1>2, <1>3, <2>1, ReverseWords
  <2> QED
    BY <2>1, <2>3, <2>4, LessOrder DEF SetSentinelKey, SetKey
<1>9. \A x \in Keys, b \in Buckets : SetSentinelKey(b) # SetKey(x)
  BY <1>2, <1>3, ReverseWords DEF SetSentinelKey, SetKey
<1>10. \A b, c \in Buckets : SetSentinelKey(b) = SetSentinelKey(c) => b = c
  BY <1>2, ReverseWords DEF SetSentinelKey
<1>11. \A x, y \in Keys : SetKey(x) = SetKey(y) => x = y
  <2> SUFFICES ASSUME NEW x \in Keys, NEW y \in Keys, SetKey(x) = SetKey(y) PROVE x = y
    OBVIOUS
  <2>1. x \cup {Width - 1} = y \cup {Width - 1}
    BY <1>3, ReverseWords DEF SetKey
  <2>2. Width - 1 \notin x /\ Width - 1 \notin y
    BY <1>3
  <2> DEFINE top == Width - 1
  <2> HIDE DEF top
  <2>3. x \cup {top} = y \cup {top} /\ top \notin x /\ top \notin y
    BY <2>1, <2>2 DEF top
  <2>4. ASSUME NEW i \in x PROVE i \in y
    BY <2>3
  <2>5. ASSUME NEW i \in y PROVE i \in x
    BY <2>3
  <2> QED
    BY <2>4, <2>5
<1>12. {} \in Buckets /\ {} \in Words /\ Bits(Width) \in Words /\ Bits(Width) # {}
  BY <1>1 DEF Buckets, Words
<1> QED
  BY <1>5, <1>6, <1>7, <1>8, <1>9, <1>10, <1>11, <1>12

-----------------------------------------------------------------------------
(* Nodes and their order on a chain.                                       *)
Precedes(m, n) == n[1] # "head" /\ (m[1] = "head" \/ Less(ListKey[m], ListKey[n]))

Order == {p \in Nodes \X Nodes : Precedes(p[1], p[2])}

LEMMA NodeKinds ==
    /\ \A n \in Nodes :
          /\ ListKey[n] \in Words
          /\ n[1] \in {"key", "sentinel", "head", "tail"}
          /\ n \in KeyNodes <=> n[1] = "key"
          /\ n[1] = "key" => n[2] \in Keys /\ ListKey[n] = SetKey(n[2])
          /\ n[1] = "sentinel" => /\ n[2] \in Buckets /\ n = Sentinel(n[2])
                                  /\ ListKey[n] = SetSentinelKey(n[2])
          /\ n[1] = "head" => n[2] \in Buckets /\ n = HeadOf(n[2]) /\ ListKey[n] = {}
          /\ n[1] = "tail" => n[2] \in Buckets /\ n = TailOf(n[2]) /\ ListKey[n] = Bits(Width)
    /\ \A b \in Buckets :
          /\ HeadOf(b) \in Nodes /\ HeadOf(b)[1] = "head" /\ HeadOf(b)[2] = b
          /\ Sentinel(b) \in Nodes /\ Sentinel(b)[1] = "sentinel" /\ Sentinel(b)[2] = b
          /\ TailOf(b) \in Nodes /\ TailOf(b)[1] = "tail" /\ TailOf(b)[2] = b
    /\ NULL \notin Nodes
<1>1. \A n \in KeyNodes : n[1] = "key" /\ n[2] \in Keys
  BY DEF KeyNodes
<1>2. ASSUME NEW n \in Nodes, n \notin KeyNodes
      PROVE  /\ n[1] \in {"head", "sentinel", "tail"} /\ n[2] \in Buckets
             /\ n = <<n[1], n[2]>>
  BY <1>2 DEF Nodes
<1>3. ASSUME NEW n \in Nodes
      PROVE  /\ n[1] = "key" => ListKey[n] = SetKey(n[2])
             /\ n[1] = "sentinel" => ListKey[n] = SetSentinelKey(n[2])
             /\ n[1] = "head" => ListKey[n] = {}
             /\ n[1] = "tail" => ListKey[n] = Bits(Width)
  BY DEF ListKey
<1>4. ASSUME NEW n \in Nodes
      PROVE  /\ ListKey[n] \in Words
             /\ n[1] \in {"key", "sentinel", "head", "tail"}
             /\ n \in KeyNodes <=> n[1] = "key"
             /\ n[1] = "key" => n[2] \in Keys
             /\ n[1] = "sentinel" => n[2] \in Buckets /\ n = Sentinel(n[2])
             /\ n[1] = "head" => n[2] \in Buckets /\ n = HeadOf(n[2])
             /\ n[1] = "tail" => n[2] \in Buckets /\ n = TailOf(n[2])
  <2>1. CASE n \in KeyNodes
    <3>1. n[1] = "key" /\ n[2] \in Keys /\ ListKey[n] = SetKey(n[2])
      BY <1>1, <1>3, <2>1
    <3>2. ListKey[n] \in Words
      BY <3>1, KeyOrder
    <3> QED
      BY <2>1, <3>1, <3>2
  <2>2. CASE n \notin KeyNodes
    <3>1. ListKey[n] \in Words
      <4>1. \A b \in Buckets : SetSentinelKey(b) \in Words
        BY KeyOrder
      <4>2. {} \in Words /\ Bits(Width) \in Words
        BY KeyOrder
      <4>3. n[1] \in {"head", "sentinel", "tail"} /\ n[2] \in Buckets
        BY <1>2, <2>2
      <4> QED
        BY <1>3, <4>1, <4>2, <4>3
    <3> QED
      BY <1>2, <2>2, <3>1 DEF Sentinel, HeadOf, TailOf
  <2> QED
    BY <2>1, <2>2
<1>5. \A b \in Buckets :
          /\ HeadOf(b) \in Nodes /\ HeadOf(b)[1] = "head" /\ HeadOf(b)[2] = b
          /\ Sentinel(b) \in Nodes /\ Sentinel(b)[1] = "sentinel" /\ Sentinel(b)[2] = b
          /\ TailOf(b) \in Nodes /\ TailOf(b)[1] = "tail" /\ TailOf(b)[2] = b
  BY DEF Nodes, Sentinel, HeadOf, TailOf
<1> QED
  BY <1>3, <1>4, <1>5, NullAssumption

LEMMA NodesFinite == IsFiniteSet(Nodes)
<1> USE HashSetAssumption
<1>1. IsFiniteSet(Keys) /\ IsFiniteSet(Buckets)
  <2>1. IsFiniteSet(0 .. Width - 1 - 1) /\ IsFiniteSet(0 .. MaxBits - 1)
    BY FS_Interval
  <2>2. IsFiniteSet(SUBSET Bits(Width - 1)) /\ IsFiniteSet(SUBSET Bits(MaxBits))
    BY <2>1, FS_SUBSET DEF Bits
  <2> QED
    BY <2>2, FS_Subset DEF Buckets
<1>2. IsFiniteSet(KeyNodes)
  <2> DEFINE T == Keys \X (1 .. Copies)
             f == [n \in KeyNodes |-> <<n[2], n[3]>>]
  <2>1. IsFiniteSet(T)
    <3>1. IsFiniteSet(1 .. Copies)
      BY FS_Interval
    <3> QED
      BY <1>1, <3>1, FS_Product
  <2>2. f \in Injection(KeyNodes, T)
    <3>1. f \in [KeyNodes -> T]
      BY DEF KeyNodes
    <3>2. ASSUME NEW m \in KeyNodes, NEW n \in KeyNodes, f[m] = f[n] PROVE m = n
      BY <3>2 DEF KeyNodes
    <3> QED
      BY <3>1, <3>2 DEF Injection, IsInjective
  <2> HIDE DEF f, T
  <2> QED
    BY <2>1, <2>2, FS_Injection
<1>3. IsFiniteSet({"head", "sentinel", "tail"} \X Buckets)
  <2>1. IsFiniteSet({"head", "sentinel", "tail"})
    <3>1. IsFiniteSet({"head"} \cup {"sentinel"})
      BY FS_Singleton, FS_AddElement
    <3>2. IsFiniteSet(({"head"} \cup {"sentinel"}) \cup {"tail"})
      BY <3>1, FS_AddElement
    <3>3. ({"head"} \cup {"sentinel"}) \cup {"tail"} = {"head", "sentinel", "tail"}
      OBVIOUS
    <3> QED
      BY <3>2, <3>3
  <2> QED
    BY <1>1, <2>1, FS_Product
<1> QED
  BY <1>2, <1>3, FS_Union DEF Nodes

LEMMA OrderStrict ==
    /\ StrictOrder(Order)
    /\ \A m, n : <<m, n>> \in Order <=> m \in Nodes /\ n \in Nodes /\ Precedes(m, n)
<1>1. \A m, n : <<m, n>> \in Order <=> m \in Nodes /\ n \in Nodes /\ Precedes(m, n)
  BY DEF Order
<1>2. \A n \in Nodes : ListKey[n] \in Words
  BY NodeKinds
<1>3. \A m : <<m, m>> \notin Order
  BY <1>1, <1>2, LessOrder DEF Precedes
<1>4. ASSUME NEW m, NEW n, NEW p, <<m, n>> \in Order, <<n, p>> \in Order
      PROVE  <<m, p>> \in Order
  BY <1>1, <1>2, <1>4, LessOrder DEF Precedes
<1> QED
  BY <1>1, <1>3, <1>4 DEF StrictOrder

-----------------------------------------------------------------------------
(* The list with links f, marks d and published buckets bs.                *)

(* A node that has been linked, or is a tail.                              *)
Used(f, m) == f[m] # NULL \/ m[1] = "tail"

(* No link leads out of the list, and a dead node has been in it.          *)
Ended(f, d) == \A m \in Nodes : /\ m[1] = "tail" => f[m] = NULL
                                /\ f[m] # NULL => Used(f, f[m])
                                /\ m \in d => f[m] # NULL

(* A bucket that is published starts with its sentinel.                    *)
Bucketed(f, bs) ==
    /\ {} \in bs
    /\ \A b \in Buckets :
          /\ b \in bs => f[HeadOf(b)] = Sentinel(b) /\ f[Sentinel(b)] # NULL
          /\ b \notin bs => f[HeadOf(b)] = NULL /\ f[Sentinel(b)] = NULL

ListInv(f, d, bs) == /\ f \in [Nodes -> Pointer] /\ d \subseteq KeyNodes /\ bs \subseteq Buckets
                     /\ Along(Nodes, f, Order)
                     /\ Ended(f, d)
                     /\ Bucketed(f, bs)

(* What a walk computes is the chain. *)
LEMMA WalkChain ==
    ASSUME NEW f \in [Nodes -> Pointer], Along(Nodes, f, Order), NEW n \in Nodes
    PROVE  Walk(f, n) = Chain(Nodes, f, n)
<1> DEFINE Solves(w) == w = [m \in Nodes |-> {m} \cup IF f[m] = NULL THEN {} ELSE w[f[m]]]
           g == [m \in Nodes |-> Chain(Nodes, f, m)]
           w == CHOOSE v : Solves(v)
<1>1. \A m \in Nodes : f[m] = NULL \/ f[m] \in Nodes
  BY DEF Pointer
<1>2. ASSUME NEW m \in Nodes
      PROVE  g[m] = {m} \cup IF f[m] = NULL THEN {} ELSE g[f[m]]
  <2>1. Chain(Nodes, f, m) = {m} \cup Chain(Nodes, f, f[m])
    BY ChainCons
  <2>2. CASE f[m] = NULL
    BY <2>1, <2>2, ChainEmpty, NullAssumption
  <2>3. CASE f[m] \in Nodes
    BY <2>1, <2>3, NullAssumption
  <2> QED
    BY <1>1, <2>2, <2>3
<1>3. Solves(g)
  BY <1>2
<1>4. Solves(w)
  <2> HIDE DEF g, Solves
  <2> QED
    BY <1>3
<1>5. Walk(f, n) = w[n]
  BY DEF Walk
<1>6. \A m \in Nodes : w[m] = {m} \cup IF f[m] = NULL THEN {} ELSE w[f[m]]
  <2> HIDE DEF w
  <2> QED
    BY <1>4
<1> HIDE DEF w, g
<1>7. ASSUME {m \in Nodes : w[m] # g[m]} # {} PROVE FALSE
  <2> DEFINE S == {m \in Nodes : w[m] # g[m]}
  <2>1. IsFiniteSet(S)
    BY NodesFinite, FS_Subset
  <2>2. PICK h \in S : \A x \in S : <<h, x>> \notin Order
    <3> HIDE DEF S
    <3> QED
      BY <1>7, <2>1, OrderStrict, OrderLast DEF S
  <2>3. f[h] # NULL => f[h] \in Nodes /\ w[f[h]] = g[f[h]]
    BY <1>1, <2>2 DEF Along
  <2>4. h \in Nodes /\ w[h] # g[h]
    BY <2>2
  <2>5. /\ w[h] = {h} \cup IF f[h] = NULL THEN {} ELSE w[f[h]]
        /\ g[h] = {h} \cup IF f[h] = NULL THEN {} ELSE g[f[h]]
    BY <1>2, <1>6, <2>4, Zenon
  <2> QED
    BY <2>3, <2>4, <2>5
<1> QED
  BY <1>5, <1>7 DEF g

LEMMA Links ==
    ASSUME NEW f, NEW d, NEW bs, ListInv(f, d, bs)
    PROVE  /\ \A m \in Nodes : /\ f[m] = NULL \/ f[m] \in Nodes
                               /\ f[m] # NULL => /\ f[m] \in Nodes /\ f[m][1] # "head"
                                                 /\ Used(f, f[m])
           /\ \A m \in Nodes : \A x \in Chain(Nodes, f, f[m]) :
                 /\ x \in Nodes /\ x # m /\ x[1] # "head" /\ Precedes(m, x) /\ Used(f, x)
                 /\ m \notin Chain(Nodes, f, x)
           /\ \A m \in Nodes : Used(f, m) =>
                 /\ \A x \in Chain(Nodes, f, m) : x \in Nodes /\ Used(f, x)
                 /\ \E c \in Chain(Nodes, f, m) : c[1] = "tail" /\ c \notin d
<1>1. ASSUME NEW m \in Nodes
      PROVE  /\ f[m] = NULL \/ f[m] \in Nodes
             /\ f[m] # NULL => f[m] \in Nodes /\ f[m][1] # "head" /\ Used(f, f[m])
  <2>1. f[m] = NULL \/ f[m] \in Nodes
    BY DEF ListInv, Pointer
  <2>2. f[m] \in Nodes => Precedes(m, f[m])
    BY OrderStrict DEF ListInv, Along
  <2> QED
    BY <2>1, <2>2 DEF ListInv, Ended, Precedes
<1>2. ASSUME NEW m \in Nodes, Used(f, m), NEW x \in Chain(Nodes, f, m)
      PROVE  x \in Nodes /\ Used(f, x)
  <2> DEFINE D == {y \in Nodes : Used(f, y)}
  <2>1. Closed(Nodes, D, f, m) /\ D \subseteq Nodes
    BY <1>1, <1>2, NullAssumption DEF Closed
  <2> QED
    BY <2>1, ChainLeast
<1>3. ASSUME NEW m \in Nodes, NEW x \in Chain(Nodes, f, f[m])
      PROVE  /\ x \in Nodes /\ x # m /\ x[1] # "head" /\ Precedes(m, x) /\ Used(f, x)
             /\ m \notin Chain(Nodes, f, x)
  <2>1. <<m, x>> \in Order /\ x # m
    BY AlongAfter, OrderStrict DEF ListInv
  <2>2. f[m] \in Nodes
    BY <1>3, ChainEmpty
  <2>3. Used(f, x)
    BY <1>1, <1>2, <2>2, NullAssumption
  <2>4. Chain(Nodes, f, x) \subseteq Chain(Nodes, f, f[m])
    BY ChainSuffix
  <2>5. m \notin Chain(Nodes, f, f[m])
    BY AlongAfter, OrderStrict DEF ListInv
  <2> QED
    BY <2>1, <2>3, <2>4, <2>5, OrderStrict DEF Precedes
<1>4. ASSUME NEW m \in Nodes, Used(f, m)
      PROVE  \E c \in Chain(Nodes, f, m) : c[1] = "tail" /\ c \notin d
  <2> DEFINE C == Chain(Nodes, f, m)
  <2>1. C \subseteq Nodes /\ Closed(Nodes, C, f, m) /\ m \in C
    BY ChainClosed DEF Closed
  <2>2. IsFiniteSet(C)
    BY <2>1, NodesFinite, FS_Subset
  <2>3. PICK c \in C : \A x \in C : <<c, x>> \notin Order
    <3> HIDE DEF C
    <3> QED
      BY <2>1, <2>2, OrderStrict, OrderLast
  <2>4. f[c] \notin Nodes
    BY <2>1, <2>3 DEF Closed, ListInv, Along
  <2>5. c[1] = "tail"
    BY <1>1, <1>2, <1>4, <2>1, <2>4 DEF Used
  <2>6. c \notin d
    BY <2>1, <2>5, NodeKinds DEF ListInv
  <2> QED
    BY <2>5, <2>6
<1> QED
  BY <1>1, <1>2, <1>3, <1>4

-----------------------------------------------------------------------------
(* How the list changes.                                                   *)

(* Every link still leads to the nodes that are not in e, and to no others. *)
Skips(f, f2, e) ==
    /\ f2 \in [Nodes -> Pointer]
    /\ \A m \in Nodes :
          /\ f[m] = NULL => f2[m] = NULL
          /\ f[m] # NULL => /\ f2[m] \in Chain(Nodes, f, f[m])
                            /\ Chain(Nodes, f, f[m]) \ e \subseteq Chain(Nodes, f, f2[m])

(* Dead nodes are unlinked, or one dies. *)
LEMMA SkipKeeps ==
    ASSUME NEW f, NEW d, NEW bs, ListInv(f, d, bs), NEW f2, NEW e, Skips(f, f2, e),
           e \subseteq KeyNodes, \A m \in e : f[m] # NULL
    PROVE  /\ ListInv(f2, e, bs)
           /\ \A from : /\ Chain(Nodes, f2, from) \subseteq Chain(Nodes, f, from)
                        /\ Chain(Nodes, f, from) \ e \subseteq Chain(Nodes, f2, from)
           /\ \A m \in Nodes : Used(f2, m) <=> Used(f, m)
           /\ \A b \in Buckets : (\A m \in Nodes : f[m] = Sentinel(b) => m = HeadOf(b))
                 => \A m \in Nodes : f2[m] = Sentinel(b) => m = HeadOf(b)
<1>1. ASSUME NEW m \in Nodes
      PROVE  /\ f2[m] = NULL <=> f[m] = NULL
             /\ f2[m] # NULL => /\ f2[m] \in Nodes /\ f2[m] \in Chain(Nodes, f, f[m])
                                /\ f[m] \in Nodes /\ Used(f, f2[m]) /\ Precedes(m, f2[m])
  <2>1. f[m] # NULL => f2[m] \in Chain(Nodes, f, f[m]) /\ f[m] \in Nodes
    BY Links DEF Skips
  <2>2. f[m] # NULL => f2[m] \in Nodes /\ Used(f, f2[m]) /\ Precedes(m, f2[m])
    BY <2>1, Links
  <2> QED
    BY <2>1, <2>2, NullAssumption DEF Skips
<1>2. \A m \in Nodes : Used(f2, m) <=> Used(f, m)
  BY <1>1 DEF Used
<1>3. Along(Nodes, f2, Order)
  BY <1>1, OrderStrict, NullAssumption DEF Along
<1>4. Ended(f2, e)
  BY <1>1, <1>2 DEF Ended, ListInv
<1>5. ASSUME NEW from, NEW m \in Chain(Nodes, f, from), f2[m] \in Nodes
      PROVE  f2[m] \in Chain(Nodes, f, from)
  <2>1. m \in Nodes
    BY ChainClosed
  <2>2. f2[m] \in Chain(Nodes, f, f[m])
    BY <1>1, <1>5, <2>1, NullAssumption
  <2> QED
    BY <2>2, ChainSuffix
<1>6. ASSUME NEW from PROVE Chain(Nodes, f2, from) \subseteq Chain(Nodes, f, from)
  <2>1. Closed(Nodes, Chain(Nodes, f, from), f2, from) /\ Chain(Nodes, f, from) \subseteq Nodes
    BY <1>5, ChainClosed DEF Closed
  <2> QED
    BY <2>1, ChainLeast
<1>7. ASSUME NEW from PROVE Chain(Nodes, f, from) \ e \subseteq Chain(Nodes, f2, from)
  <2> DEFINE L == Nodes \ e
  <2>1. ASSUME NEW m \in Chain(Nodes, f2, from)
        PROVE  Chain(Nodes, f, f[m]) \cap L \subseteq Chain(Nodes, f, f2[m])
    <3>1. m \in Nodes
      BY ChainClosed
    <3>2. CASE f[m] = NULL
      BY <3>2, ChainEmpty, NullAssumption
    <3>3. CASE f[m] # NULL
      BY <3>1, <3>3 DEF Skips
    <3> QED
      BY <3>2, <3>3
  <2>2. Chain(Nodes, f, from) \cap L \subseteq Chain(Nodes, f2, from)
    <3> HIDE DEF L
    <3> QED
      BY <1>3, <2>1, OrderStrict, NodesFinite, ChainKeeps
  <2> QED
    BY <2>2, ChainClosed
<1>8. Bucketed(f2, bs)
  <2>1. ASSUME NEW b \in Buckets, b \in bs PROVE f2[HeadOf(b)] = Sentinel(b)
    <3> DEFINE h == HeadOf(b)
               s == Sentinel(b)
    <3>1. h \in Nodes /\ s \in Nodes /\ s \notin e /\ f[h] = s
      BY <2>1, NodeKinds DEF ListInv, Bucketed
    <3>2. s \in Chain(Nodes, f, s)
      BY <3>1, ChainCons
    <3>3. f2[h] \in Chain(Nodes, f, s) /\ s \in Chain(Nodes, f, f2[h])
      BY <3>1, <3>2, NullAssumption DEF Skips
    <3>4. Chain(Nodes, f, s) = {s} \cup Chain(Nodes, f, f[s])
      BY <3>1, ChainCons
    <3>5. \A x \in Chain(Nodes, f, f[s]) : s \notin Chain(Nodes, f, x)
      BY <3>1, Links
    <3> QED
      BY <3>3, <3>4, <3>5
  <2>2. \A b \in Buckets : HeadOf(b) \in Nodes /\ Sentinel(b) \in Nodes
    BY NodeKinds
  <2> QED
    BY <1>1, <2>1, <2>2 DEF Bucketed, ListInv
<1>9. ASSUME NEW b \in Buckets, \A m \in Nodes : f[m] = Sentinel(b) => m = HeadOf(b),
             NEW m \in Nodes, f2[m] = Sentinel(b)
      PROVE  m = HeadOf(b)
  <2>1. Sentinel(b) \in Nodes /\ Sentinel(b) \in Chain(Nodes, f, f[m]) /\ f[m] \in Nodes
    BY <1>1, <1>9, NodeKinds
  <2> DEFINE D == {x \in Chain(Nodes, f, f[m]) : x # Sentinel(b)}
  <2>2. ASSUME f[m] # Sentinel(b) PROVE FALSE
    <3>1. Closed(Nodes, D, f, f[m]) /\ D \subseteq Nodes
      <4>1. ASSUME NEW x \in D, f[x] \in Nodes PROVE f[x] \in D
        <5>1. x \in Nodes /\ x[1] # "head"
          BY Links
        <5>2. x # HeadOf(b)
          BY <5>1, NodeKinds
        <5>3. f[x] # Sentinel(b)
          BY <1>9, <5>1, <5>2
        <5>4. Closed(Nodes, Chain(Nodes, f, f[m]), f, f[m])
          BY ChainClosed
        <5> QED
          BY <4>1, <5>3, <5>4 DEF Closed
      <4>2. f[m] \in D
        BY <2>1, <2>2, ChainCons
      <4> QED
        BY <4>1, <4>2, ChainClosed DEF Closed
    <3>2. Chain(Nodes, f, f[m]) \subseteq D
      BY <3>1, ChainLeast
    <3> QED
      BY <2>1, <3>2
  <2> QED
    BY <1>9, <2>2
<1>10. ListInv(f2, e, bs)
  BY <1>3, <1>4, <1>8 DEF ListInv, Skips
<1> QED
  BY <1>2, <1>6, <1>7, <1>9, <1>10

(* A chain that is sound is put behind a node that led to the same nodes.  *)
LEMMA SpliceKeeps ==
    ASSUME NEW f, NEW d, NEW bs, ListInv(f, d, bs), 
           NEW p \in Nodes, NEW s \in Nodes,
           NEW f2 \in [Nodes -> Pointer], f2[p] = s, \A m \in Nodes \ {p} : f2[m] = f[m],
           p[1] \in {"key", "sentinel"}, f[p] # NULL, Used(f, s), Precedes(p, s),
           Chain(Nodes, f, f[p]) \ d \subseteq Chain(Nodes, f, s)
    PROVE  /\ ListInv(f2, d, bs)
           /\ \A from : /\ Chain(Nodes, f2, from) \subseteq
                              Chain(Nodes, f, from) \cup Chain(Nodes, f, s)
                        /\ Chain(Nodes, f, from) \ d \subseteq Chain(Nodes, f2, from)
                        /\ p \notin Chain(Nodes, f, from) =>
                              Chain(Nodes, f2, from) = Chain(Nodes, f, from)
                        /\ p \in Chain(Nodes, f2, from) =>
                              Chain(Nodes, f, s) \subseteq Chain(Nodes, f2, from)
           /\ \A m \in Nodes : Used(f, m) => Used(f2, m)
<1>1. f \in [Nodes -> Pointer] /\ s # NULL /\ s \in Pointer /\ s[1] # "head"
  BY NullAssumption DEF ListInv, Pointer, Precedes
<1>2. f2 \in [Nodes -> Pointer] /\ f2[p] = s /\ \A m \in Nodes \ {p} : f2[m] = f[m]
  OBVIOUS
<1>3. \A m \in Nodes : Used(f, m) => Used(f2, m)
  BY <1>1, <1>2 DEF Used
<1>4. Along(Nodes, f2, Order)
  <2>1. <<p, s>> \in Order
    BY OrderStrict
  <2> QED
    BY <1>2, <2>1 DEF Along, ListInv
<1>5. Ended(f2, d)
  <2>1. ASSUME NEW m \in Nodes
        PROVE  /\ m[1] = "tail" => f[m] = NULL
               /\ f[m] # NULL => f[m] \in Nodes /\ Used(f, f[m])
               /\ m \in d => f[m] # NULL
    BY Links DEF ListInv, Ended
  <2>2. ASSUME NEW m \in Nodes
        PROVE  /\ m[1] = "tail" => f2[m] = NULL
               /\ f2[m] # NULL => Used(f2, f2[m])
               /\ m \in d => f2[m] # NULL
    BY <1>1, <1>2, <1>3, <2>1
  <2> QED
    BY <2>2 DEF Ended
<1>6. Bucketed(f2, bs)
  <2>1. ASSUME NEW b \in Buckets
        PROVE  /\ HeadOf(b) \in Nodes \ {p} /\ Sentinel(b) \in Nodes
               /\ Sentinel(b) = p => b \in bs
    BY NodeKinds DEF ListInv, Bucketed
  <2>2. ASSUME NEW b \in Buckets
        PROVE  /\ b \in bs => f2[HeadOf(b)] = Sentinel(b) /\ f2[Sentinel(b)] # NULL
               /\ b \notin bs => f2[HeadOf(b)] = NULL /\ f2[Sentinel(b)] = NULL
    BY <1>1, <1>2, <2>1 DEF ListInv, Bucketed
  <2> QED
    BY <2>2 DEF ListInv, Bucketed
<1>7. ListInv(f2, d, bs)
  BY <1>2, <1>4, <1>5, <1>6 DEF ListInv
<1>8. ASSUME NEW from, p \notin Chain(Nodes, f, from)
      PROVE  Chain(Nodes, f2, from) = Chain(Nodes, f, from)
  BY <1>8, ChainExcept
<1>9. p \notin Chain(Nodes, f, s)
  <2>1. <<p, s>> \in Order
    BY OrderStrict
  <2>2. ASSUME p \in Chain(Nodes, f, f[s]) PROVE FALSE
    <3>1. <<s, p>> \in Order
      BY <2>2, AlongAfter, OrderStrict DEF ListInv
    <3> QED
      BY <2>1, <3>1, OrderStrict DEF StrictOrder
  <2>3. p # s
    BY <2>1, OrderStrict DEF StrictOrder
  <2> QED
    BY <2>2, <2>3, ChainCons
<1>10. Chain(Nodes, f2, s) = Chain(Nodes, f, s)
  BY <1>8, <1>9
<1>11. ASSUME NEW from
       PROVE  Chain(Nodes, f2, from) \subseteq Chain(Nodes, f, from) \cup Chain(Nodes, f, s)
  <2> DEFINE C == Chain(Nodes, f, from)
             S == Chain(Nodes, f, s)
  <2>1. /\ C \subseteq Nodes /\ Closed(Nodes, C, f, from)
        /\ S \subseteq Nodes /\ Closed(Nodes, S, f, s)
    BY ChainClosed
  <2>2. Closed(Nodes, C \cup S, f2, from) /\ C \cup S \subseteq Nodes
    BY <1>2, <2>1 DEF Closed
  <2> QED
    BY <2>2, ChainLeast
<1>12. ASSUME NEW from, p \in Chain(Nodes, f2, from)
       PROVE  Chain(Nodes, f, s) \subseteq Chain(Nodes, f2, from)
  BY <1>2, <1>10, <1>12, ChainSuffix
<1>13. ASSUME NEW from PROVE Chain(Nodes, f, from) \ d \subseteq Chain(Nodes, f2, from)
  <2> DEFINE L == Nodes \ d
  <2>1. ASSUME NEW m \in Chain(Nodes, f2, from)
        PROVE  Chain(Nodes, f, f[m]) \cap L \subseteq Chain(Nodes, f, f2[m])
    <3>1. m \in Nodes
      BY ChainClosed
    <3> QED
      BY <1>2, <3>1
  <2>2. Chain(Nodes, f, from) \cap L \subseteq Chain(Nodes, f2, from)
    <3> HIDE DEF L
    <3> QED
      BY <1>4, <2>1, OrderStrict, NodesFinite, ChainKeeps
  <2> QED
    BY <2>2, ChainClosed
<1> QED
  BY <1>3, <1>7, <1>8, <1>11, <1>12, <1>13

(* A node is given its successor. *)
LEMMA AimKeeps ==
    ASSUME NEW f, NEW d, NEW bs, ListInv(f, d, bs), 
           NEW n \in Nodes, NEW c \in Nodes,
           NEW f2 \in [Nodes -> Pointer], f2[n] = c, \A m \in Nodes \ {n} : f2[m] = f[m],
           n[1] = "key" \/ (n[1] = "sentinel" /\ n[2] \in bs), Used(f, c), Precedes(n, c)
    PROVE  /\ ListInv(f2, d, bs)
           /\ \A from : n \notin Chain(Nodes, f, from) =>
                 Chain(Nodes, f2, from) = Chain(Nodes, f, from)
           /\ \A m \in Nodes : Used(f, m) => Used(f2, m)
<1>1. f \in [Nodes -> Pointer] /\ c # NULL /\ c \in Pointer
  BY NullAssumption DEF ListInv, Pointer
<1>2. f2 \in [Nodes -> Pointer] /\ f2[n] = c /\ \A m \in Nodes \ {n} : f2[m] = f[m]
  OBVIOUS
<1>3. \A m \in Nodes : Used(f, m) => Used(f2, m)
  BY <1>1, <1>2 DEF Used
<1>4. Along(Nodes, f2, Order)
  <2>1. <<n, c>> \in Order
    BY OrderStrict
  <2> QED
    BY <1>2, <2>1 DEF Along, ListInv
<1>5. Ended(f2, d)
  <2>1. ASSUME NEW m \in Nodes
        PROVE  /\ m[1] = "tail" => f[m] = NULL
               /\ f[m] # NULL => f[m] \in Nodes /\ Used(f, f[m])
               /\ m \in d => f[m] # NULL
    BY Links DEF ListInv, Ended
  <2>2. ASSUME NEW m \in Nodes
        PROVE  /\ m[1] = "tail" => f2[m] = NULL
               /\ f2[m] # NULL => Used(f2, f2[m])
               /\ m \in d => f2[m] # NULL
    BY <1>1, <1>2, <1>3, <2>1
  <2> QED
    BY <2>2 DEF Ended
<1>6. Bucketed(f2, bs)
  <2>1. ASSUME NEW b \in Buckets
        PROVE  /\ HeadOf(b) \in Nodes \ {n} /\ Sentinel(b) \in Nodes
               /\ Sentinel(b) = n => b \in bs
    BY NodeKinds
  <2>2. ASSUME NEW b \in Buckets
        PROVE  /\ b \in bs => f2[HeadOf(b)] = Sentinel(b) /\ f2[Sentinel(b)] # NULL
               /\ b \notin bs => f2[HeadOf(b)] = NULL /\ f2[Sentinel(b)] = NULL
    BY <1>1, <1>2, <2>1 DEF ListInv, Bucketed
  <2> QED
    BY <2>2 DEF ListInv, Bucketed
<1>7. ListInv(f2, d, bs)
  BY <1>2, <1>4, <1>5, <1>6 DEF ListInv
<1>8. ASSUME NEW from, n \notin Chain(Nodes, f, from)
      PROVE  Chain(Nodes, f2, from) = Chain(Nodes, f, from)
  BY <1>8, ChainExcept
<1> QED
  BY <1>2, <1>3, <1>7, <1>8

(* A bucket is published, with a list of its own. *)
LEMMA PublishKeeps ==
    ASSUME NEW f, NEW d, NEW bs, ListInv(f, d, bs), NEW b \in Buckets, b \notin bs
    PROVE  /\ ListInv(OwnList(b, f), d, bs \cup {b})
           /\ \A from \in Nodes : Used(f, from) =>
                 Chain(Nodes, OwnList(b, f), from) = Chain(Nodes, f, from)
           /\ \A m \in Nodes : Used(f, m) => Used(OwnList(b, f), m)
           /\ \A m \in Nodes : OwnList(b, f)[m] = Sentinel(b) => m = HeadOf(b)
           /\ \A c \in Buckets \ {b} : \A m \in Nodes :
                 OwnList(b, f)[m] = Sentinel(c) => f[m] = Sentinel(c)
<1> DEFINE h == HeadOf(b)
           s == Sentinel(b)
           e == TailOf(b)
           g == [f EXCEPT ![s] = e]
           f2 == OwnList(b, f)
<1>1. /\ h \in Nodes /\ s \in Nodes /\ e \in Nodes /\ f \in [Nodes -> Pointer]
      /\ h[1] = "head" /\ s[1] = "sentinel" /\ e[1] = "tail" /\ h # s
      /\ f[h] = NULL /\ f[s] = NULL /\ s \notin d /\ h \notin d
  BY NodeKinds DEF ListInv, Bucketed
<1>2. /\ f2 \in [Nodes -> Pointer] /\ f2[h] = s /\ f2[s] = e
      /\ \A m \in Nodes \ {h, s} : f2[m] = f[m]
  <2>1. f2 = [f EXCEPT ![h] = s, ![s] = e]
    BY DEF OwnList
  <2> QED
    BY <1>1, <2>1 DEF Pointer
<1>3. /\ g \in [Nodes -> Pointer] /\ \A m \in Nodes \ {s} : g[m] = f[m]
      /\ \A m \in Nodes \ {h} : f2[m] = g[m]
  BY <1>1, <1>2 DEF Pointer
<1>4. ~ Used(f, h) /\ ~ Used(f, s) /\ \A m \in Nodes : f[m] # s /\ f[m] # h
  <2>1. ~ Used(f, h) /\ ~ Used(f, s)
    BY <1>1 DEF Used
  <2>2. \A m \in Nodes : f[m] # NULL => Used(f, f[m])
    BY Links
  <2> QED
    BY <1>1, <2>1, <2>2, NullAssumption
<1>5. ASSUME NEW from \in Nodes, Used(f, from)
      PROVE  Chain(Nodes, f2, from) = Chain(Nodes, f, from)
  <2>1. h \notin Chain(Nodes, f, from) /\ s \notin Chain(Nodes, f, from)
    BY <1>4, <1>5, Links
  <2>2. Chain(Nodes, g, from) = Chain(Nodes, f, from)
    <3> HIDE DEF g
    <3> QED
      BY <1>3, <2>1, ChainExcept
  <2>3. Chain(Nodes, f2, from) = Chain(Nodes, g, from)
    <3> HIDE DEF g, f2
    <3> QED
      BY <1>3, <2>1, <2>2, ChainExcept
  <2> QED
    BY <2>2, <2>3
<1> HIDE DEF g, f2, h, s, e
<1>6. \A m \in Nodes : Used(f, m) => Used(f2, m)
  BY <1>2, <1>4 DEF Used
<1>7. \A m \in Nodes : f2[m] = s => m = h
  BY <1>1, <1>2, <1>4
<1>8. ASSUME NEW c \in Buckets \ {b}, NEW m \in Nodes, f2[m] = Sentinel(c)
      PROVE  f[m] = Sentinel(c)
  <2>1. Sentinel(c) # s /\ Sentinel(c) # e
    BY NodeKinds DEF s, e
  <2> QED
    BY <1>2, <1>8, <2>1
<1>9. Along(Nodes, f2, Order)
  <2>1. <<h, s>> \in Order
    BY <1>1, OrderStrict DEF Precedes
  <2>2. Less(SetSentinelKey(b), Bits(Width))
    <3>1. SetSentinelKey(b) \in Words /\ SetSentinelKey(b) # Bits(Width) /\ Bits(Width) \in Words
      BY KeyOrder
    <3> QED
      BY <3>1, LessOrder DEF Words
  <2>3. ListKey[s] = SetSentinelKey(b) /\ ListKey[e] = Bits(Width)
    BY NodeKinds DEF s, e
  <2>4. <<s, e>> \in Order
    BY <1>1, <2>2, <2>3, OrderStrict DEF Precedes
  <2> QED
    BY <1>2, <2>1, <2>4 DEF Along, ListInv
<1>10. Ended(f2, d)
  <2>1. ASSUME NEW m \in Nodes
        PROVE  /\ m[1] = "tail" => f[m] = NULL
               /\ f[m] # NULL => f[m] \in Nodes /\ Used(f, f[m])
               /\ m \in d => f[m] # NULL
    BY Links DEF ListInv, Ended
  <2>2. Used(f2, s) /\ Used(f2, e)
    BY <1>1, <1>2, NullAssumption DEF Used
  <2>3. ASSUME NEW m \in Nodes
        PROVE  /\ m[1] = "tail" => f2[m] = NULL
               /\ f2[m] # NULL => Used(f2, f2[m])
               /\ m \in d => f2[m] # NULL
    BY <1>1, <1>2, <1>6, <2>1, <2>2
  <2> QED
    BY <2>3 DEF Ended
<1>11. Bucketed(f2, bs \cup {b})
  <2>1. ASSUME NEW c \in Buckets, c # b
        PROVE  /\ HeadOf(c) \in Nodes \ {h, s} /\ Sentinel(c) \in Nodes \ {h, s}
    BY <2>1, NodeKinds DEF h, s
  <2>2. ASSUME NEW c \in Buckets
        PROVE  /\ c \in bs \cup {b} => f2[HeadOf(c)] = Sentinel(c) /\ f2[Sentinel(c)] # NULL
               /\ c \notin bs \cup {b} => f2[HeadOf(c)] = NULL /\ f2[Sentinel(c)] = NULL
    <3>1. CASE c = b
      BY <1>1, <1>2, <3>1, NullAssumption DEF h, s
    <3>2. CASE c # b
      BY <1>2, <2>1, <3>2 DEF ListInv, Bucketed
    <3> QED
      BY <3>1, <3>2
  <2> QED
    BY <2>2 DEF Bucketed, ListInv
<1>12. ListInv(f2, d, bs \cup {b})
  BY <1>2, <1>9, <1>10, <1>11 DEF ListInv
<1> QED
  BY <1>5, <1>6, <1>7, <1>8, <1>12 DEF f2, s, h

(* A sentinel that only its own head leads to is in no other list. *)
LEMMA OnlyHead ==
    ASSUME NEW f, NEW d, NEW bs, ListInv(f, d, bs), NEW b \in Buckets,
           \A m \in Nodes : f[m] = Sentinel(b) => m = HeadOf(b),
           NEW from \in Nodes, from # Sentinel(b), from # HeadOf(b)
    PROVE  Sentinel(b) \notin Chain(Nodes, f, from)
<1> DEFINE D == Chain(Nodes, f, from) \ {Sentinel(b), HeadOf(b)}
<1>1. from \in D
  BY ChainClosed DEF Closed
<1>2. ASSUME NEW m \in D, f[m] \in Nodes PROVE f[m] \in D
  <2>1. m \in Nodes /\ f[m] \in Chain(Nodes, f, from)
    BY <1>2, ChainClosed DEF Closed
  <2>2. f[m] # Sentinel(b)
    BY <2>1
  <2>3. f[m] # HeadOf(b)
    BY <1>2, <2>1, Links, NodeKinds, NullAssumption
  <2> QED
    BY <2>1, <2>2, <2>3
<1>3. Closed(Nodes, D, f, from) /\ D \subseteq Nodes
  BY <1>1, <1>2, ChainClosed DEF Closed
<1> QED
  BY <1>3, ChainLeast

-----------------------------------------------------------------------------
(* A search.                                                               *)
From(n) == Chain(Nodes, next, n)

LEMMA ReachFrom ==
    ASSUME ListInv(next, marked, buckets)
    PROVE  /\ \A n \in Nodes : Reach(n) = From(n)
           /\ \A b \in Buckets : ChainOf(b) = From(HeadOf(b)) /\ Live(b) = From(HeadOf(b)) \ marked
           /\ Main = From(HeadOf({}))
<1>1. ASSUME NEW n \in Nodes PROVE Reach(n) = From(n)
  BY WalkChain DEF Reach, From, ListInv
<1>2. \A b \in Buckets : ChainOf(b) = From(HeadOf(b)) /\ Live(b) = From(HeadOf(b)) \ marked
  BY <1>1, NodeKinds DEF ChainOf, Live
<1>3. Main = From(HeadOf({}))
  BY <1>2, KeyOrder DEF Main
<1> QED
  BY <1>1, <1>2, <1>3

(* The search ends at the first live node whose key is not less, and all   *)
(* live ones that are behind a bucket's sentinel are behind that node too. *)
LEMMA FoundFirst ==
    ASSUME ListInv(next, marked, buckets), NEW b \in buckets, NEW key \in Words,
           NEW c, c = Found(b, key)
    PROVE  /\ c \in From(HeadOf(b)) \ marked /\ c \in Nodes /\ c[1] # "head" /\ Used(next, c)
           /\ ~ Less(ListKey[c], key)
           /\ \A n \in From(HeadOf(b)) \ marked :
                 n[1] # "head" /\ ~ Less(ListKey[n], key) => n \in From(c)
<1> DEFINE h == HeadOf(b)
           live == From(h) \ marked
           high == {n \in live \ {h} : ~ Less(ListKey[n], key)}
<1>1. b \in Buckets /\ h \in Nodes /\ h[1] = "head" /\ next[h] # NULL
  BY NodeKinds, NullAssumption DEF ListInv, Bucketed
<1>2. live \subseteq Nodes /\ \A n \in Nodes : Reach(n) = From(n)
  BY ReachFrom, ChainClosed DEF From
<1>3. \A n \in live : Used(next, n) /\ (n # h => n[1] # "head")
  <2>1. Used(next, h)
    BY <1>1 DEF Used
  <2>2. From(h) = {h} \cup From(next[h])
    BY <1>1, ChainCons DEF From
  <2> QED
    BY <1>1, <2>1, <2>2, Links DEF From
<1>4. c = CHOOSE n \in high : high \subseteq From(n)
  <2>1. live = Live(b) /\ c = CHOOSE n \in high : high \subseteq Reach(n)
    BY <1>1, ReachFrom DEF Found
  <2> HIDE DEF live
  <2>2. \A n \in high : Reach(n) = From(n)
    BY <1>2
  <2> QED
    BY <2>1, <2>2
<1>5. high # {}
  <2>1. PICK e \in From(h) : e[1] = "tail" /\ e \notin marked
    BY <1>1, Links DEF Used, From
  <2>2. e \in Nodes /\ ListKey[e] = Bits(Width) /\ e # h
    BY <1>1, <1>2, <2>1, NodeKinds
  <2>3. ~ Less(Bits(Width), key)
    BY LessOrder, KeyOrder DEF Words
  <2> QED
    BY <2>1, <2>2, <2>3
<1>6. \E n \in high : high \subseteq From(n)
  <2>1. high \subseteq From(h)
    OBVIOUS
  <2> HIDE DEF high
  <2> QED
    BY <1>5, <2>1, ChainFirst DEF From
<1>7. c \in high /\ high \subseteq From(c)
  <2> HIDE DEF high
  <2> QED
    BY <1>4, <1>6
<1>8. ASSUME NEW n \in live, n[1] # "head", ~ Less(ListKey[n], key) PROVE n \in From(c)
  BY <1>1, <1>7, <1>8
<1> QED
  BY <1>2, <1>3, <1>7, <1>8

(* The last live node before it has a smaller key and is not the head. *)
LEMMA BeforeLast ==
    ASSUME ListInv(next, marked, buckets), NEW b \in buckets, NEW key \in Words,
           Less(SetSentinelKey(b), key), NEW c, c = Found(b, key),
           NEW p, p = Before(b, c)
    PROVE  /\ p \in From(HeadOf(b)) \ marked /\ p \in Nodes
           /\ p[1] \in {"key", "sentinel"} /\ next[p] # NULL /\ Used(next, p)
           /\ Less(ListKey[p], key)
<1> DEFINE h == HeadOf(b)
           s == Sentinel(b)
           live == From(h) \ marked
           ahead == {m \in live : c \in From(m) \ {m}}
<1>1. /\ b \in Buckets /\ h \in Nodes /\ h[1] = "head" /\ next[h] = s
      /\ s \in Nodes /\ s[1] = "sentinel" /\ ListKey[s] = SetSentinelKey(b) /\ s # h
      /\ s \notin marked /\ h \notin marked
  BY NodeKinds DEF ListInv, Bucketed
<1>2. live \subseteq Nodes /\ From(h) \subseteq Nodes /\ \A n \in Nodes : Reach(n) = From(n)
  BY ReachFrom, ChainClosed DEF From
<1>3. /\ c \in live /\ c[1] # "head" /\ Used(next, c) /\ ~ Less(ListKey[c], key)
      /\ \A n \in live : n[1] # "head" /\ ~ Less(ListKey[n], key) => n \in From(c)
  BY FoundFirst
<1>4. p = CHOOSE m \in ahead : From(m) \cap ahead = {m}
  <2>1. live = Live(b) /\ \A m \in live : Reach(m) = From(m)
    BY <1>1, <1>2, ReachFrom
  <2>2. {m \in Live(b) : c \in Reach(m) \ {m}} = ahead
    BY <2>1
  <2>3. p = CHOOSE m \in ahead : Reach(m) \cap ahead = {m}
    BY <2>2 DEF Before
  <2>4. \A m \in ahead : Reach(m) = From(m)
    BY <2>1
  <2> HIDE DEF ahead
  <2> QED
    BY <2>3, <2>4
<1>5. From(h) = {h} \cup From(s) /\ s \in From(s)
  BY <1>1, ChainCons DEF From
<1>6. s \in ahead
  BY <1>1, <1>3, <1>5
<1>7. p \in ahead /\ From(p) \cap ahead = {p}
  <2>1. \E m \in ahead : From(m) \cap ahead = {m}
    <3>1. ahead \subseteq Nodes /\ ahead # {}
      BY <1>2, <1>6
    <3>2. Along(Nodes, next, Order)
      BY DEF ListInv
    <3> HIDE DEF ahead
    <3> QED
      BY <3>1, <3>2, OrderStrict, NodesFinite, ChainLast DEF From
  <2> HIDE DEF ahead
  <2> QED
    BY <1>4, <2>1
<1>8. p \in live /\ p \in Nodes /\ c \in From(p) /\ c # p
  BY <1>2, <1>7
<1>9. From(p) = {p} \cup From(next[p])
  BY <1>8, ChainCons DEF From
<1>10. c \in From(next[p])
  BY <1>8, <1>9
<1>11. next[p] # NULL
  BY <1>10, ChainEmpty, NullAssumption DEF From
<1>12. p # h
  BY <1>1, <1>5, <1>6, <1>7
<1>13. p[1] # "head"
  <2>1. p \in From(next[h])
    BY <1>1, <1>5, <1>8, <1>12
  <2> QED
    BY <1>1, <2>1, Links DEF From
<1>14. p[1] # "tail"
  BY <1>8, <1>11 DEF ListInv, Ended
<1>15. ASSUME ~ Less(ListKey[p], key) PROVE FALSE
  <2>1. p \in From(c)
    BY <1>3, <1>8, <1>13, <1>15
  <2> QED
    BY <1>8, <1>10, <2>1, Links DEF From
<1>16. p[1] \in {"key", "sentinel"}
  BY <1>8, <1>13, <1>14, NodeKinds
<1> QED
  BY <1>8, <1>11, <1>15, <1>16 DEF Used

(* What it unlinks is dead. *)
LEMMA UnlinkedSkips ==
    ASSUME ListInv(next, marked, buckets), NEW b \in buckets,
           NEW c \in From(HeadOf(b)), c \notin marked
    PROVE  Skips(next, Unlinked(b, c), marked)
<1> DEFINE f2 == Unlinked(b, c)
           behind(m) == From(m) \ marked
<1>1. /\ b \in Buckets /\ next \in [Nodes -> Pointer]
      /\ \A n \in Nodes : Reach(n) = From(n)
  BY ReachFrom DEF ListInv
<1>2. ASSUME NEW m \in Nodes, m \in Live(b), c \in Reach(m) \ {m}
      PROVE  /\ next[m] # NULL
             /\ FirstLive(next[m]) \in From(next[m])
             /\ From(next[m]) \ marked \subseteq From(FirstLive(next[m]))
  <2>1. From(m) = {m} \cup From(next[m])
    BY ChainCons DEF From
  <2>2. c \in From(next[m]) \ marked
    BY <1>1, <1>2, <2>1
  <2>3. next[m] # NULL /\ next[m] \in Nodes
    BY <2>2, ChainEmpty, NullAssumption DEF From
  <2> DEFINE n == next[m]
             H == From(n) \ marked
  <2>4. H \subseteq Nodes /\ H \subseteq From(n)
    BY ChainClosed DEF From
  <2>5. \E h \in H : H \subseteq From(h)
    <3>1. H # {}
      BY <2>2
    <3> HIDE DEF H, n
    <3> QED
      BY <2>4, <3>1, ChainFirst DEF From
  <2>6. Reach(n) \ marked = H
    BY <1>1, <2>3
  <2>7. FirstLive(n) = CHOOSE h \in H : \A l \in H : l \in Reach(h)
    BY <2>6 DEF FirstLive
  <2>8. \A h \in H : Reach(h) = From(h)
    BY <1>1, <2>4
  <2>9. FirstLive(n) \in H /\ H \subseteq From(FirstLive(n))
    <3> HIDE DEF H, n
    <3>1. \E h \in H : \A l \in H : l \in Reach(h)
      BY <2>5, <2>8
    <3>2. FirstLive(n) \in H /\ \A l \in H : l \in Reach(FirstLive(n))
      BY <2>7, <3>1
    <3> QED
      BY <2>8, <3>2
  <2> QED
    BY <2>3, <2>4, <2>9
<1>3. ASSUME NEW m \in Nodes
      PROVE  f2[m] = IF m \in Live(b) /\ c \in Reach(m) \ {m} THEN FirstLive(next[m]) ELSE next[m]
  BY DEF Unlinked
<1>4. ASSUME NEW m \in Nodes
      PROVE  /\ next[m] = NULL => f2[m] = NULL
             /\ next[m] # NULL => /\ f2[m] \in From(next[m])
                                  /\ From(next[m]) \ marked \subseteq From(f2[m])
             /\ f2[m] \in Pointer
  <2>1. next[m] # NULL => next[m] \in Nodes /\ next[m] \in From(next[m])
    BY Links, ChainCons DEF From
  <2>2. From(next[m]) \subseteq Nodes
    BY ChainClosed DEF From
  <2>3. CASE m \in Live(b) /\ c \in Reach(m) \ {m}
    <3>1. f2[m] = FirstLive(next[m])
      BY <1>3, <2>3
    <3> HIDE DEF f2
    <3> QED
      BY <1>2, <2>2, <2>3, <3>1 DEF Pointer
  <2>4. CASE ~ (m \in Live(b) /\ c \in Reach(m) \ {m})
    <3>1. f2[m] = next[m]
      BY <1>3, <2>4
    <3> HIDE DEF f2
    <3> QED
      BY <1>1, <2>1, <3>1
  <2> QED
    BY <2>3, <2>4
<1>5. f2 \in [Nodes -> Pointer]
  <2>1. f2 = [m \in Nodes |-> f2[m]]
    BY DEF Unlinked
  <2> HIDE DEF f2
  <2> QED
    BY <1>4, <2>1
<1> QED
  BY <1>4, <1>5 DEF Skips, From

-----------------------------------------------------------------------------
(* The inductive invariant.                                                *)

(* What a thread knows of its key and bucket, of the bucket it makes, and  *)
(* of the two nodes its search has found.                                  *)
Makes(u) == pc[u] \in {"aim", "join"}

TargetOf(u) ==
    /\ pc[u] # "idle" => k[u] \in Keys /\ \E n \in MinBits .. bits : bucket[u] = k[u] \cap Bits(n)
    /\ pc[u] \in {"find", "link", "mark"} => bucket[u] \in buckets
    /\ pc[u] = "resize" => seen[u] < MaxBits

MakesOf(u) ==
    /\ pc[u] \in {"publish", "aim", "join"} => making[u] # {} /\ Father(making[u]) \in buckets
    /\ Makes(u) => making[u] \in buckets

Goal(u) == IF pc[u] = "join" THEN SetSentinelKey(making[u]) ELSE SetKey(k[u])

BetweenOf(u) ==
    IF pc[u] \in {"join", "link", "mark"}
       THEN /\ pred[u] \in Nodes /\ pred[u][1] \in {"key", "sentinel"} /\ next[pred[u]] # NULL
            /\ curr[u] \in Nodes /\ curr[u][1] # "head" /\ Used(next, curr[u])
            /\ Less(ListKey[pred[u]], Goal(u))
            /\ pc[u] = "mark" => ListKey[curr[u]] = Goal(u)
            /\ pc[u] # "mark" => Less(Goal(u), ListKey[curr[u]])
       ELSE curr[u] = NULL

(* A bucket has one maker, and no search has found its sentinel yet.       *)
Apart ==
    \A u, v \in Threads :
       Makes(u) => /\ Makes(v) /\ making[v] = making[u] => v = u
                   /\ curr[v] # Sentinel(making[u])

(* The sentinel of a bucket that is being made is in its own list only.    *)
Separate(u, f) == Makes(u) => \A m \in Nodes : f[m] = Sentinel(making[u]) => m = HeadOf(making[u])

(* It leads to all live nodes behind the place where it is to be linked.   *)
Covers(u, f, d) ==
    pc[u] = "join" =>
       Chain(Nodes, f, curr[u]) \ d \subseteq Chain(Nodes, f, Sentinel(making[u]))

Solid(U, f, d) == \A u \in U : Separate(u, f) /\ Covers(u, f, d)

IInv == /\ TypeOK /\ Running
        /\ ListInv(next, marked, buckets)
        /\ \A u \in Threads : TargetOf(u) /\ MakesOf(u) /\ BetweenOf(u)
        /\ Apart
        /\ Solid(Threads, next, marked)
        /\ TailOf({}) \in From(HeadOf({}))

-----------------------------------------------------------------------------
(* Each change of the list keeps what the makers of buckets rely on.       *)
LEMMA SolidSkip ==
    ASSUME NEW f, NEW d, NEW bs, ListInv(f, d, bs), NEW f2, NEW e, Skips(f, f2, e),
           d \subseteq e, e \subseteq KeyNodes, \A m \in e : f[m] # NULL,
           NEW U, Solid(U, f, d), \A u \in U : making[u] \in Buckets
    PROVE  Solid(U, f2, e)
<1>1. /\ \A from : /\ Chain(Nodes, f2, from) \subseteq Chain(Nodes, f, from)
                   /\ Chain(Nodes, f, from) \ e \subseteq Chain(Nodes, f2, from)
      /\ \A b \in Buckets : (\A m \in Nodes : f[m] = Sentinel(b) => m = HeadOf(b))
                 => \A m \in Nodes : f2[m] = Sentinel(b) => m = HeadOf(b)
  BY SkipKeeps
<1>2. ASSUME NEW u \in U PROVE Separate(u, f2)
  BY <1>1 DEF Separate, Solid
<1>3. ASSUME NEW u \in U PROVE Covers(u, f2, e)
  <2> SUFFICES ASSUME pc[u] = "join"
               PROVE  Chain(Nodes, f2, curr[u]) \ e \subseteq
                         Chain(Nodes, f2, Sentinel(making[u]))
    BY DEF Covers
  <2>1. Chain(Nodes, f, curr[u]) \ d \subseteq Chain(Nodes, f, Sentinel(making[u]))
    BY DEF Solid, Covers
  <2> QED
    BY <1>1, <2>1
<1> QED
  BY <1>2, <1>3 DEF Solid

LEMMA SolidSplice ==
    ASSUME NEW f, NEW d, NEW bs, ListInv(f, d, bs),
           NEW p \in Nodes, NEW s \in Nodes,
           NEW f2 \in [Nodes -> Pointer], f2[p] = s, \A m \in Nodes \ {p} : f2[m] = f[m],
           p[1] \in {"key", "sentinel"}, f[p] # NULL, Used(f, s), Precedes(p, s),
           Chain(Nodes, f, f[p]) \ d \subseteq Chain(Nodes, f, s),
           p \notin d, NEW U, Solid(U, f, d),
           \A u \in U : Makes(u) => s # Sentinel(making[u])
    PROVE  Solid(U, f2, d)
<1>1. \A from : /\ Chain(Nodes, f2, from) \subseteq Chain(Nodes, f, from) \cup Chain(Nodes, f, s)
                /\ Chain(Nodes, f, from) \ d \subseteq Chain(Nodes, f2, from)
                /\ p \notin Chain(Nodes, f, from) =>
                       Chain(Nodes, f2, from) = Chain(Nodes, f, from)
                /\ p \in Chain(Nodes, f2, from) =>
                       Chain(Nodes, f, s) \subseteq Chain(Nodes, f2, from)
  BY SpliceKeeps
<1>2. ASSUME NEW u \in U PROVE Separate(u, f2)
  BY DEF Separate, Solid
<1>3. ASSUME NEW u \in U PROVE Covers(u, f2, d)
  <2> SUFFICES ASSUME pc[u] = "join"
               PROVE  Chain(Nodes, f2, curr[u]) \ d \subseteq
                         Chain(Nodes, f2, Sentinel(making[u]))
    BY DEF Covers
  <2> DEFINE c == curr[u]
             q == Sentinel(making[u])
  <2>1. Chain(Nodes, f, c) \ d \subseteq Chain(Nodes, f, q)
    BY DEF Solid, Covers
  <2> HIDE DEF c, q
  <2>2. CASE p \notin Chain(Nodes, f, c)
    BY <1>1, <2>1, <2>2 DEF c, q
  <2>3. CASE p \in Chain(Nodes, f, c)
    <3>1. Chain(Nodes, f, s) \subseteq Chain(Nodes, f2, q)
      BY <1>1, <2>1, <2>3
    <3> QED
      BY <1>1, <2>1, <3>1 DEF c, q
  <2> QED
    BY <2>2, <2>3
<1> QED
  BY <1>2, <1>3 DEF Solid

LEMMA SolidAim ==
    ASSUME NEW f, NEW d, NEW n \in Nodes, NEW c \in Nodes,
           NEW f2 \in [Nodes -> Pointer], f2[n] = c, \A m \in Nodes \ {n} : f2[m] = f[m],
           NEW U, Solid(U, f, d),
           \A u \in U : Makes(u) => c # Sentinel(making[u]),
           \A u \in U : pc[u] = "join" => /\ n \notin Chain(Nodes, f, curr[u])
                                          /\ n \notin Chain(Nodes, f, Sentinel(making[u]))
    PROVE  Solid(U, f2, d)
<1>1. ASSUME NEW u \in U PROVE Separate(u, f2)
  BY DEF Separate, Solid
<1>2. ASSUME NEW u \in U PROVE Covers(u, f2, d)
  <2>1. ASSUME pc[u] = "join"
        PROVE  /\ Chain(Nodes, f2, curr[u]) = Chain(Nodes, f, curr[u])
               /\ Chain(Nodes, f2, Sentinel(making[u])) = Chain(Nodes, f, Sentinel(making[u]))
    <3>1. /\ n \notin Chain(Nodes, f, curr[u])
          /\ n \notin Chain(Nodes, f, Sentinel(making[u]))
      BY <2>1
    <3> QED
      BY <3>1, ChainExcept
  <2> QED
    BY <2>1 DEF Covers, Solid
<1> QED
  BY <1>1, <1>2 DEF Solid

LEMMA SolidPublish ==
    ASSUME NEW f, NEW d, NEW bs, ListInv(f, d, bs), NEW b \in Buckets, b \notin bs,
           NEW U, Solid(U, f, d),
           \A u \in U : Makes(u) => making[u] \in Buckets \ {b},
           \A u \in U : pc[u] = "join" => /\ curr[u] \in Nodes /\ Used(f, curr[u])
                                          /\ Used(f, Sentinel(making[u]))
    PROVE  Solid(U, OwnList(b, f), d)
<1> DEFINE f2 == OwnList(b, f)
<1>1. /\ \A from \in Nodes : Used(f, from) => Chain(Nodes, f2, from) = Chain(Nodes, f, from)
      /\ \A c \in Buckets \ {b} : \A m \in Nodes : f2[m] = Sentinel(c) => f[m] = Sentinel(c)
  <2>1. ListInv(f, d, bs) /\ b \in Buckets /\ b \notin bs
    OBVIOUS
  <2> QED
    BY ONLY <2>1, PublishKeeps
<1> HIDE DEF f2
<1>2. ASSUME NEW u \in U PROVE Separate(u, f2)
  BY <1>1 DEF Separate, Solid
<1>3. ASSUME NEW u \in U PROVE Covers(u, f2, d)
  <2> SUFFICES ASSUME pc[u] = "join"
               PROVE  Chain(Nodes, f2, curr[u]) \ d \subseteq
                         Chain(Nodes, f2, Sentinel(making[u]))
    BY DEF Covers
  <2>1. Sentinel(making[u]) \in Nodes
    BY NodeKinds DEF Makes
  <2>2. Chain(Nodes, f, curr[u]) \ d \subseteq Chain(Nodes, f, Sentinel(making[u]))
    BY DEF Solid, Covers
  <2> QED
    BY <1>1, <2>1, <2>2
<1> QED
  BY <1>2, <1>3 DEF Solid, f2

(* A step of one thread leaves the others where they are. *)
LEMMA LocalStays ==
    ASSUME TypeOK, NEW t \in Threads, Step(t)
    PROVE  /\ \A u \in Threads \ {t} :
                 /\ pc'[u] = pc[u] /\ op'[u] = op[u] /\ k'[u] = k[u] /\ bucket'[u] = bucket[u]
                 /\ making'[u] = making[u] /\ pred'[u] = pred[u] /\ curr'[u] = curr[u]
                 /\ seen'[u] = seen[u]
           /\ alive' = alive
<1> USE DEF TypeOK, Goto, Aimed, Return, local, table, list
<1>1. CASE Call(t)
  BY <1>1 DEF Call
<1>2. CASE Get(t)
  BY <1>2 DEF Get
<1>3. CASE Publish(t)
  BY <1>3 DEF Publish
<1>4. CASE Aim(t)
  BY <1>4 DEF Aim
<1>5. CASE Join(t)
  BY <1>5 DEF Join
<1>6. CASE Find(t)
  BY <1>6 DEF Find
<1>7. CASE Link(t)
  BY <1>7 DEF Link
<1>8. CASE Mark(t)
  BY <1>8 DEF Mark
<1>9. CASE Count(t)
  BY <1>9 DEF Count
<1>10. CASE Resize(t)
  BY <1>10 DEF Resize
<1> QED
  BY <1>1, <1>2, <1>3, <1>4, <1>5, <1>6, <1>7, <1>8, <1>9, <1>10 DEF Step

(* What they know stays true. *)
LEMMA OthersStay ==
    ASSUME IInv, NEW t \in Threads, Step(t), buckets \subseteq buckets', bits <= bits',
           bits' \in Nat, \A m \in Nodes : Used(next, m) => Used(next', m)
    PROVE  \A u \in Threads \ {t} : TargetOf(u)' /\ MakesOf(u)' /\ BetweenOf(u)'
<1> SUFFICES ASSUME NEW u \in Threads \ {t} PROVE TargetOf(u)' /\ MakesOf(u)' /\ BetweenOf(u)'
  OBVIOUS
<1>1. /\ pc'[u] = pc[u] /\ k'[u] = k[u] /\ bucket'[u] = bucket[u] /\ making'[u] = making[u]
      /\ pred'[u] = pred[u] /\ curr'[u] = curr[u] /\ seen'[u] = seen[u]
  BY LocalStays DEF IInv
<1>2. TargetOf(u) /\ MakesOf(u) /\ BetweenOf(u) /\ bits \in Nat
  BY HashSetAssumption DEF IInv, TypeOK
<1>3. TargetOf(u)'
  <2>1. MinBits .. bits \subseteq MinBits .. bits'
    BY <1>2, HashSetAssumption
  <2> QED
    BY <1>1, <1>2, <2>1 DEF TargetOf
<1>4. MakesOf(u)'
  BY <1>1, <1>2 DEF MakesOf, Makes
<1>5. BetweenOf(u)'
  <2>1. Goal(u)' = Goal(u)
    BY <1>1 DEF Goal
  <2>2. ASSUME NEW m \in Nodes, next[m] # NULL, m[1] \in {"key", "sentinel"} PROVE next'[m] # NULL
    BY <2>2 DEF Used
  <2> QED
    BY <1>1, <1>2, <2>1, <2>2 DEF BetweenOf, Used
<1> QED
  BY <1>3, <1>4, <1>5

(* The bucket that is made first has its father. *)
LEMMA LineageFirst ==
    ASSUME NEW a \in Buckets, NEW bs, {} \in bs, Lineage(a) \ bs # {},
           NEW b, b = CHOOSE x \in Lineage(a) \ bs : \A c \in Lineage(a) \ bs : x \subseteq c
    PROVE  b \in Buckets /\ b \notin bs /\ b # {} /\ Father(b) \in bs
<1> USE HashSetAssumption
<1> DEFINE T == {n \in 0 .. MaxBits : a \cap Bits(n) \notin bs}
           missing == Lineage(a) \ bs
<1>1. missing = {a \cap Bits(n) : n \in T}
  BY DEF Lineage
<1>2. PICK n \in T : \A j \in T : n <= j
  <2>1. T # {}
    BY <1>1
  <2>2. MaxBits + 1 \in Nat /\ T \subseteq Bits(MaxBits + 1)
    BY DEF Bits
  <2> HIDE DEF T
  <2> QED
    BY <2>1, <2>2, Greatest
<1> DEFINE d == a \cap Bits(n)
<1>3. d \in missing
  BY <1>1
<1>4. ASSUME NEW c \in missing PROVE d \subseteq c
  <2>1. PICK j \in T : c = a \cap Bits(j)
    BY <1>1
  <2>2. Bits(n) \subseteq Bits(j)
    BY <1>2, <2>1 DEF Bits
  <2> QED
    BY <2>1, <2>2
<1>5. b = d
  <2>1. \E x \in missing : \A c \in missing : x \subseteq c
    BY <1>3, <1>4
  <2>2. b \in missing /\ \A c \in missing : b \subseteq c
    <3> HIDE DEF missing
    <3>1. b = CHOOSE x \in missing : \A c \in missing : x \subseteq c
      BY DEF missing
    <3> QED
      BY <2>1, <3>1
  <2> QED
    BY <1>3, <1>4, <2>2
<1>6. d \in Buckets /\ d \notin bs /\ d # {}
  BY <1>3 DEF Buckets
<1>7. PICK h \in d : \A j \in d : j <= h
  <2>1. d \subseteq Bits(MaxBits) /\ MaxBits \in Nat
    BY <1>6 DEF Buckets
  <2> HIDE DEF d
  <2> QED
    BY <1>6, <2>1, Greatest
<1>8. h \in Int /\ h < n /\ h \in 0 .. MaxBits /\ d \subseteq Int /\ n \in Int
  BY <1>6, <1>7 DEF Buckets, Bits
<1>9. Father(d) = a \cap Bits(h)
  <2>1. Father(d) = {i \in d : i < h}
    BY <1>7, <1>8 DEF Father
  <2>2. ASSUME NEW i \in a, i \in Bits(h) PROVE i \in d /\ i < h
    BY <1>8, <2>2 DEF Bits
  <2>3. ASSUME NEW i \in d, i < h PROVE i \in a /\ i \in Bits(h)
    BY <1>8, <2>3 DEF Bits
  <2> QED
    BY <2>1, <2>2, <2>3
<1>10. h \notin T
  BY <1>2, <1>8
<1> QED
  BY <1>5, <1>6, <1>8, <1>9, <1>10

(* What the invariant says of a thread. *)
LEMMA ThreadFacts ==
    ASSUME IInv, NEW u \in Threads
    PROVE  /\ making[u] \in Buckets /\ bucket[u] \in Buckets /\ Sentinel(making[u]) \in Nodes
           /\ Makes(u) => making[u] \in buckets /\ Used(next, Sentinel(making[u]))
           /\ pc[u] = "join" => curr[u] \in Nodes /\ Used(next, curr[u])
           /\ pc[u] # "idle" => /\ SetKey(k[u]) \in Words
                                /\ Less(SetSentinelKey(bucket[u]), SetKey(k[u]))
           /\ Goal(u) \in Words \/ pc[u] = "idle"
<1>1. making[u] \in Buckets /\ bucket[u] \in Buckets /\ Sentinel(making[u]) \in Nodes
  BY NodeKinds DEF IInv, TypeOK
<1>2. TargetOf(u) /\ MakesOf(u) /\ BetweenOf(u) /\ bits \in MinBits .. MaxBits
  BY DEF IInv, TypeOK
<1>3. Makes(u) => making[u] \in buckets /\ Used(next, Sentinel(making[u]))
  BY <1>1, <1>2 DEF MakesOf, IInv, ListInv, Bucketed, Used
<1>4. ASSUME pc[u] # "idle"
      PROVE  SetKey(k[u]) \in Words /\ Less(SetSentinelKey(bucket[u]), SetKey(k[u]))
  <2>1. PICK n \in MinBits .. bits : bucket[u] = k[u] \cap Bits(n)
    BY <1>2, <1>4 DEF TargetOf
  <2>2. n \in MinBits .. MaxBits
    BY <1>2, <2>1, HashSetAssumption
  <2> QED
    BY <1>2, <1>4, <2>1, <2>2, KeyOrder DEF TargetOf
<1>5. Goal(u) \in Words \/ pc[u] = "idle"
  BY <1>1, <1>4, KeyOrder DEF Goal
<1> QED
  BY <1>1, <1>2, <1>3, <1>4, <1>5 DEF BetweenOf

(* The parts of the invariant, put together after a step. *)
LEMMA Assemble ==
    ASSUME IInv, NEW t \in Threads, Step(t), TypeOK', pc'[t] # "abort",
           ListInv(next', marked', buckets'), buckets \subseteq buckets', bits <= bits',
           \A m \in Nodes : Used(next, m) => Used(next', m),
           From(HeadOf({})) \ marked' \subseteq Chain(Nodes, next', HeadOf({})),
           TargetOf(t)', MakesOf(t)', BetweenOf(t)', Apart',
           Solid(Threads \ {t}, next', marked'),
           Separate(t, next)', Covers(t, next, marked)'
    PROVE  IInv' /\ Main \ marked' \subseteq Main'
<1>1. \A u \in Threads \ {t} : /\ pc'[u] = pc[u] /\ making'[u] = making[u] /\ curr'[u] = curr[u]
  BY LocalStays DEF IInv
<1>2. Running'
  BY <1>1 DEF Running, IInv
<1>3. \A u \in Threads \ {t} : TargetOf(u)' /\ MakesOf(u)' /\ BetweenOf(u)'
  <2>1. bits' \in Nat
    BY HashSetAssumption DEF TypeOK
  <2> QED
    BY <2>1, OthersStay
<1>4. Solid(Threads, next, marked)'
  <2>1. ASSUME NEW u \in Threads \ {t} PROVE Separate(u, next)' /\ Covers(u, next, marked)'
    <3>1. Separate(u, next') /\ Covers(u, next', marked')
      BY DEF Solid
    <3> QED
      BY <1>1, <3>1 DEF Separate, Covers, Makes
  <2> QED
    BY <2>1 DEF Solid
<1>5. (TailOf({}) \in From(HeadOf({})))'
  <2>1. TailOf({}) \in From(HeadOf({})) /\ TailOf({}) \notin marked'
    BY NodeKinds, KeyOrder DEF IInv, ListInv
  <2> QED
    BY <2>1 DEF From
<1>6. ListInv(next, marked, buckets)'
  OBVIOUS
<1>7. IInv'
  BY <1>2, <1>3, <1>4, <1>5, <1>6 DEF IInv
<1>8. Main' = Chain(Nodes, next', HeadOf({}))
  <2>1. HeadOf({}) \in Nodes
    BY NodeKinds, KeyOrder
  <2> QED
    BY <2>1, WalkChain DEF Main, ChainOf, Reach, ListInv
<1>9. Main = From(HeadOf({}))
  BY ReachFrom DEF IInv
<1> QED
  BY <1>7, <1>8, <1>9

LEMMA ApartStays ==
    ASSUME IInv, NEW t \in Threads, Step(t),
           Makes(t)' => Makes(t) /\ making'[t] = making[t],
           \A u \in Threads : Makes(u) => curr'[t] # Sentinel(making[u])
    PROVE  Apart'
<1>1. \A u \in Threads \ {t} : pc'[u] = pc[u] /\ making'[u] = making[u] /\ curr'[u] = curr[u]
  BY LocalStays DEF IInv
<1>2. ASSUME NEW u \in Threads, Makes(u)'
      PROVE  Makes(u) /\ making'[u] = making[u]
  BY <1>1, <1>2 DEF Makes
<1>3. ASSUME NEW u \in Threads, NEW v \in Threads, Makes(u)'
      PROVE  /\ Makes(v)' /\ making'[v] = making'[u] => v = u
             /\ curr'[v] # Sentinel(making'[u])
  <2>1. Makes(u) /\ making'[u] = making[u]
    BY <1>2, <1>3
  <2>2. Makes(v)' /\ making'[v] = making'[u] => v = u
    BY <1>2, <2>1 DEF IInv, Apart
  <2>3. curr'[v] # Sentinel(making'[u])
    <3>1. CASE v = t
      BY <2>1, <3>1
    <3>2. CASE v # t
      BY <1>1, <2>1, <3>2 DEF IInv, Apart
    <3> QED
      BY <3>1, <3>2
  <2> QED
    BY <2>2, <2>3
<1> QED
  BY <1>3 DEF Apart

(* A step that does not touch the list. *)
LEMMA Quiet ==
    ASSUME IInv, NEW t \in Threads, Step(t), TypeOK', pc'[t] \notin {"abort", "join"},
           next' = next, marked' = marked, buckets' = buckets, bits <= bits',
           TargetOf(t)', MakesOf(t)', BetweenOf(t)',
           Makes(t)' => Makes(t) /\ making'[t] = making[t],
           curr'[t] = curr[t] \/ curr'[t] = NULL
    PROVE  IInv' /\ Main \ marked' \subseteq Main'
<1>1. Apart'
  <2>1. \A u \in Threads : Makes(u) => curr[t] # Sentinel(making[u])
    BY DEF IInv, Apart
  <2>2. \A u \in Threads : Sentinel(making[u]) # NULL
    BY ThreadFacts, NullAssumption
  <2> QED
    BY <2>1, <2>2, ApartStays
<1>2. Separate(t, next)' /\ Covers(t, next, marked)'
  BY DEF IInv, Solid, Separate, Covers
<1>3. Solid(Threads \ {t}, next', marked')
  BY DEF IInv, Solid
<1>4. /\ ListInv(next', marked', buckets')
      /\ \A m \in Nodes : Used(next, m) => Used(next', m)
      /\ From(HeadOf({})) \ marked' \subseteq Chain(Nodes, next', HeadOf({}))
  BY DEF IInv, From
<1> QED
  BY <1>1, <1>2, <1>3, <1>4, Assemble

LEMMA CallStep ==
    ASSUME IInv, NEW t \in Threads, Call(t)
    PROVE  IInv' /\ Main \ marked' \subseteq Main'
<1> USE DEF Call, Goto, table, list
<1>1. PICK o \in {"insert", "lookup", "remove"}, x \in Keys :
         /\ op' = [op EXCEPT ![t] = o] /\ k' = [k EXCEPT ![t] = x]
         /\ bucket' = [bucket EXCEPT ![t] = x \cap Bits(bits)]
  OBVIOUS
<1>2. TypeOK /\ bits \in MinBits .. MaxBits /\ pc[t] = "idle" /\ curr[t] = NULL
  BY DEF IInv, TypeOK, BetweenOf
<1>3. /\ next' = next /\ marked' = marked /\ buckets' = buckets /\ bits' = bits /\ making' = making
      /\ pred' = pred /\ curr' = curr /\ pc' = [pc EXCEPT ![t] = "get"] /\ seen' = seen
      /\ num_e' = num_e /\ alive' = alive
  OBVIOUS
<1>4. x \cap Bits(bits) \in Buckets
  BY <1>2, KeyOrder
<1>5. pc'[t] = "get" /\ k'[t] = x /\ bucket'[t] = x \cap Bits(bits) /\ Step(t)
  BY <1>1, <1>2, <1>3 DEF TypeOK, Step
<1> HIDE DEF Call
<1>6. TypeOK'
  BY <1>1, <1>2, <1>3, <1>4 DEF TypeOK
<1>7. TargetOf(t)' /\ MakesOf(t)' /\ BetweenOf(t)' /\ ~ Makes(t)'
  <2>1. bits \in MinBits .. bits
    BY <1>2, HashSetAssumption
  <2>2. TargetOf(t)'
    BY <1>3, <1>5, <2>1 DEF TargetOf
  <2> QED
    BY <1>2, <1>3, <1>5, <2>2 DEF MakesOf, BetweenOf, Makes
<1>8. bits <= bits'
  BY <1>2, <1>3, HashSetAssumption
<1> QED
  BY <1>3, <1>5, <1>6, <1>7, <1>8, Quiet

LEMMA GetStep ==
    ASSUME IInv, NEW t \in Threads, Get(t)
    PROVE  IInv' /\ Main \ marked' \subseteq Main'
<1> USE DEF Get, Goto, table, list
<1>1. /\ next' = next /\ marked' = marked /\ buckets' = buckets /\ bits' = bits
      /\ pred' = pred /\ curr' = curr /\ seen' = seen /\ num_e' = num_e /\ alive' = alive
      /\ op' = op /\ k' = k /\ bucket' = bucket /\ pc[t] = "get"
  OBVIOUS
<1>2. /\ TypeOK /\ bits \in MinBits .. MaxBits /\ {} \in buckets /\ bucket[t] \in Buckets
      /\ TargetOf(t) /\ curr[t] = NULL
  BY ThreadFacts DEF IInv, TypeOK, ListInv, Bucketed, BetweenOf
<1>3. bits <= bits' /\ bits \in Nat
  BY <1>1, <1>2, HashSetAssumption
<1> DEFINE missing == Lineage(bucket[t]) \ buckets
<1>4. CASE missing = {}
  <2>1. pc' = [pc EXCEPT ![t] = "find"] /\ making' = making
    BY <1>4
  <2>2. pc'[t] = "find" /\ Step(t)
    BY <1>2, <2>1 DEF TypeOK, Step
  <2> HIDE DEF Get
  <2>3. TypeOK'
    BY <1>1, <1>2, <2>1 DEF TypeOK
  <2>4. bucket[t] \in buckets
    <3>1. bucket[t] = bucket[t] \cap Bits(MaxBits) /\ MaxBits \in 0 .. MaxBits
      BY <1>2, HashSetAssumption DEF Buckets
    <3>2. bucket[t] \in Lineage(bucket[t])
      BY <3>1 DEF Lineage
    <3> QED
      BY <1>4, <3>2
  <2>5. TargetOf(t)' /\ MakesOf(t)' /\ BetweenOf(t)' /\ ~ Makes(t)'
    BY <1>1, <1>2, <2>2, <2>4 DEF TargetOf, MakesOf, BetweenOf, Makes
  <2> QED
    BY <1>1, <1>3, <2>2, <2>3, <2>5, Quiet
<1>5. CASE missing # {}
  <2> DEFINE b == CHOOSE x \in missing : \A c \in missing : x \subseteq c
  <2>1. pc' = [pc EXCEPT ![t] = "publish"] /\ making' = [making EXCEPT ![t] = b]
    BY <1>5
  <2>2. b \in Buckets /\ b # {} /\ Father(b) \in buckets
    BY <1>2, <1>5, LineageFirst
  <2> HIDE DEF b
  <2>3. pc'[t] = "publish" /\ making'[t] = b /\ Step(t)
    BY <1>2, <2>1 DEF TypeOK, Step
  <2> HIDE DEF Get
  <2>4. TypeOK'
    BY <1>1, <1>2, <2>1, <2>2 DEF TypeOK
  <2>5. TargetOf(t)' /\ MakesOf(t)' /\ BetweenOf(t)' /\ ~ Makes(t)'
    BY <1>1, <1>2, <2>2, <2>3 DEF TargetOf, MakesOf, BetweenOf, Makes
  <2> QED
    BY <1>1, <1>3, <2>3, <2>4, <2>5, Quiet
<1> QED
  BY <1>4, <1>5

(* What a thread forgets when its call ends. *)
LEMMA Returns ==
    ASSUME IInv, NEW t \in Threads, Return(t)
    PROVE  /\ pc'[t] = "idle" /\ curr'[t] = NULL
           /\ /\ bits' \in MinBits .. MaxBits /\ num_e' \in Nat /\ buckets' \subseteq Buckets
              /\ next' \in [Nodes -> Pointer] /\ marked' \subseteq KeyNodes /\ alive' = alive
              => TypeOK'
           /\ TargetOf(t)' /\ MakesOf(t)' /\ BetweenOf(t)' /\ ~ Makes(t)'
<1>1. /\ making' = making
      /\ pc' = [pc EXCEPT ![t] = "idle"] /\ pred' = [pred EXCEPT ![t] = NULL]
      /\ curr' = [curr EXCEPT ![t] = NULL] /\ op' = [op EXCEPT ![t] = "none"]
      /\ k' = [k EXCEPT ![t] = NULL] /\ bucket' = [bucket EXCEPT ![t] = {}]
      /\ seen' = [seen EXCEPT ![t] = 0]
  BY DEF Return, Goto, Aimed
<1>2. pc'[t] = "idle" /\ curr'[t] = NULL
  BY <1>1 DEF IInv, TypeOK
<1>3. /\ pc' \in [Threads -> {"idle", "get", "publish", "aim", "join", "find", "link",
                               "mark", "count", "resize", "abort"}]
      /\ op' \in [Threads -> {"none", "insert", "lookup", "remove"}]
      /\ k' \in [Threads -> Keys \cup {NULL}]
      /\ bucket' \in [Threads -> Buckets] /\ making' \in [Threads -> Buckets]
      /\ pred' \in [Threads -> Pointer] /\ curr' \in [Threads -> Pointer]
      /\ seen' \in [Threads -> Nat] /\ alive \in BOOLEAN
  BY <1>1, KeyOrder DEF IInv, TypeOK, Pointer
<1> QED
  BY <1>1, <1>2, <1>3 DEF TargetOf, MakesOf, BetweenOf, Makes, TypeOK

LEMMA CountStep ==
    ASSUME IInv, NEW t \in Threads, Count(t)
    PROVE  IInv' /\ Main \ marked' \subseteq Main'
<1> USE DEF Count, Goto, list
<1>1. /\ next' = next /\ marked' = marked /\ buckets' = buckets /\ bits' = bits
      /\ num_e' = num_e + 1 /\ alive' = alive /\ pc[t] = "count"
  OBVIOUS
<1>2. TypeOK /\ bits \in MinBits .. MaxBits /\ TargetOf(t) /\ Step(t) /\ curr[t] = NULL
  BY DEF IInv, TypeOK, Step, BetweenOf
<1>3. bits <= bits' /\ bits \in Nat
  BY <1>1, <1>2, HashSetAssumption
<1>4. CASE num_e > 2 ^ bits /\ bits < MaxBits
  <2>1. /\ pc' = [pc EXCEPT ![t] = "resize"] /\ seen' = [seen EXCEPT ![t] = bits]
        /\ op' = op /\ k' = k /\ bucket' = bucket /\ making' = making
        /\ pred' = pred /\ curr' = curr
    BY <1>4
  <2>2. pc'[t] = "resize" /\ seen'[t] = bits
    BY <1>2, <2>1 DEF TypeOK
  <2> HIDE DEF Count
  <2>3. TypeOK'
    BY <1>1, <1>2, <1>3, <2>1 DEF TypeOK
  <2>4. TargetOf(t)' /\ MakesOf(t)' /\ BetweenOf(t)' /\ ~ Makes(t)'
    BY <1>1, <1>2, <1>4, <2>1, <2>2 DEF TargetOf, MakesOf, BetweenOf, Makes
  <2> QED
    BY <1>1, <1>2, <1>3, <2>1, <2>2, <2>3, <2>4, Quiet
<1>5. CASE ~ (num_e > 2 ^ bits /\ bits < MaxBits)
  <2>1. Return(t)
    BY <1>5
  <2>2. /\ pc'[t] = "idle" /\ curr'[t] = NULL
        /\ TargetOf(t)' /\ MakesOf(t)' /\ BetweenOf(t)' /\ ~ Makes(t)'
    BY <2>1, Returns
  <2> HIDE DEF Count
  <2>3. TypeOK'
    <3>1. num_e + 1 \in Nat
      BY <1>2 DEF TypeOK
    <3>2. /\ bits' \in MinBits .. MaxBits /\ num_e' \in Nat /\ buckets' \subseteq Buckets
          /\ next' \in [Nodes -> Pointer] /\ marked' \subseteq KeyNodes
      BY <1>1, <1>2, <3>1 DEF TypeOK
    <3> QED
      BY <1>1, <2>1, <3>2, Returns
  <2> QED
    BY <1>1, <1>2, <1>3, <2>2, <2>3, Quiet
<1> QED
  BY <1>4, <1>5

LEMMA ResizeStep ==
    ASSUME IInv, NEW t \in Threads, Resize(t)
    PROVE  IInv' /\ Main \ marked' \subseteq Main'
<1> USE DEF Resize, list
<1>1. /\ next' = next /\ marked' = marked /\ buckets' = buckets
      /\ bits' = IF bits = seen[t] THEN bits + 1 ELSE bits
      /\ num_e' = num_e /\ alive' = alive /\ pc[t] = "resize" /\ Return(t)
  OBVIOUS
<1>2. TypeOK /\ bits \in MinBits .. MaxBits /\ TargetOf(t) /\ Step(t)
  BY DEF IInv, TypeOK, Step
<1> HIDE DEF Resize
<1>3. bits <= bits' /\ bits' \in MinBits .. MaxBits
  BY <1>1, <1>2, HashSetAssumption DEF TargetOf
<1>4. TypeOK'
  <2>1. /\ num_e' \in Nat /\ buckets' \subseteq Buckets
        /\ next' \in [Nodes -> Pointer] /\ marked' \subseteq KeyNodes
    BY <1>1, <1>2 DEF TypeOK
  <2> QED
    BY <1>1, <1>3, <2>1, Returns
<1>5. /\ pc'[t] = "idle" /\ curr'[t] = NULL
      /\ TargetOf(t)' /\ MakesOf(t)' /\ BetweenOf(t)' /\ ~ Makes(t)'
  BY <1>1, Returns
<1> QED
  BY <1>1, <1>2, <1>3, <1>4, <1>5, Quiet

LEMMA PublishStep ==
    ASSUME IInv, NEW t \in Threads, Publish(t)
    PROVE  IInv' /\ Main \ marked' \subseteq Main'
<1> USE DEF Publish, Goto, table, list
<1> DEFINE b == making[t]
<1>1. /\ bits' = bits /\ num_e' = num_e /\ marked' = marked /\ alive' = alive
      /\ op' = op /\ k' = k /\ bucket' = bucket /\ pred' = pred /\ curr' = curr /\ seen' = seen
      /\ pc[t] = "publish"
  OBVIOUS
<1>2. /\ TypeOK /\ bits \in MinBits .. MaxBits /\ TargetOf(t) /\ MakesOf(t) /\ curr[t] = NULL
      /\ ListInv(next, marked, buckets) /\ b \in Buckets /\ Step(t)
      /\ Apart /\ Solid(Threads, next, marked)
  BY ThreadFacts DEF IInv, TypeOK, BetweenOf, Step
<1>3. bits <= bits' /\ bits \in Nat
  BY <1>1, <1>2, HashSetAssumption
<1>4. CASE Absent(b)
  <2>1. /\ buckets' = buckets \cup {b} /\ next' = OwnList(b, next)
        /\ pc' = [pc EXCEPT ![t] = "aim"] /\ making' = making
    BY <1>4
  <2> HIDE DEF Publish, b
  <2>2. b \notin buckets /\ pc'[t] = "aim" /\ making'[t] = b
    BY <1>2, <1>4, <2>1 DEF Absent, TypeOK, b
  <2>3. ListInv(next, marked, buckets) /\ b \in Buckets /\ b \notin buckets
    BY <1>2, <2>2
  <2>4. /\ ListInv(next', marked', buckets')
        /\ \A from \in Nodes : Used(next, from) => Chain(Nodes, next', from) = From(from)
        /\ \A m \in Nodes : Used(next, m) => Used(next', m)
        /\ \A m \in Nodes : next'[m] = Sentinel(b) => m = HeadOf(b)
    BY ONLY <1>1, <2>1, <2>3, PublishKeeps DEF From
  <2>5. TypeOK'
    <3>1. next' \in [Nodes -> Pointer] /\ buckets' \subseteq Buckets
      BY <2>4 DEF ListInv
    <3> QED
      BY <1>1, <1>2, <2>1, <3>1 DEF TypeOK
  <2>6. From(HeadOf({})) \ marked' \subseteq Chain(Nodes, next', HeadOf({}))
    <3>1. HeadOf({}) \in Nodes /\ Used(next, HeadOf({}))
      BY <1>2, KeyOrder, NodeKinds, NullAssumption DEF ListInv, Bucketed, Used
    <3> QED
      BY <2>4, <3>1
  <2>7. TargetOf(t)' /\ BetweenOf(t)'
    BY <1>1, <1>2, <2>2 DEF TargetOf, BetweenOf
  <2>8. MakesOf(t)'
    BY <1>1, <1>2, <2>1, <2>2 DEF MakesOf, b
  <2>9. \A u \in Threads : Sentinel(b) \in Nodes /\ curr[u] # Sentinel(b)
    <3>1. Sentinel(b) \in Nodes /\ Sentinel(b)[1] = "sentinel" /\ next[Sentinel(b)] = NULL
      BY <2>3, NodeKinds DEF ListInv, Bucketed
    <3>2. ~ Used(next, Sentinel(b))
      BY <3>1 DEF Used
    <3>3. \A u \in Threads : BetweenOf(u)
      BY DEF IInv
    <3> QED
      BY <3>1, <3>2, <3>3, NullAssumption DEF BetweenOf
  <2>10. \A u \in Threads \ {t} : pc'[u] = pc[u]
    BY <1>2, <2>1 DEF TypeOK
  <2>11. \A u \in Threads : Makes(u) => making[u] \in buckets
    BY ThreadFacts
  <2>12. Apart'
    <3>1. ASSUME NEW u \in Threads, NEW v \in Threads, Makes(u)'
          PROVE  /\ Makes(v)' /\ making'[v] = making'[u] => v = u
                 /\ curr'[v] # Sentinel(making'[u])
      <4>1. CASE u = t
        <5>1. making'[u] = b /\ curr'[v] = curr[v]
          BY <1>1, <2>2, <4>1
        <5>2. ASSUME v # t, Makes(v)' PROVE making'[v] # b
          BY <2>1, <2>2, <2>10, <2>11, <5>2 DEF Makes
        <5> QED
          BY <2>9, <4>1, <5>1, <5>2
      <4>2. CASE u # t
        <5>1. Makes(u) /\ making[u] # b
          BY <2>2, <2>10, <2>11, <3>1, <4>2 DEF Makes
        <5>2. CASE v = t
          BY <1>1, <1>2, <2>1, <2>2, <5>1, <5>2 DEF Apart
        <5>3. CASE v # t
          BY <1>1, <1>2, <2>1, <2>10, <5>1, <5>3 DEF Apart, Makes
        <5> QED
          BY <5>2, <5>3
      <4> QED
        BY <4>1, <4>2
    <3> QED
      BY <3>1 DEF Apart
  <2>13. Solid(Threads \ {t}, next', marked')
    <3> DEFINE U == Threads \ {t}
    <3>1. Solid(U, next, marked)
      BY <1>2 DEF Solid
    <3>2. \A u \in U : Makes(u) => making[u] \in Buckets \ {b}
      BY <2>2, <2>11, ThreadFacts
    <3>3. \A u \in U : pc[u] = "join" => /\ curr[u] \in Nodes /\ Used(next, curr[u])
                                         /\ Used(next, Sentinel(making[u]))
      BY ThreadFacts DEF Makes
    <3> HIDE DEF U
    <3>4. Solid(U, OwnList(b, next), marked)
      BY ONLY <2>3, <3>1, <3>2, <3>3, SolidPublish
    <3> QED
      BY <1>1, <2>1, <3>4 DEF U
  <2>14. Separate(t, next)' /\ Covers(t, next, marked)'
    BY <2>2, <2>4 DEF Separate, Covers
  <2> QED
    BY <1>2, <1>3, <2>1, <2>2, <2>4, <2>5, <2>6, <2>7, <2>8, <2>12, <2>13, <2>14, Assemble
<1>5. CASE ~ Absent(b)
  <2>1. /\ buckets' = buckets /\ next' = next
        /\ pc' = [pc EXCEPT ![t] = "get"] /\ making' = [making EXCEPT ![t] = {}]
    BY <1>5
  <2> HIDE DEF Publish
  <2>2. pc'[t] = "get"
    BY <1>2, <2>1 DEF TypeOK
  <2>3. TypeOK'
    BY <1>1, <1>2, <2>1, KeyOrder DEF TypeOK
  <2>4. TargetOf(t)' /\ MakesOf(t)' /\ BetweenOf(t)' /\ ~ Makes(t)'
    BY <1>1, <1>2, <2>2 DEF TargetOf, MakesOf, BetweenOf, Makes
  <2> QED
    BY <1>1, <1>2, <1>3, <2>1, <2>2, <2>3, <2>4, Quiet
<1> QED
  BY <1>4, <1>5

(* A search never ends at a sentinel that is still to be linked. *)
LEMMA NotSentinel ==
    ASSUME IInv, NEW b \in buckets, NEW key \in Words, Less(SetSentinelKey(b), key),
           NEW c, c = Found(b, key), NEW u \in Threads, Makes(u)
    PROVE  c # Sentinel(making[u])
<1>1. /\ ListInv(next, marked, buckets) /\ b \in Buckets /\ making[u] \in Buckets
      /\ \A m \in Nodes : next[m] = Sentinel(making[u]) => m = HeadOf(making[u])
  BY ThreadFacts DEF IInv, ListInv, Solid, Separate
<1>2. c \in From(HeadOf(b)) /\ ~ Less(ListKey[c], key)
  BY <1>1, FoundFirst
<1>3. CASE b = making[u]
  BY <1>1, <1>2, <1>3, NodeKinds
<1>4. CASE b # making[u]
  <2>1. HeadOf(b) \in Nodes /\ HeadOf(b) # Sentinel(making[u]) /\ HeadOf(b) # HeadOf(making[u])
    BY <1>1, <1>4, NodeKinds
  <2>2. Sentinel(making[u]) \notin From(HeadOf(b))
    BY <1>1, <2>1, OnlyHead DEF From
  <2> QED
    BY <1>2, <2>2
<1> QED
  BY <1>3, <1>4

LEMMA JoinStep ==
    ASSUME IInv, NEW t \in Threads, Join(t)
    PROVE  IInv' /\ Main \ marked' \subseteq Main'
<1> USE DEF Join, Goto, Aimed, table
<1> DEFINE p == pred[t]
           b == making[t]
           s == Sentinel(b)
           U == Threads \ {t}
<1>1. /\ bits' = bits /\ num_e' = num_e /\ buckets' = buckets /\ marked' = marked
      /\ alive' = alive /\ op' = op /\ k' = k /\ bucket' = bucket /\ seen' = seen
      /\ pred' = [pred EXCEPT ![t] = NULL] /\ curr' = [curr EXCEPT ![t] = NULL]
      /\ pc[t] = "join"
  OBVIOUS
<1>2. /\ TypeOK /\ bits \in MinBits .. MaxBits /\ ListInv(next, marked, buckets)
      /\ TargetOf(t) /\ MakesOf(t) /\ BetweenOf(t) /\ Step(t)
      /\ Apart /\ Solid(Threads, next, marked) /\ Covers(t, next, marked)
  BY DEF IInv, TypeOK, Step, Solid
<1>3. /\ bits <= bits' /\ bits \in Nat
      /\ pred' \in [Threads -> Pointer] /\ curr' \in [Threads -> Pointer]
      /\ curr'[t] = NULL
  BY <1>1, <1>2, HashSetAssumption DEF TypeOK, Pointer
<1>4. CASE Unchanged(t)
  <2>1. next' = [next EXCEPT ![p] = s] /\ pc' = [pc EXCEPT ![t] = "get"]
        /\ making' = [making EXCEPT ![t] = {}]
    BY <1>4
  <2>2. next[p] = curr[t] /\ p \notin marked
    BY <1>4 DEF Unchanged
  <2> HIDE DEF Join
  <2>3. pc'[t] = "get"
    BY <1>2, <2>1 DEF TypeOK
  <2>4. /\ p \in Nodes /\ p[1] \in {"key", "sentinel"} /\ next[p] # NULL
        /\ s \in Nodes /\ Used(next, s) /\ Precedes(p, s) /\ s \in Pointer /\ b \in Buckets
        /\ Chain(Nodes, next, next[p]) \ marked \subseteq Chain(Nodes, next, s)
    <3>1. b \in Buckets /\ s \in Nodes /\ Used(next, s)
      BY <1>1, ThreadFacts DEF Makes
    <3>2. p \in Nodes /\ p[1] \in {"key", "sentinel"} /\ next[p] # NULL
          /\ Less(ListKey[p], SetSentinelKey(b))
      BY <1>1, <1>2 DEF BetweenOf, Goal
    <3>3. Precedes(p, s)
      BY <3>1, <3>2, NodeKinds DEF Precedes
    <3>4. Chain(Nodes, next, next[p]) \ marked \subseteq Chain(Nodes, next, s)
      BY <1>1, <1>2, <2>2 DEF Covers
    <3> QED
      BY <3>1, <3>2, <3>3, <3>4 DEF Pointer
  <2>5. next' \in [Nodes -> Pointer] /\ next'[p] = s /\ \A m \in Nodes \ {p} : next'[m] = next[m]
    BY <1>2, <2>1, <2>4 DEF TypeOK
  <2>6. \A u \in U : Makes(u) => s # Sentinel(making[u])
    <3>1. ASSUME NEW u \in U, Makes(u) PROVE s # Sentinel(making[u])
      <4>1. making[u] \in Buckets /\ making[u] # b
        BY <1>1, <1>2, <3>1, ThreadFacts DEF Apart, Makes
      <4> QED
        BY <2>4, <4>1, NodeKinds
    <3> QED
      BY <3>1
  <2>7. Solid(U, next, marked)
    BY <1>2 DEF Solid
  <2> HIDE DEF p, s, b, U
  <2>8. /\ ListInv(next', marked, buckets)
        /\ \A from : Chain(Nodes, next, from) \ marked \subseteq Chain(Nodes, next', from)
        /\ \A m \in Nodes : Used(next, m) => Used(next', m)
    BY ONLY <1>2, <2>4, <2>5, SpliceKeeps
  <2>9. Solid(U, next', marked)
    BY ONLY <1>2, <2>2, <2>4, <2>5, <2>6, <2>7, SolidSplice
  <2>10. TypeOK'
    BY <1>1, <1>2, <1>3, <2>1, <2>5, KeyOrder DEF TypeOK
  <2>11. TargetOf(t)' /\ MakesOf(t)' /\ BetweenOf(t)' /\ ~ Makes(t)'
         /\ Separate(t, next)' /\ Covers(t, next, marked)'
    BY <1>1, <1>2, <1>3, <2>3 DEF TargetOf, MakesOf, BetweenOf, Makes, Separate, Covers
  <2>12. Apart'
    <3>1. \A u \in Threads : Sentinel(making[u]) # NULL
      BY ThreadFacts, NullAssumption
    <3> QED
      BY <1>2, <1>3, <2>11, <3>1, ApartStays
  <2> QED
    BY <1>1, <1>2, <1>3, <2>3, <2>8, <2>9, <2>10, <2>11, <2>12, Assemble DEF From, U
<1>5. CASE ~ Unchanged(t)
  <2>1. next' = next /\ making' = making /\ pc' = [pc EXCEPT ![t] = "aim"]
    BY <1>5
  <2> HIDE DEF Join
  <2>2. pc'[t] = "aim"
    BY <1>2, <2>1 DEF TypeOK
  <2>3. TypeOK'
    BY <1>1, <1>2, <1>3, <2>1 DEF TypeOK
  <2>4. TargetOf(t)' /\ MakesOf(t)' /\ BetweenOf(t)' /\ Makes(t)
    BY <1>1, <1>2, <1>3, <2>1, <2>2 DEF TargetOf, MakesOf, BetweenOf, Makes
  <2> QED
    BY <1>1, <1>2, <1>3, <2>1, <2>2, <2>3, <2>4, Quiet
<1> QED
  BY <1>4, <1>5

LEMMA AimStep ==
    ASSUME IInv, NEW t \in Threads, Aim(t)
    PROVE  IInv' /\ Main \ marked' \subseteq Main'
<1> DEFINE b == making[t]
           a == Father(b)
           key == SetSentinelKey(b)
           c == Found(a, key)
           p == Before(a, c)
           g == Unlinked(a, c)
           s == Sentinel(b)
           U == Threads \ {t}
<1>1. /\ bits' = bits /\ num_e' = num_e /\ buckets' = buckets /\ marked' = marked
      /\ alive' = alive /\ op' = op /\ k' = k /\ bucket' = bucket /\ seen' = seen
      /\ making' = making /\ pc[t] = "aim"
      /\ ListKey[c] # key =>
            /\ next' = [g EXCEPT ![s] = c] /\ pc' = [pc EXCEPT ![t] = "join"]
            /\ pred' = [pred EXCEPT ![t] = p] /\ curr' = [curr EXCEPT ![t] = c]
  BY DEF Aim, Goto, Aimed, table
<1>2. /\ TypeOK /\ bits \in MinBits .. MaxBits /\ ListInv(next, marked, buckets)
      /\ TargetOf(t) /\ MakesOf(t) /\ Step(t) /\ Makes(t)
      /\ Apart /\ Solid(Threads, next, marked)
  BY <1>1 DEF IInv, TypeOK, Step, Makes
<1>3. bits <= bits' /\ bits \in Nat
  BY <1>1, <1>2, HashSetAssumption
<1>4. /\ b \in Buckets /\ b # {} /\ b \in buckets /\ a \in buckets /\ s \in Nodes
      /\ key \in Words /\ key # Bits(Width) /\ Less(SetSentinelKey(a), key)
      /\ s[1] = "sentinel" /\ s[2] = b /\ ListKey[s] = key
  BY <1>1, <1>2, ThreadFacts, KeyOrder, NodeKinds DEF MakesOf, Makes
<1> HIDE DEF c, p, g, key, a
<1>5. /\ c \in From(HeadOf(a)) /\ c \notin marked /\ c \in Nodes /\ c[1] # "head" /\ Used(next, c)
      /\ ~ Less(ListKey[c], key)
  BY <1>2, <1>4, FoundFirst DEF c
<1>6. \A u \in Threads : Makes(u) => c # Sentinel(making[u])
  BY <1>4, NotSentinel DEF c
<1>7. ListKey[c] # key /\ Less(key, ListKey[c])
  <2>1. ASSUME c[1] = "key" PROVE ListKey[c] # key
    BY <1>4, <1>5, <2>1, NodeKinds, KeyOrder DEF key
  <2>2. ASSUME c[1] = "sentinel" PROVE ListKey[c] # key
    BY <1>2, <1>4, <1>5, <1>6, <2>2, NodeKinds, KeyOrder DEF key
  <2>3. ASSUME c[1] = "tail" PROVE ListKey[c] # key
    BY <1>4, <1>5, <2>3, NodeKinds
  <2>4. ListKey[c] # key
    BY <1>5, <2>1, <2>2, <2>3, NodeKinds
  <2>5. ListKey[c] \in Words
    BY <1>5, NodeKinds
  <2> QED
    BY <1>4, <1>5, <2>4, <2>5, LessOrder
<1>8. /\ next' = [g EXCEPT ![s] = c] /\ pc' = [pc EXCEPT ![t] = "join"]
      /\ pred' = [pred EXCEPT ![t] = p] /\ curr' = [curr EXCEPT ![t] = c]
  BY <1>1, <1>7
<1>9. /\ p \in Nodes /\ p[1] \in {"key", "sentinel"} /\ Used(next, p) /\ Less(ListKey[p], key)
  BY <1>2, <1>4, BeforeLast DEF p, c
<1>10. Skips(next, g, marked)
  BY <1>2, <1>4, <1>5, UnlinkedSkips DEF g
<1>11. marked \subseteq KeyNodes /\ \A m \in marked : next[m] # NULL
  BY <1>2 DEF ListInv, Ended, Nodes
<1>12. /\ ListInv(g, marked, buckets)
       /\ \A from : Chain(Nodes, next, from) \ marked \subseteq Chain(Nodes, g, from)
       /\ \A m \in Nodes : Used(g, m) <=> Used(next, m)
  BY ONLY <1>2, <1>10, <1>11, SkipKeeps
<1>13. Solid(Threads, g, marked)
  <2>1. \A u \in Threads : making[u] \in Buckets
    BY ThreadFacts
  <2> QED
    BY ONLY <1>2, <1>10, <1>11, <2>1, SolidSkip
<1>14. next' \in [Nodes -> Pointer] /\ next'[s] = c /\ \A m \in Nodes \ {s} : next'[m] = g[m]
  BY <1>4, <1>5, <1>8, <1>12 DEF ListInv, Pointer
<1>15. Used(g, c) /\ Precedes(s, c)
  BY <1>4, <1>5, <1>7, <1>12 DEF Precedes
<1>16. /\ ListInv(next', marked, buckets)
       /\ \A from : s \notin Chain(Nodes, g, from) =>
                       Chain(Nodes, next', from) = Chain(Nodes, g, from)
       /\ \A m \in Nodes : Used(g, m) => Used(next', m)
  BY ONLY <1>4, <1>5, <1>12, <1>14, <1>15, AimKeeps
<1>17. \A from \in Nodes : from # s /\ from # HeadOf(b) => s \notin Chain(Nodes, g, from)
  <2>1. \A m \in Nodes : g[m] = Sentinel(b) => m = HeadOf(b)
    BY <1>2, <1>13 DEF Solid, Separate
  <2> QED
    BY <1>4, <1>12, <2>1, OnlyHead
<1>18. Solid(U, next', marked)
  <2>1. Solid(U, g, marked) /\ \A u \in U : Makes(u) => c # Sentinel(making[u])
    BY <1>6, <1>13 DEF Solid
  <2>2. ASSUME NEW u \in U, pc[u] = "join"
        PROVE  /\ s \notin Chain(Nodes, g, curr[u])
               /\ s \notin Chain(Nodes, g, Sentinel(making[u]))
    <3>1. Makes(u) /\ making[u] # b /\ curr[u] # s /\ curr[u] \in Nodes /\ making[u] \in Buckets
      BY <1>2, <2>2, ThreadFacts DEF Apart, Makes
    <3>2. curr[u][1] # "head"
      BY <2>2 DEF IInv, BetweenOf
    <3>3. /\ curr[u] # HeadOf(b) /\ Sentinel(making[u]) # HeadOf(b) /\ Sentinel(making[u]) # s
          /\ Sentinel(making[u]) \in Nodes
      BY <1>4, <3>1, <3>2, NodeKinds
    <3> QED
      BY <1>17, <3>1, <3>3
  <2> HIDE DEF U, s
  <2> QED
    BY ONLY <1>4, <1>5, <1>14, <2>1, <2>2, SolidAim
<1>19. From(HeadOf({})) \ marked' \subseteq Chain(Nodes, next', HeadOf({}))
  <2>1. HeadOf({}) \in Nodes /\ HeadOf({}) # s /\ HeadOf({}) # HeadOf(b)
    BY <1>4, NodeKinds, KeyOrder
  <2> QED
    BY <1>1, <1>12, <1>16, <1>17, <2>1 DEF From
<1>20. /\ pc'[t] = "join" /\ making'[t] = b /\ curr'[t] = c /\ pred'[t] = p
  BY <1>1, <1>2, <1>8 DEF TypeOK
<1>21. TypeOK'
  <2>1. /\ pc' \in [Threads -> {"idle", "get", "publish", "aim", "join", "find", "link",
                                "mark", "count", "resize", "abort"}]
        /\ pred' \in [Threads -> Pointer] /\ curr' \in [Threads -> Pointer]
    BY <1>2, <1>5, <1>8, <1>9 DEF TypeOK, Pointer
  <2> QED
    BY <1>1, <1>2, <1>14, <2>1 DEF TypeOK
<1>22. \A m \in Nodes : Used(next, m) => Used(next', m)
  BY <1>12, <1>16
<1>23. TargetOf(t)' /\ MakesOf(t)' /\ BetweenOf(t)'
  <2>1. Goal(t)' = key
    BY <1>20 DEF Goal, key
  <2>2. next'[p] # NULL /\ Used(next', c)
    BY <1>5, <1>9, <1>22 DEF Used
  <2>3. BetweenOf(t)'
    BY <1>5, <1>7, <1>9, <1>20, <2>1, <2>2 DEF BetweenOf
  <2> QED
    BY <1>1, <1>2, <1>20, <2>3 DEF TargetOf, MakesOf, Makes
<1>24. Apart'
  BY <1>2, <1>6, <1>20, ApartStays
<1>25. Separate(t, next)' /\ Covers(t, next, marked)'
  <2>1. ASSUME NEW m \in Nodes, next'[m] = s PROVE m = HeadOf(b)
    <3>1. m # s
      BY <1>2, <1>6, <1>14, <2>1
    <3>2. g[m] = s
      BY <1>14, <2>1, <3>1
    <3> QED
      BY <1>2, <1>13, <3>2 DEF Solid, Separate
  <2>2. Chain(Nodes, next', c) \subseteq Chain(Nodes, next', s)
    BY <1>4, <1>14, ChainCons
  <2> QED
    BY <1>20, <2>1, <2>2 DEF Separate, Covers
<1> QED
  BY <1>1, <1>2, <1>3, <1>16, <1>18, <1>19, <1>20, <1>21, <1>22, <1>23, <1>24, <1>25, Assemble

(* A step that unlinks dead nodes, or lets one die. *)
LEMMA SkipStep ==
    ASSUME IInv, NEW t \in Threads, Step(t), TypeOK', pc'[t] \notin {"abort", "join"},
           Skips(next, next', marked'), marked \subseteq marked', marked' \subseteq KeyNodes,
           \A m \in marked' : next[m] # NULL, buckets' = buckets, bits' = bits,
           TargetOf(t)', MakesOf(t)', BetweenOf(t)', ~ Makes(t)',
           \A u \in Threads : Makes(u) => curr'[t] # Sentinel(making[u])
    PROVE  IInv' /\ Main \ marked' \subseteq Main'
<1>1. ListInv(next, marked, buckets) /\ Solid(Threads \ {t}, next, marked)
  BY DEF IInv, Solid
<1>2. /\ ListInv(next', marked', buckets)
      /\ \A from : Chain(Nodes, next, from) \ marked' \subseteq Chain(Nodes, next', from)
      /\ \A m \in Nodes : Used(next', m) <=> Used(next, m)
  BY <1>1, SkipKeeps
<1>3. Solid(Threads \ {t}, next', marked')
  <2>1. \A u \in Threads \ {t} : making[u] \in Buckets
    BY ThreadFacts
  <2> QED
    BY <1>1, <2>1, SolidSkip
<1>4. Apart'
  BY ApartStays
<1>5. Separate(t, next)' /\ Covers(t, next, marked)'
  BY DEF Separate, Covers
<1>6. bits <= bits'
  BY HashSetAssumption DEF IInv, TypeOK
<1> QED
  BY <1>2, <1>3, <1>4, <1>5, <1>6, Assemble DEF From

LEMMA FindStep ==
    ASSUME IInv, NEW t \in Threads, Find(t)
    PROVE  IInv' /\ Main \ marked' \subseteq Main'
<1> DEFINE b == bucket[t]
           key == SetKey(k[t])
           c == Found(b, key)
           p == Before(b, c)
           g == Unlinked(b, c)
           there == ListKey[c] = key
<1>1. /\ bits' = bits /\ num_e' = num_e /\ buckets' = buckets /\ marked' = marked
      /\ alive' = alive /\ pc[t] = "find"
      /\ \/ Return(t) /\ next' = next
         \/ Return(t) /\ next' = g
         \/ /\ pc' = [pc EXCEPT ![t] = IF there THEN "mark" ELSE "link"]
            /\ pred' = [pred EXCEPT ![t] = p] /\ curr' = [curr EXCEPT ![t] = c]
            /\ next' = g /\ op' = op /\ k' = k /\ bucket' = bucket /\ making' = making
            /\ seen' = seen
  BY DEF Find, Goto, Aimed, table
<1>2. /\ TypeOK /\ bits \in MinBits .. MaxBits /\ ListInv(next, marked, buckets)
      /\ TargetOf(t) /\ MakesOf(t) /\ Step(t) /\ curr[t] = NULL
  BY <1>1 DEF IInv, TypeOK, Step, BetweenOf
<1>3. bits <= bits'
  BY <1>1, <1>2, HashSetAssumption
<1>4. /\ b \in buckets /\ key \in Words /\ Less(SetSentinelKey(b), key)
  BY <1>1, <1>2, ThreadFacts DEF TargetOf
<1> HIDE DEF c, p, g, key, b
<1>5. /\ c \in From(HeadOf(b)) /\ c \notin marked /\ c \in Nodes /\ c[1] # "head" /\ Used(next, c)
      /\ ~ Less(ListKey[c], key)
  BY <1>2, <1>4, FoundFirst DEF c
<1>6. \A u \in Threads : Makes(u) => c # Sentinel(making[u]) /\ NULL # Sentinel(making[u])
  BY <1>4, NotSentinel, ThreadFacts, NullAssumption DEF c
<1>7. /\ p \in Nodes /\ p[1] \in {"key", "sentinel"} /\ Used(next, p) /\ Less(ListKey[p], key)
  BY <1>2, <1>4, BeforeLast DEF p, c
<1>8. Skips(next, g, marked)
  BY <1>2, <1>4, <1>5, UnlinkedSkips DEF g
<1>9. marked \subseteq KeyNodes /\ \A m \in marked : next[m] # NULL
  BY <1>2 DEF ListInv, Ended, Nodes
<1>10. g \in [Nodes -> Pointer]
  BY <1>8 DEF Skips
<1>11. CASE Return(t)
  <2>1. /\ pc'[t] = "idle" /\ curr'[t] = NULL
        /\ TargetOf(t)' /\ MakesOf(t)' /\ BetweenOf(t)' /\ ~ Makes(t)'
    BY <1>11, Returns
  <2>2. TypeOK'
    <3>1. /\ bits' \in MinBits .. MaxBits /\ num_e' \in Nat /\ buckets' \subseteq Buckets
          /\ marked' \subseteq KeyNodes /\ next \in [Nodes -> Pointer]
      BY <1>1, <1>2 DEF TypeOK
    <3>2. next' = next \/ next' = g
      BY <1>1, <1>2, <2>1
    <3> QED
      BY <1>1, <1>10, <1>11, <3>1, <3>2, Returns
  <2>3. CASE next' = next
    BY <1>1, <1>2, <1>3, <2>1, <2>2, <2>3, Quiet
  <2>4. CASE next' = g
    BY <1>1, <1>2, <1>6, <1>8, <1>9, <2>1, <2>2, <2>4, SkipStep
  <2> QED
    BY <1>1, <2>3, <2>4
<1>12. CASE ~ Return(t)
  <2>1. /\ pc' = [pc EXCEPT ![t] = IF there THEN "mark" ELSE "link"]
        /\ pred' = [pred EXCEPT ![t] = p] /\ curr' = [curr EXCEPT ![t] = c]
        /\ next' = g /\ op' = op /\ k' = k /\ bucket' = bucket /\ making' = making
        /\ seen' = seen
    BY <1>1, <1>12
  <2>2. /\ pc'[t] = IF there THEN "mark" ELSE "link"
        /\ pred'[t] = p /\ curr'[t] = c
    BY <1>2, <2>1 DEF TypeOK
  <2>3. TypeOK'
    <3>1. /\ pc' \in [Threads -> {"idle", "get", "publish", "aim", "join", "find", "link",
                                  "mark", "count", "resize", "abort"}]
          /\ pred' \in [Threads -> Pointer] /\ curr' \in [Threads -> Pointer]
      BY <1>2, <1>5, <1>7, <2>1 DEF TypeOK, Pointer
    <3> QED
      BY <1>1, <1>2, <1>10, <2>1, <3>1 DEF TypeOK
  <2>4. \A m \in Nodes : Used(next', m) <=> Used(next, m)
    BY ONLY <1>2, <1>8, <1>9, <2>1, SkipKeeps
  <2>5. BetweenOf(t)'
    <3>1. Goal(t)' = key
      BY <2>1, <2>2 DEF Goal, key
    <3>2. next'[p] # NULL /\ Used(next', c)
      BY <1>5, <1>7, <2>4 DEF Used
    <3>3. ~ there => Less(key, ListKey[c])
      <4>1. ListKey[c] \in Words
        BY <1>5, NodeKinds
      <4> QED
        BY <1>4, <1>5, <4>1, LessOrder
    <3> QED
      BY <1>5, <1>7, <2>2, <3>1, <3>2, <3>3 DEF BetweenOf
  <2>6. TargetOf(t)' /\ MakesOf(t)' /\ ~ Makes(t)'
    BY <1>1, <1>2, <1>4, <2>1, <2>2 DEF TargetOf, MakesOf, Makes, b
  <2>7. pc'[t] \notin {"abort", "join"}
    BY <2>2
  <2> QED
    BY <1>1, <1>2, <1>6, <1>8, <1>9, <2>1, <2>2, <2>3, <2>5, <2>6, <2>7, SkipStep
<1> QED
  BY <1>11, <1>12

LEMMA MarkStep ==
    ASSUME IInv, NEW t \in Threads, Mark(t)
    PROVE  IInv' /\ Main \ marked' \subseteq Main'
<1> USE DEF Mark, Goto, Aimed, table, list
<1> DEFINE p == pred[t]
           c == curr[t]
<1>1. /\ bits' = bits /\ num_e' = num_e /\ buckets' = buckets /\ alive' = alive /\ pc[t] = "mark"
  OBVIOUS
<1>2. /\ TypeOK /\ bits \in MinBits .. MaxBits /\ ListInv(next, marked, buckets)
      /\ TargetOf(t) /\ MakesOf(t) /\ BetweenOf(t) /\ Step(t)
  BY DEF IInv, TypeOK, Step
<1>3. bits <= bits' /\ \A u \in Threads : NULL # Sentinel(making[u])
  BY <1>1, <1>2, ThreadFacts, NullAssumption, HashSetAssumption
<1>4. CASE c \notin marked
  <2>1. /\ marked' = marked \cup {c} /\ Return(t)
        /\ next' = IF Unchanged(t) THEN [next EXCEPT ![p] = next[c]] ELSE next
    BY <1>4
  <2> HIDE DEF Mark
  <2>2. /\ p \in Nodes /\ c \in Nodes /\ next[p] # NULL /\ Used(next, c)
        /\ ListKey[c] = SetKey(k[t]) /\ k[t] \in Keys
    BY <1>1, <1>2 DEF BetweenOf, Goal, TargetOf
  <2>3. c \in KeyNodes /\ c[1] # "tail"
    <3>1. c[1] # "head"
      BY <1>1, <1>2 DEF BetweenOf
    <3>2. c[1] # "sentinel" /\ c[1] # "tail"
      BY <2>2, NodeKinds, KeyOrder
    <3> QED
      BY <2>2, <3>1, <3>2, NodeKinds
  <2>4. next[c] # NULL /\ next[c] \in Nodes
    BY <1>2, <2>2, <2>3, Links DEF Used
  <2>5. marked' \subseteq KeyNodes /\ marked \subseteq marked' /\ \A m \in marked' : next[m] # NULL
    BY <1>2, <2>1, <2>3, <2>4 DEF ListInv, Ended, Nodes
  <2>6. next' \in [Nodes -> Pointer]
    BY <1>2, <2>1, <2>4 DEF TypeOK, Pointer
  <2>7. Skips(next, next', marked')
    <3>1. ASSUME NEW m \in Nodes
          PROVE  /\ next[m] = NULL => next'[m] = NULL
                 /\ next[m] # NULL => /\ next'[m] \in Chain(Nodes, next, next[m])
                                      /\ Chain(Nodes, next, next[m]) \ marked' \subseteq
                                            Chain(Nodes, next, next'[m])
      <4>1. CASE next'[m] = next[m]
        <5>1. next[m] # NULL => next[m] \in Nodes
          BY <1>2, Links
        <5> QED
          BY <4>1, <5>1, ChainCons
      <4>2. CASE next'[m] # next[m]
        <5>1. Unchanged(t) /\ m = p /\ next'[m] = next[c]
          BY <1>2, <2>1, <3>1, <4>2 DEF TypeOK
        <5>2. next[m] = c
          BY <5>1 DEF Unchanged
        <5>3. Chain(Nodes, next, c) = {c} \cup Chain(Nodes, next, next[c])
          BY <2>2, ChainCons
        <5>4. next[c] \in Chain(Nodes, next, next[c])
          BY <2>4, ChainCons
        <5> QED
          BY <2>1, <2>2, <5>1, <5>2, <5>3, <5>4, NullAssumption
      <4> QED
        BY <4>1, <4>2
    <3> QED
      BY <2>6, <3>1 DEF Skips
  <2>8. /\ pc'[t] = "idle" /\ curr'[t] = NULL
        /\ TargetOf(t)' /\ MakesOf(t)' /\ BetweenOf(t)' /\ ~ Makes(t)'
    BY <2>1, Returns
  <2>9. TypeOK'
    <3>1. /\ bits' \in MinBits .. MaxBits /\ num_e' \in Nat /\ buckets' \subseteq Buckets
      BY <1>1, <1>2 DEF TypeOK
    <3> QED
      BY <1>1, <2>1, <2>5, <2>6, <3>1, Returns
  <2> QED
    BY <1>1, <1>2, <1>3, <2>5, <2>7, <2>8, <2>9, SkipStep
<1>5. CASE c \in marked
  <2>1. /\ next' = next /\ marked' = marked /\ pc' = [pc EXCEPT ![t] = "find"]
        /\ op' = op /\ k' = k /\ bucket' = bucket /\ making' = making /\ seen' = seen
        /\ pred' = [pred EXCEPT ![t] = NULL] /\ curr' = [curr EXCEPT ![t] = NULL]
    BY <1>5
  <2> HIDE DEF Mark
  <2>2. pc'[t] = "find" /\ curr'[t] = NULL
    BY <1>2, <2>1 DEF TypeOK
  <2>3. TypeOK'
    BY <1>1, <1>2, <2>1 DEF TypeOK, Pointer
  <2>4. TargetOf(t)' /\ MakesOf(t)' /\ BetweenOf(t)' /\ ~ Makes(t)'
    BY <1>1, <1>2, <2>1, <2>2 DEF TargetOf, MakesOf, BetweenOf, Makes
  <2> QED
    BY <1>1, <1>2, <1>3, <2>1, <2>2, <2>3, <2>4, Quiet
<1> QED
  BY <1>4, <1>5

LEMMA LinkStep ==
    ASSUME IInv, NEW t \in Threads, Link(t)
    PROVE  IInv' /\ Main \ marked' \subseteq Main'
<1> DEFINE p == pred[t]
           c == curr[t]
           n == CHOOSE m \in Fresh(k[t]) : TRUE
           g == [next EXCEPT ![n] = c]
           U == Threads \ {t}
<1>1. /\ bits' = bits /\ num_e' = num_e /\ buckets' = buckets /\ marked' = marked /\ alive' = alive
      /\ op' = op /\ k' = k /\ bucket' = bucket /\ making' = making /\ seen' = seen
      /\ pred' = [pred EXCEPT ![t] = NULL] /\ curr' = [curr EXCEPT ![t] = NULL] /\ pc[t] = "link"
      /\ \/ /\ Unchanged(t) /\ Fresh(k[t]) # {}
            /\ next' = [next EXCEPT ![n] = c, ![p] = n] /\ pc' = [pc EXCEPT ![t] = "count"]
         \/ next' = next /\ pc' = [pc EXCEPT ![t] = "find"]
  BY DEF Link, Goto, Aimed, table
<1>2. /\ TypeOK /\ bits \in MinBits .. MaxBits /\ ListInv(next, marked, buckets)
      /\ TargetOf(t) /\ MakesOf(t) /\ BetweenOf(t) /\ Step(t)
      /\ Apart /\ Solid(U, next, marked)
  BY <1>1 DEF IInv, TypeOK, Step, Solid
<1>3. /\ bits <= bits' /\ \A u \in Threads : NULL # Sentinel(making[u])
      /\ curr'[t] = NULL
  BY <1>1, <1>2, ThreadFacts, NullAssumption, HashSetAssumption DEF TypeOK
<1> HIDE DEF n
<1>4. CASE /\ Unchanged(t) /\ Fresh(k[t]) # {}
           /\ next' = [next EXCEPT ![n] = c, ![p] = n] /\ pc' = [pc EXCEPT ![t] = "count"]
  <2>1. n \in KeyNodes /\ n[2] = k[t] /\ next[n] = NULL
    <3>1. n \in Fresh(k[t])
      BY <1>4 DEF n
    <3> QED
      BY <3>1 DEF Fresh
  <2>2. /\ n \in Nodes /\ n[1] = "key" /\ ListKey[n] = SetKey(k[t]) /\ n \in Pointer /\ n # NULL
        /\ ~ Used(next, n)
    <3>1. n \in Nodes
      BY <2>1 DEF Nodes
    <3> QED
      BY <2>1, <3>1, NodeKinds DEF Pointer, Used
  <2>3. /\ p \in Nodes /\ p[1] \in {"key", "sentinel"} /\ next[p] # NULL
        /\ c \in Nodes /\ c[1] # "head" /\ Used(next, c) /\ c # NULL
        /\ Less(ListKey[p], SetKey(k[t])) /\ Less(SetKey(k[t]), ListKey[c])
        /\ next[p] = c /\ p \notin marked /\ p # n
    <3>1. next[p] = c /\ p \notin marked
      BY <1>4 DEF Unchanged
    <3> QED
      BY <1>1, <1>2, <2>1, <3>1, NullAssumption DEF BetweenOf, Goal
  <2>4. Precedes(p, n) /\ Precedes(n, c)
    BY <2>2, <2>3 DEF Precedes
  <2>5. /\ g \in [Nodes -> Pointer] /\ g[n] = c /\ \A m \in Nodes \ {n} : g[m] = next[m]
        /\ next' \in [Nodes -> Pointer] /\ next'[p] = n /\ \A m \in Nodes \ {p} : next'[m] = g[m]
    BY <1>2, <1>4, <2>2, <2>3 DEF TypeOK, Pointer
  <2>6. \A from \in Nodes : Used(next, from) => n \notin Chain(Nodes, next, from)
    BY <1>2, <2>2, Links
  <2> HIDE DEF g, p, c, U
  <2>7. /\ ListInv(g, marked, buckets)
        /\ \A from : n \notin Chain(Nodes, next, from) =>
              Chain(Nodes, g, from) = Chain(Nodes, next, from)
        /\ \A m \in Nodes : Used(next, m) => Used(g, m)
    <3>1. /\ ListInv(next, marked, buckets) /\ n \in Nodes /\ c \in Nodes
          /\ g \in [Nodes -> Pointer] /\ g[n] = c /\ \A m \in Nodes \ {n} : g[m] = next[m]
      BY <1>2, <2>2, <2>3, <2>5
    <3>2. /\ n[1] = "key" \/ (n[1] = "sentinel" /\ n[2] \in buckets)
          /\ Used(next, c) /\ Precedes(n, c)
      BY <2>2, <2>3, <2>4
    <3> QED
      BY ONLY <3>1, <3>2, AimKeeps
  <2>8. Solid(U, g, marked)
    <3>1. \A u \in U : Makes(u) => c # Sentinel(making[u])
      BY <1>2 DEF Apart, U, c
    <3>2. \A u \in U : pc[u] = "join" => /\ n \notin Chain(Nodes, next, curr[u])
                                         /\ n \notin Chain(Nodes, next, Sentinel(making[u]))
      BY <2>6, ThreadFacts DEF Makes, U
    <3> QED
      BY ONLY <1>2, <2>2, <2>3, <2>5, <3>1, <3>2, SolidAim
  <2>9. /\ g[p] = c /\ g[p] # NULL /\ Used(g, n)
        /\ Chain(Nodes, g, g[p]) \ marked \subseteq Chain(Nodes, g, n)
    <3>1. Chain(Nodes, g, n) = {n} \cup Chain(Nodes, g, c)
      BY <2>2, <2>5, ChainCons
    <3> QED
      BY <2>3, <2>5, <3>1 DEF Used
  <2>10. /\ ListInv(next', marked, buckets)
         /\ \A from : Chain(Nodes, g, from) \ marked \subseteq Chain(Nodes, next', from)
         /\ \A m \in Nodes : Used(g, m) => Used(next', m)
    BY ONLY <2>2, <2>3, <2>4, <2>5, <2>7, <2>9, SpliceKeeps
  <2>11. Solid(U, next', marked)
    <3>1. \A u \in U : Makes(u) => n # Sentinel(making[u])
      BY <2>2, ThreadFacts, NodeKinds DEF U
    <3> QED
      BY ONLY <2>2, <2>3, <2>4, <2>5, <2>7, <2>8, <2>9, <3>1, SolidSplice
  <2>12. From(HeadOf({})) \ marked' \subseteq Chain(Nodes, next', HeadOf({}))
    <3>1. HeadOf({}) \in Nodes /\ Used(next, HeadOf({}))
      BY <1>2, KeyOrder, NodeKinds, NullAssumption DEF ListInv, Bucketed, Used
    <3> QED
      BY <1>1, <2>6, <2>7, <2>10, <3>1 DEF From
  <2>13. pc'[t] = "count"
    BY <1>2, <1>4 DEF TypeOK
  <2>14. TypeOK'
    BY <1>1, <1>2, <1>4, <2>5 DEF TypeOK, Pointer
  <2>15. TargetOf(t)' /\ MakesOf(t)' /\ BetweenOf(t)' /\ ~ Makes(t)'
         /\ Separate(t, next)' /\ Covers(t, next, marked)'
    BY <1>1, <1>2, <1>3, <2>13 DEF TargetOf, MakesOf, BetweenOf, Makes, Separate, Covers
  <2>16. Apart'
    BY <1>2, <1>3, <2>15, ApartStays
  <2> QED
    BY <1>1, <1>2, <1>3, <2>7, <2>10, <2>11, <2>12, <2>13, <2>14, <2>15, <2>16, Assemble DEF U
<1>5. CASE next' = next /\ pc' = [pc EXCEPT ![t] = "find"]
  <2>1. pc'[t] = "find"
    BY <1>2, <1>5 DEF TypeOK
  <2>2. TypeOK'
    BY <1>1, <1>2, <1>5 DEF TypeOK, Pointer
  <2>3. TargetOf(t)' /\ MakesOf(t)' /\ BetweenOf(t)' /\ ~ Makes(t)'
    BY <1>1, <1>2, <1>3, <2>1 DEF TargetOf, MakesOf, BetweenOf, Makes
  <2> QED
    BY <1>1, <1>2, <1>3, <1>5, <2>1, <2>2, <2>3, Quiet
<1> QED
  BY <1>1, <1>4, <1>5

(* The list of hs_create: the head, the sentinel and the tail of bucket 0. *)
LEMMA InitInv == ASSUME Init PROVE IInv
<1> DEFINE h == HeadOf({})
           s == Sentinel({})
           e == TailOf({})
<1>1. /\ h \in Nodes /\ s \in Nodes /\ e \in Nodes /\ h # s /\ {} \in Buckets
      /\ h[1] = "head" /\ s[1] = "sentinel" /\ e[1] = "tail"
      /\ ListKey[s] = SetSentinelKey({}) /\ ListKey[e] = Bits(Width)
  BY NodeKinds, KeyOrder
<1>2. /\ next \in [Nodes -> Pointer] /\ next[h] = s /\ next[s] = e
      /\ \A m \in Nodes \ {h, s} : next[m] = NULL
  <2>1. next = [[n \in Nodes |-> NULL] EXCEPT ![h] = s, ![s] = e]
    BY DEF Init, OwnList
  <2> QED
    BY <1>1, <2>1 DEF Pointer
<1>3. h # NULL /\ s # NULL /\ e # NULL /\ e # h /\ e # s
  BY <1>1, NullAssumption
<1>4. Precedes(h, s) /\ Precedes(s, e)
  <2>1. Less(SetSentinelKey({}), Bits(Width))
    <3>1. /\ SetSentinelKey({}) \in Words /\ SetSentinelKey({}) # Bits(Width)
          /\ Bits(Width) \in Words
      BY KeyOrder
    <3> QED
      BY <3>1, LessOrder DEF Words
  <2> QED
    BY <1>1, <2>1 DEF Precedes
<1> HIDE DEF h, s, e
<1>5. Along(Nodes, next, Order)
  BY <1>1, <1>2, <1>4, OrderStrict, NullAssumption DEF Along
<1>6. Ended(next, {})
  <2>1. Used(next, s) /\ Used(next, e)
    BY <1>1, <1>2, <1>3 DEF Used
  <2>2. ASSUME NEW m \in Nodes
        PROVE  /\ m[1] = "tail" => next[m] = NULL
               /\ next[m] # NULL => Used(next, next[m])
    BY <1>1, <1>2, <2>1
  <2> QED
    BY <2>2 DEF Ended
<1>7. Bucketed(next, {{}})
  <2>1. ASSUME NEW b \in Buckets, b # {}
        PROVE  HeadOf(b) \in Nodes \ {h, s} /\ Sentinel(b) \in Nodes \ {h, s}
    BY <1>1, <2>1, NodeKinds DEF h, s
  <2> QED
    BY <1>2, <1>3, <2>1 DEF Bucketed, h, s
<1>8. ListInv(next, marked, buckets)
  <2>1. marked = {} /\ buckets = {{}}
    BY DEF Init
  <2> QED
    BY <1>1, <1>2, <1>5, <1>6, <1>7, <2>1 DEF ListInv
<1>9. TypeOK /\ Running
  <2>1. bits \in MinBits .. MaxBits /\ num_e \in Nat
    BY HashSetAssumption DEF Init
  <2> QED
    BY <1>1, <1>2, <2>1 DEF Init, TypeOK, Running, Pointer
<1>10. \A u \in Threads : pc[u] = "idle" /\ curr[u] = NULL
  BY DEF Init
<1>11. /\ \A u \in Threads : TargetOf(u) /\ MakesOf(u) /\ BetweenOf(u)
       /\ Apart /\ Solid(Threads, next, marked)
  BY <1>10 DEF TargetOf, MakesOf, BetweenOf, Makes, Apart, Solid, Separate, Covers
<1>12. e \in From(h)
  <2>1. From(h) = {h} \cup From(s) /\ From(s) = {s} \cup From(e) /\ e \in From(e)
    BY <1>1, <1>2, ChainCons DEF From
  <2> QED
    BY <2>1
<1> QED
  BY <1>8, <1>9, <1>11, <1>12 DEF IInv, h, e

(* Steps that only read, or end the table. *)
LEMMA SameList ==
    ASSUME IInv, UNCHANGED <<table, list, pc, local>>, alive' \in BOOLEAN
    PROVE  IInv' /\ Main \ marked' \subseteq Main'
<1>1. /\ bits' = bits /\ num_e' = num_e /\ buckets' = buckets /\ next' = next /\ marked' = marked
      /\ pc' = pc /\ op' = op /\ k' = k /\ bucket' = bucket /\ making' = making
      /\ pred' = pred /\ curr' = curr /\ seen' = seen
  BY DEF table, list, local
<1>2. TypeOK' /\ Running' /\ ListInv(next, marked, buckets)'
  BY <1>1 DEF IInv, TypeOK, Running
<1>3. \A u \in Threads : TargetOf(u)' /\ MakesOf(u)' /\ BetweenOf(u)'
  BY <1>1 DEF IInv, TargetOf, MakesOf, BetweenOf, Makes, Goal
<1>4. Apart' /\ Solid(Threads, next, marked)'
  BY <1>1 DEF IInv, Apart, Solid, Separate, Covers, Makes
<1>5. (TailOf({}) \in From(HeadOf({})))' /\ Main' = Main
  BY <1>1 DEF IInv, From, Main, ChainOf, Reach
<1> QED
  BY <1>2, <1>3, <1>4, <1>5 DEF IInv

LEMMA NextInv ==
    ASSUME IInv, [Next]_vars
    PROVE  IInv' /\ Main \ marked' \subseteq Main'
<1>1. ASSUME NEW t \in Threads, Step(t) PROVE IInv' /\ Main \ marked' \subseteq Main'
  BY <1>1, CallStep, GetStep, PublishStep, AimStep, JoinStep, FindStep, LinkStep, MarkStep,
     CountStep, ResizeStep DEF Step
<1>2. CASE Destroy
  BY <1>2, SameList DEF Destroy
<1>3. CASE UNCHANGED vars
  BY <1>3, SameList DEF vars, IInv, TypeOK
<1> QED
  BY <1>1, <1>2, <1>3 DEF Next

-----------------------------------------------------------------------------
(* The sentinel of a bucket that is joined is before all of its keys.      *)
LEMMA Shortcut ==
    ASSUME IInv, NEW b \in buckets, NEW x \in Keys, Sentinel(b) \in Main,
           Less(SetSentinelKey(b), SetKey(x))
    PROVE  /\ Has(b, x) <=> Has({}, x)
           /\ Has({}, x) <=> ListKey[Found(b, SetKey(x))] = SetKey(x)
<1> DEFINE h == HeadOf(b)
           s == Sentinel(b)
           z == HeadOf({})
           key == SetKey(x)
           c == Found(b, key)
<1>1. /\ ListInv(next, marked, buckets) /\ {} \in Buckets /\ b \in Buckets /\ key \in Words
      /\ h \in Nodes /\ h[1] = "head" /\ next[h] = s /\ s \in Nodes /\ s[1] = "sentinel"
      /\ ListKey[s] = SetSentinelKey(b) /\ z \in Nodes
  BY NodeKinds, KeyOrder DEF IInv, ListInv, Bucketed
<1>2. /\ Live(b) = From(h) \ marked /\ Live({}) = From(z) \ marked /\ s \in From(z)
      /\ From(h) = {h} \cup From(s) /\ From(z) \subseteq Nodes /\ From(h) \subseteq Nodes
  BY <1>1, ReachFrom, ChainCons, ChainClosed DEF From
<1> HIDE DEF h, s, z, key, c
<1>3. ASSUME NEW n \in Nodes, n[1] = "key", n[2] = x PROVE ListKey[n] = key
  BY <1>3, NodeKinds DEF key
<1>4. ASSUME Has(b, x) PROVE Has({}, x)
  <2>1. PICK n \in From(h) \ marked : n[1] = "key" /\ n[2] = x
    BY <1>2, <1>4 DEF Has
  <2>2. n \in From(s)
    BY <1>1, <1>2, <2>1
  <2>3. From(s) \subseteq From(z)
    BY <1>2, ChainSuffix DEF From
  <2> QED
    BY <1>2, <2>1, <2>2, <2>3 DEF Has
<1>5. ASSUME Has({}, x) PROVE Has(b, x)
  <2>1. PICK n \in From(z) \ marked : n[1] = "key" /\ n[2] = x
    BY <1>2, <1>5 DEF Has
  <2>2. n \in Nodes /\ ListKey[n] = key
    BY <1>2, <1>3, <2>1
  <2>3. ASSUME s \in From(n) PROVE FALSE
    <3>1. s \in From(next[n])
      BY <1>1, <2>1, <2>2, <2>3, ChainCons DEF From
    <3>2. Precedes(n, s)
      BY <1>1, <2>2, <3>1, Links DEF From
    <3>3. Less(key, SetSentinelKey(b)) /\ Less(SetSentinelKey(b), key)
      BY <1>1, <2>1, <2>2, <3>2 DEF Precedes, key
    <3>4. SetSentinelKey(b) \in Words
      BY <1>1, KeyOrder
    <3> QED
      BY <1>1, <3>3, <3>4, LessOrder
  <2>4. n \in From(s)
    BY <1>2, <2>1, <2>3, ChainTotal DEF From
  <2> QED
    BY <1>2, <2>1, <2>4 DEF Has
<1>6. /\ c \in From(h) \ marked /\ c \in Nodes /\ c[1] # "head" /\ ~ Less(ListKey[c], key)
      /\ \A n \in From(h) \ marked : n[1] # "head" /\ ~ Less(ListKey[n], key) => n \in From(c)
  BY <1>1, FoundFirst DEF c, h
<1>7. ASSUME Has(b, x) PROVE ListKey[c] = key
  <2>1. PICK n \in From(h) \ marked : n[1] = "key" /\ n[2] = x
    BY <1>2, <1>7 DEF Has
  <2>2. n \in Nodes /\ ListKey[n] = key
    BY <1>2, <1>3, <2>1
  <2>3. n \in From(c)
    BY <1>1, <1>6, <2>1, <2>2, LessOrder
  <2>4. ASSUME n # c PROVE FALSE
    <3>1. n \in From(next[c])
      BY <1>6, <2>3, <2>4, ChainCons DEF From
    <3>2. Precedes(c, n)
      BY <1>1, <1>6, <3>1, Links DEF From
    <3> QED
      BY <1>6, <2>2, <3>2 DEF Precedes
  <2> QED
    BY <2>2, <2>4
<1>8. ASSUME ListKey[c] = key PROVE Has(b, x)
  <2>1. c[1] # "sentinel" /\ c[1] # "tail"
    BY <1>6, <1>8, NodeKinds, KeyOrder DEF key
  <2>2. c[1] = "key" /\ c[2] = x
    BY <1>6, <1>8, <2>1, NodeKinds, KeyOrder DEF key
  <2> QED
    BY <1>2, <1>6, <2>2 DEF Has
<1> QED
  BY <1>4, <1>5, <1>7, <1>8 DEF c, key

LEMMA Sound == ASSUME IInv PROVE ShortcutSound
<1> DEFINE z == HeadOf({})
           e == TailOf({})
<1>1. /\ ListInv(next, marked, buckets) /\ {} \in Buckets
      /\ z \in Nodes /\ z[1] = "head" /\ e \in Nodes /\ e[1] = "tail" /\ e \in From(z)
  BY NodeKinds, KeyOrder DEF IInv
<1>2. /\ Main = From(z) /\ Live({}) = From(z) \ marked /\ From(z) \subseteq Nodes
      /\ \A n \in Nodes : Reach(n) = From(n)
      /\ From(z) = {z} \cup From(next[z])
  BY <1>1, ReachFrom, ChainCons, ChainClosed DEF From
<1> HIDE DEF z, e
<1>3. ASSUME NEW m \in Live({}) \ {z}, NEW n \in Live({}) \ {z}, m # n, n \in Reach(m)
      PROVE  Less(ListKey[m], ListKey[n])
  <2>1. m \in Nodes /\ m[1] # "head"
    BY <1>1, <1>2, Links DEF From
  <2>2. n \in From(next[m])
    BY <1>2, <1>3, <2>1, ChainCons DEF From
  <2>3. Precedes(m, n)
    BY <1>1, <2>1, <2>2, Links DEF From
  <2> QED
    BY <2>1, <2>3 DEF Precedes
<1>4. Main \cap {TailOf(b) : b \in Buckets} = {e}
  <2>1. ASSUME NEW n \in Nodes, n[1] = "tail" PROVE From(n) = {n}
    <3>1. next[n] = NULL
      BY <1>1, <2>1 DEF ListInv, Ended
    <3> QED
      BY <2>1, <3>1, ChainCons, ChainEmpty, NullAssumption DEF From
  <2>2. ASSUME NEW b \in Buckets, TailOf(b) \in From(z) PROVE TailOf(b) = e
    <3>1. TailOf(b) \in Nodes /\ TailOf(b)[1] = "tail"
      BY NodeKinds
    <3>2. TailOf(b) \in From(e) \/ e \in From(TailOf(b))
      BY <1>1, <2>2, ChainTotal DEF From
    <3> QED
      BY <1>1, <2>1, <3>1, <3>2
  <2> QED
    BY <1>1, <1>2, <2>2 DEF e
<1>5. ASSUME NEW b \in buckets, NEW x \in Keys, Sentinel(b) \in Main,
             \E n \in MinBits .. bits : x \cap Bits(n) = b
      PROVE  /\ Has(b, x) <=> Has({}, x)
             /\ Has({}, x) <=> ListKey[Found(b, SetKey(x))] = SetKey(x)
  <2>1. PICK n \in MinBits .. bits : x \cap Bits(n) = b
    BY <1>5
  <2>2. n \in MinBits .. MaxBits
    BY HashSetAssumption DEF IInv, TypeOK
  <2>3. Less(SetSentinelKey(b), SetKey(x))
    BY <2>1, <2>2, KeyOrder
  <2> QED
    BY <1>5, <2>3, Shortcut
<1> QED
  BY <1>3, <1>4, <1>5 DEF ShortcutSound, z, e

(* The invariant behind the others: at every moment each list is in order  *)
(* and ends in a tail, no link leads to a sentinel that is still being     *)
(* aimed but from its own head, and a sentinel that is to be linked leads  *)
(* to all live nodes behind its place (ll_insert2 and get_bucket_list).    *)
THEOREM Invariance == Spec => []IInv
<1>1. Init => IInv
  BY InitInv
<1>2. IInv /\ [Next]_vars => IInv'
  BY NextInv
<1> QED
  BY <1>1, <1>2, PTL DEF Spec

(* The assertions of get_bucket_list hold for any number of threads, keys  *)
(* and buckets: the sentinel that a thread links was not there.            *)
THEOREM SentinelsOnce == Spec => []SentinelOnce
<1>1. IInv => SentinelOnce
  BY DEF IInv, SentinelOnce
<1> QED
  BY <1>1, Invariance, PTL

(* For each key of a bucket that is joined, the search from its sentinel   *)
(* and the one from the list of bucket 0 agree at every size of the table, *)
(* that list is in the split order, and its only tail is its own.          *)
THEOREM Shortcuts == Spec => []ShortcutSound
<1>1. IInv => ShortcutSound
  BY Sound
<1> QED
  BY <1>1, Invariance, PTL

(* No step takes a node that is not marked out of the list of bucket 0:    *)
(* neither the unlinking of find, nor ll_insert2, which sets the next      *)
(* pointer of a sentinel whose bucket is already in use.                   *)
THEOREM NothingLost == Spec => NothingFallsOut
<1>1. IInv /\ [Next]_vars => [Main \ Main' \subseteq marked']_vars
  <2>1. ASSUME IInv, [Next]_vars PROVE Main \ Main' \subseteq marked'
    BY <2>1, NextInv
  <2> QED
    BY <2>1
<1> QED
  BY <1>1, Invariance, PTL DEF Spec, NothingFallsOut
=============================================================================
