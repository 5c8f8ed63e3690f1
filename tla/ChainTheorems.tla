--------------------------- MODULE ChainTheorems ---------------------------
(***************************************************************************)
(* How the set of the nodes on a chain, and their order, change with its   *)
(* first node and with its links.  Cited by the proofs about the stack,    *)
(* the queue and the list.                                                 *)
(***************************************************************************)
EXTENDS Chains, FiniteSetTheorems, SequenceTheorems, WellFoundedInduction, TLAPS

(* The chain is the least closed set. *)
LEMMA ChainClosed ==
    ASSUME NEW N, NEW succ, NEW from
    PROVE  /\ Chain(N, succ, from) \subseteq N
           /\ Closed(N, Chain(N, succ, from), succ, from)
<1>1. ASSUME from \in N PROVE from \in Chain(N, succ, from)
  BY <1>1 DEF Chain, Closed
<1>2. ASSUME NEW n \in Chain(N, succ, from), succ[n] \in N
      PROVE  succ[n] \in Chain(N, succ, from)
  BY <1>2 DEF Chain, Closed
<1> QED
  BY <1>1, <1>2 DEF Closed, Chain

LEMMA ChainLeast ==
    ASSUME NEW N, NEW succ, NEW from, NEW C, C \subseteq N,
           Closed(N, C, succ, from)
    PROVE  Chain(N, succ, from) \subseteq C
BY DEF Chain

LEMMA ChainEmpty ==
    ASSUME NEW N, NEW succ, NEW from, from \notin N
    PROVE  Chain(N, succ, from) = {}
<1>1. Closed(N, {}, succ, from)
  BY DEF Closed
<1> QED
  BY <1>1, ChainLeast

(* A walk from a node of the chain stays on it. *)
LEMMA ChainSuffix ==
    ASSUME NEW N, NEW succ, NEW from, NEW n \in Chain(N, succ, from)
    PROVE  /\ Chain(N, succ, n) \subseteq Chain(N, succ, from)
           /\ Chain(N, succ, succ[n]) \subseteq Chain(N, succ, from)
<1> DEFINE C == Chain(N, succ, from)
<1>1. C \subseteq N /\ Closed(N, C, succ, from)
  BY ChainClosed
<1>2. Closed(N, C, succ, n) /\ Closed(N, C, succ, succ[n])
  BY <1>1 DEF Closed
<1> QED
  BY <1>1, <1>2, ChainLeast

LEMMA ChainCons ==
    ASSUME NEW N, NEW succ, NEW n \in N
    PROVE  Chain(N, succ, n) = {n} \cup Chain(N, succ, succ[n])
<1> DEFINE C == Chain(N, succ, n)
           D == Chain(N, succ, succ[n])
<1>1. C \subseteq N /\ Closed(N, C, succ, n)
  BY ChainClosed
<1>2. D \subseteq N /\ Closed(N, D, succ, succ[n])
  BY ChainClosed
<1>3. n \in C
  BY <1>1 DEF Closed
<1>4. D \subseteq C
  BY <1>3, ChainSuffix
<1>5. {n} \cup D \subseteq N /\ Closed(N, {n} \cup D, succ, n)
  BY <1>2 DEF Closed
<1>6. C \subseteq {n} \cup D
  BY <1>5, ChainLeast
<1> QED
  BY <1>3, <1>4, <1>6

(* Links outside the chain do not matter. *)
LEMMA ChainFrame ==
    ASSUME NEW N, NEW succ, NEW succ2, NEW from,
           \A n \in Chain(N, succ, from) : succ2[n] = succ[n]
    PROVE  Chain(N, succ2, from) = Chain(N, succ, from)
<1> DEFINE C == Chain(N, succ, from)
           D == Chain(N, succ2, from)
<1>1. C \subseteq N /\ Closed(N, C, succ, from)
  BY ChainClosed
<1>2. Closed(N, C, succ2, from)
  BY <1>1 DEF Closed
<1>3. D \subseteq C
  BY <1>1, <1>2, ChainLeast
<1>4. D \subseteq N /\ Closed(N, D, succ2, from)
  BY ChainClosed
<1>5. Closed(N, D, succ, from)
  BY <1>3, <1>4 DEF Closed
<1>6. C \subseteq D
  BY <1>4, <1>5, ChainLeast
<1> QED
  BY <1>3, <1>6

LEMMA ChainExcept ==
    ASSUME NEW N, NEW succ, NEW succ2, NEW x, \A n \in N \ {x} : succ2[n] = succ[n],
           NEW from, x \notin Chain(N, succ, from)
    PROVE  Chain(N, succ2, from) = Chain(N, succ, from)
<1>1. \A n \in Chain(N, succ, from) : succ2[n] = succ[n]
  BY ChainClosed
<1> QED
  BY <1>1, ChainFrame

LEMMA AcyclicFrame ==
    ASSUME NEW N, NEW succ, NEW succ2, NEW from, Acyclic(N, succ, from),
           \A n \in Chain(N, succ, from) : succ2[n] = succ[n]
    PROVE  Acyclic(N, succ2, from)
<1>1. Chain(N, succ2, from) = Chain(N, succ, from)
  BY ChainFrame
<1>2. ASSUME NEW n \in Chain(N, succ, from)
      PROVE  n \notin Chain(N, succ2, succ2[n])
  <2>1. Chain(N, succ, succ[n]) \subseteq Chain(N, succ, from)
    BY ChainSuffix
  <2>2. Chain(N, succ2, succ[n]) = Chain(N, succ, succ[n])
    BY <2>1, ChainFrame
  <2> QED
    BY <2>2 DEF Acyclic
<1> QED
  BY <1>1, <1>2 DEF Acyclic

-----------------------------------------------------------------------------
(* A node put before the first one. *)
LEMMA ChainPush ==
    ASSUME NEW N, NEW succ, NEW n \in N, Acyclic(N, succ, succ[n]),
           n \notin Chain(N, succ, succ[n])
    PROVE  /\ Chain(N, succ, n) = {n} \cup Chain(N, succ, succ[n])
           /\ Acyclic(N, succ, n)
BY ChainCons DEF Acyclic

(* The first node taken off. *)
LEMMA ChainPop ==
    ASSUME NEW N, NEW succ, NEW from \in N, Acyclic(N, succ, from)
    PROVE  /\ from \in Chain(N, succ, from)
           /\ Chain(N, succ, succ[from]) = Chain(N, succ, from) \ {from}
           /\ Acyclic(N, succ, succ[from])
BY ChainCons DEF Acyclic

(* A node put after the last one: every chain that ends in the last node   *)
(* grows by the new one, and no other node joins.                          *)
LEMMA ChainAppend ==
    ASSUME NEW N, NEW succ, NEW succ2, NEW from,
           NEW last \in Chain(N, succ, from), succ[last] \notin N,
           succ2[last] \in N \ Chain(N, succ, from), Acyclic(N, succ, from),
           succ2[succ2[last]] \notin N,
           \A m \in Chain(N, succ, from) \ {last} : succ2[m] = succ[m]
    PROVE  /\ Chain(N, succ2, from) = Chain(N, succ, from) \cup {succ2[last]}
           /\ Acyclic(N, succ2, from)
           /\ \A m \in Chain(N, succ, from) :
                 /\ Chain(N, succ, m) \subseteq Chain(N, succ2, m)
                 /\ Chain(N, succ2, m) \subseteq Chain(N, succ, m) \cup {succ2[last]}
<1> DEFINE C == Chain(N, succ, from)
           n == succ2[last]
<1> n \in N \ C /\ succ2[last] = n /\ succ2[n] \notin N
  OBVIOUS
<1> HIDE DEF n
<1>1. C \subseteq N /\ Closed(N, C, succ, from)
  BY ChainClosed
<1>2. ASSUME NEW m, Chain(N, succ, m) \subseteq C
      PROVE  /\ Chain(N, succ, m) \subseteq Chain(N, succ2, m)
             /\ Chain(N, succ2, m) \subseteq Chain(N, succ, m) \cup {n}
  <2> DEFINE D == Chain(N, succ, m)
             E == Chain(N, succ2, m)
  <2>1. D \subseteq N /\ Closed(N, D, succ, m)
    BY ChainClosed
  <2>2. E \subseteq N /\ Closed(N, E, succ2, m)
    BY ChainClosed
  <2>3. Closed(N, D \cap E, succ, m)
    BY <1>2, <2>1, <2>2 DEF Closed
  <2>4. D \cap E \subseteq N
    BY <2>1
  <2>5. D \subseteq D \cap E
    BY <2>3, <2>4, ChainLeast
  <2>6. Closed(N, D \cup {n}, succ2, m)
    BY <1>2, <2>1 DEF Closed
  <2>7. D \cup {n} \subseteq N
    BY <2>1
  <2>8. E \subseteq D \cup {n}
    BY <2>6, <2>7, ChainLeast
  <2> QED
    BY <2>5, <2>8
<1>3. ASSUME NEW m \in C
      PROVE  Chain(N, succ, m) \subseteq C /\ Chain(N, succ, succ[m]) \subseteq C
  BY ChainSuffix
<1>4. Chain(N, succ2, from) = C \cup {n}
  <2>1. /\ C \subseteq Chain(N, succ2, from)
        /\ Chain(N, succ2, from) \subseteq C \cup {n}
    BY <1>2
  <2>2. Closed(N, Chain(N, succ2, from), succ2, from)
    BY ChainClosed
  <2>3. n \in Chain(N, succ2, from)
    BY <2>1, <2>2 DEF Closed
  <2> QED
    BY <2>1, <2>3
<1>5. ASSUME NEW m \in C \cup {n}
      PROVE  m \notin Chain(N, succ2, succ2[m])
  <2>1. CASE m = n
    BY <2>1, ChainEmpty
  <2>2. CASE m = last
    <3>1. Chain(N, succ2, n) = {n} \cup Chain(N, succ2, succ2[n])
      BY ChainCons
    <3>2. Chain(N, succ2, succ2[n]) = {}
      BY ChainEmpty
    <3> QED
      BY <2>2, <3>1, <3>2
  <2>3. CASE m \in C \ {last}
    BY <1>2, <1>3, <2>3 DEF Acyclic
  <2> QED
    BY <2>1, <2>2, <2>3
<1> QED
  BY <1>2, <1>3, <1>4, <1>5 DEF Acyclic, n

-----------------------------------------------------------------------------
(* Induction, for a set of numbers. *)
LEMMA SetInduction ==
    ASSUME NEW T, 0 \in T, \A n \in T \cap Nat : n + 1 \in T
    PROVE  Nat \subseteq T
<1> SUFFICES ASSUME Nat \ T # {} PROVE FALSE
  OBVIOUS
<1>1. \E x \in Nat \ T : \A y \in Nat \ T : ~ (<<y, x>> \in OpToRel(<, Nat))
  BY NatLessThanWellFounded, WFMin, Zenon
<1>2. PICK x \in Nat \ T : \A y \in Nat \ T : ~ (<<y, x>> \in OpToRel(<, Nat))
  BY <1>1, Zenon
<1>3. \A y \in Nat \ T : ~ y < x
  BY <1>2 DEF OpToRel
<1>4. x # 0
  BY Zenon
<1>5. x - 1 \in Nat /\ x - 1 < x /\ x - 1 + 1 = x
  BY <1>4
<1>6. x - 1 \notin T
  BY <1>5
<1> QED
  BY <1>3, <1>5, <1>6

(* The recursive definition has a solution, so a walk is one. *)
LEMMA PathDef ==
    ASSUME NEW N, NEW succ, NEW from
    PROVE  /\ Path(N, succ, from)[0] = from
           /\ \A k \in Nat :
                 Path(N, succ, from)[k + 1] = After(N, succ, Path(N, succ, from)[k])
<1> DEFINE P == N \cup {from} \cup {succ[n] : n \in N}
           Good(g, n) == /\ g \in [0 .. n -> P] /\ g[0] = from
                         /\ \A k \in 1 .. n : g[k] = After(N, succ, g[k - 1])
           T == {n \in Nat : \E g : Good(g, n)}
           first(n) == CHOOSE g : Good(g, n)
           f == [n \in Nat |-> first(n)[n]]
<1>1. \A p \in P : After(N, succ, p) \in P
  BY DEF After
<1>2. 0 \in T
  <2>1. Good([k \in 0 .. 0 |-> from], 0)
    OBVIOUS
  <2> QED
    BY <2>1
<1>3. ASSUME NEW n \in T \cap Nat PROVE n + 1 \in T
  <2>1. PICK g : Good(g, n)
    BY <1>3
  <2> DEFINE h == [k \in 0 .. n + 1 |-> IF k = n + 1 THEN After(N, succ, g[n]) ELSE g[k]]
  <2>2. h \in [0 .. n + 1 -> P]
    BY <1>1, <2>1
  <2>3. h[0] = from
    BY <2>1
  <2>4. ASSUME NEW k \in 1 .. n + 1 PROVE h[k] = After(N, succ, h[k - 1])
    BY <2>1, <2>4
  <2>5. Good(h, n + 1)
    BY <2>2, <2>3, <2>4
  <2> HIDE DEF Good, h
  <2> QED
    BY <2>5
<1>4. \A n \in Nat : Good(first(n), n)
  <2> HIDE DEF Good
  <2>1. Nat \subseteq T
    BY <1>2, <1>3, SetInduction
  <2> QED
    BY <2>1
<1>5. ASSUME NEW n \in Nat PROVE first(n + 1)[n] = first(n)[n]
  <2> DEFINE g == first(n)
             h == first(n + 1)
             U == {k \in Nat : k \in 0 .. n => g[k] = h[k]}
  <2>1. Good(g, n) /\ Good(h, n + 1)
    <3> HIDE DEF Good, first
    <3> QED
      BY <1>4
  <2> HIDE DEF first, g, h
  <2>2. 0 \in U
    BY <2>1
  <2>3. ASSUME NEW k \in U \cap Nat PROVE k + 1 \in U
    <3> SUFFICES ASSUME k + 1 \in 0 .. n PROVE g[k + 1] = h[k + 1]
      OBVIOUS
    <3>1. g[k] = h[k] /\ k + 1 \in 1 .. n /\ k + 1 \in 1 .. n + 1 /\ (k + 1) - 1 = k
      BY <2>3
    <3> QED
      BY <2>1, <3>1
  <2>4. Nat \subseteq U
    BY <2>2, <2>3, SetInduction
  <2> QED
    BY <2>4 DEF g, h
<1>6. ASSUME NEW k \in Nat
      PROVE  f[k] = IF k = 0 THEN from ELSE After(N, succ, f[k - 1])
  <2> HIDE DEF first
  <2>1. CASE k = 0
    BY <1>4, <2>1
  <2>2. CASE k # 0
    <3>1. k - 1 \in Nat /\ (k - 1) + 1 = k /\ k \in 1 .. k
      BY <2>2
    <3>2. first(k)[k - 1] = first(k - 1)[k - 1]
      BY <1>5, <3>1
    <3> QED
      BY <1>4, <2>2, <3>1, <3>2
  <2> QED
    BY <2>1, <2>2
<1>7. f = [k \in Nat |-> IF k = 0 THEN from ELSE After(N, succ, f[k - 1])]
  <2> HIDE DEF first, Good
  <2> QED
    BY <1>6
<1> HIDE DEF f
<1>8. ASSUME NEW w, w = [k \in Nat |-> IF k = 0 THEN from ELSE After(N, succ, w[k - 1])]
      PROVE  w[0] = from /\ \A k \in Nat : w[k + 1] = After(N, succ, w[k])
  <2>1. w[0] = from
    BY <1>8
  <2>2. ASSUME NEW k \in Nat PROVE w[k + 1] = After(N, succ, w[k])
    <3>1. k + 1 \in Nat /\ k + 1 # 0 /\ (k + 1) - 1 = k
      OBVIOUS
    <3> QED
      BY <1>8, <3>1, Zenon
  <2> QED
    BY <2>1, <2>2
<1>9. Path(N, succ, from) =
        [k \in Nat |-> IF k = 0 THEN from
                       ELSE After(N, succ, Path(N, succ, from)[k - 1])]
  BY <1>7, Zenon DEF Path
<1> QED
  BY <1>8, <1>9, Zenon

(* The walk from a node is the node, and then the walk from its successor. *)
LEMMA PathShift ==
    ASSUME NEW N, NEW succ, NEW n \in N
    PROVE  \A k \in Nat : Path(N, succ, n)[k + 1] = Path(N, succ, succ[n])[k]
<1> DEFINE v == Path(N, succ, n)
           w == Path(N, succ, succ[n])
           T == {k \in Nat : v[k + 1] = w[k]}
<1>1. /\ v[0] = n /\ \A k \in Nat : v[k + 1] = After(N, succ, v[k])
      /\ w[0] = succ[n] /\ \A k \in Nat : w[k + 1] = After(N, succ, w[k])
  BY PathDef
<1> HIDE DEF v, w
<1>2. 0 \in T
  BY <1>1 DEF After
<1>3. ASSUME NEW k \in T \cap Nat PROVE k + 1 \in T
  BY <1>1, <1>3
<1>4. Nat \subseteq T
  BY <1>2, <1>3, SetInduction
<1> QED
  BY <1>4 DEF v, w

(* A walk stays on the chain, so that other links do not matter to it. *)
LEMMA PathFrame ==
    ASSUME NEW N, NEW succ, NEW succ2, NEW from,
           \A n \in Chain(N, succ, from) : succ2[n] = succ[n]
    PROVE  \A k \in Nat : Path(N, succ2, from)[k] = Path(N, succ, from)[k]
<1> DEFINE v == Path(N, succ2, from)
           w == Path(N, succ, from)
           C == Chain(N, succ, from)
           T == {k \in Nat : v[k] = w[k] /\ (w[k] \in N => w[k] \in C)}
<1>1. /\ v[0] = from /\ \A k \in Nat : v[k + 1] = After(N, succ2, v[k])
      /\ w[0] = from /\ \A k \in Nat : w[k + 1] = After(N, succ, w[k])
      /\ Closed(N, C, succ, from)
  BY PathDef, ChainClosed
<1> HIDE DEF v, w, C
<1>2. 0 \in T
  BY <1>1 DEF Closed
<1>3. ASSUME NEW k \in T \cap Nat PROVE k + 1 \in T
  <2>1. \A n \in C : succ2[n] = succ[n]
    BY DEF C
  <2> QED
    BY <1>1, <1>3, <2>1 DEF After, Closed
<1>4. Nat \subseteq T
  BY <1>2, <1>3, SetInduction
<1> QED
  BY <1>4 DEF v, w

(* On a finite chain that does not meet itself, each link leaves one node  *)
(* less to come.                                                           *)
LEMMA PathRank ==
    ASSUME NEW N, IsFiniteSet(N), NEW succ, NEW from, Acyclic(N, succ, from)
    PROVE  /\ IsFiniteSet(Chain(N, succ, from))
           /\ Cardinality(Chain(N, succ, from)) \in Nat
           /\ \A k \in Nat : k < Cardinality(Chain(N, succ, from)) =>
                 LET n == Path(N, succ, from)[k]
                 IN  /\ n \in Chain(N, succ, from)
                     /\ Cardinality(Chain(N, succ, n))
                            = Cardinality(Chain(N, succ, from)) - k
<1> DEFINE C == Chain(N, succ, from)
           c == Cardinality(C)
           w == Path(N, succ, from)
           size(n) == Cardinality(Chain(N, succ, n))
           T == {k \in Nat : k < c => w[k] \in C /\ size(w[k]) = c - k}
<1>1. C \subseteq N /\ Closed(N, C, succ, from) /\ IsFiniteSet(C) /\ c \in Nat
  BY ChainClosed, FS_Subset, FS_CardinalityType
<1>2. w[0] = from /\ \A k \in Nat : w[k + 1] = After(N, succ, w[k])
  BY PathDef
<1>3. from \notin N => c = 0
  BY ChainEmpty, FS_EmptySet
<1>4. ASSUME NEW n \in C
      PROVE  /\ size(succ[n]) = size(n) - 1 /\ size(n) \in Nat
             /\ succ[n] \notin N => size(n) = 1
  <2> DEFINE D == Chain(N, succ, n)
             E == Chain(N, succ, succ[n])
  <2>1. D = {n} \cup E /\ n \notin E
    BY <1>1, ChainCons DEF Acyclic
  <2>2. IsFiniteSet(D)
    BY <1>1, ChainClosed, FS_Subset
  <2>3. E = D \ {n} /\ n \in D
    BY <2>1
  <2>4. Cardinality(D) \in Nat
    BY <2>2, FS_CardinalityType
  <2>5. Cardinality(E) = Cardinality(D) - 1
    <3> HIDE DEF D, E
    <3> QED
      BY <2>2, <2>3, FS_RemoveElement
  <2>6. succ[n] \notin N => Cardinality(E) = 0
    BY ChainEmpty, FS_EmptySet
  <2>7. succ[n] \notin N => Cardinality(D) = 1
    BY <2>4, <2>5, <2>6
  <2> QED
    BY <2>4, <2>5, <2>7
<1>5. size(from) = c
  OBVIOUS
<1> HIDE DEF w, c, size, C
<1>6. 0 \in T
  BY <1>1, <1>2, <1>3, <1>5 DEF Closed
<1>7. ASSUME NEW k \in T \cap Nat PROVE k + 1 \in T
  <2> SUFFICES ASSUME k + 1 < c PROVE w[k + 1] \in C /\ size(w[k + 1]) = c - (k + 1)
    OBVIOUS
  <2>1. w[k] \in C /\ size(w[k]) = c - k
    BY <1>1, <1>7
  <2>2. succ[w[k]] \in N
    BY <1>1, <1>4, <2>1
  <2>3. w[k + 1] = succ[w[k]] /\ w[k + 1] \in C
    BY <1>1, <1>2, <2>1, <2>2 DEF After, Closed
  <2> QED
    BY <1>1, <1>4, <2>1, <2>3
<1>8. Nat \subseteq T
  BY <1>6, <1>7, SetInduction
<1> QED
  BY <1>1, <1>8 DEF w, c, size, C

(* The walk is over when it has met each node of the chain. *)
LEMMA PathEnd ==
    ASSUME NEW N, IsFiniteSet(N), NEW succ, NEW from, Acyclic(N, succ, from)
    PROVE  \A k \in Nat :
              Path(N, succ, from)[k] \in N <=> k < Cardinality(Chain(N, succ, from))
<1> DEFINE C == Chain(N, succ, from)
           c == Cardinality(C)
           w == Path(N, succ, from)
           T == {k \in Nat : k >= c => w[k] \notin N}
<1>1. /\ w[0] = from /\ \A k \in Nat : w[k + 1] = After(N, succ, w[k])
      /\ c \in Nat /\ \A k \in Nat : k < c => w[k] \in C /\ Cardinality(Chain(N, succ, w[k])) = c - k
      /\ C \subseteq N /\ Closed(N, C, succ, from) /\ IsFiniteSet(C)
  BY PathDef, PathRank, ChainClosed
<1>2. ASSUME NEW n \in C, succ[n] \in N
      PROVE  Cardinality(Chain(N, succ, n)) # 1
  <2>1. n \in Chain(N, succ, n) /\ succ[n] \in Chain(N, succ, n)
    BY <1>1, <1>2, ChainClosed DEF Closed
  <2>2. n # succ[n]
    BY <1>1, <1>2, ChainCons DEF Acyclic
  <2>3. IsFiniteSet(Chain(N, succ, n))
    BY ChainClosed, FS_Subset
  <2> QED
    BY <2>1, <2>2, <2>3, FS_Singleton
<1>3. c = 0 => from \notin N
  BY <1>1, FS_EmptySet DEF Closed
<1> HIDE DEF w, c, C
<1>4. 0 \in T
  BY <1>1, <1>3
<1>5. ASSUME NEW k \in T \cap Nat PROVE k + 1 \in T
  <2>1. CASE k >= c
    BY <1>1, <1>5, <2>1 DEF After
  <2>2. CASE k + 1 = c
    <3>1. k < c /\ c - k = 1
      BY <1>1, <2>2
    <3>2. w[k] \in C /\ Cardinality(Chain(N, succ, w[k])) = 1
      BY <1>1, <3>1
    <3> QED
      BY <1>1, <1>2, <2>2, <3>2 DEF After
  <2>3. CASE k + 1 < c
    BY <1>1, <2>3
  <2> QED
    BY <1>1, <2>1, <2>2, <2>3
<1>6. Nat \subseteq T
  BY <1>4, <1>5, SetInduction
<1> QED
  BY <1>1, <1>6 DEF w, c, C

LEMMA LengthDef ==
    ASSUME NEW N, IsFiniteSet(N), NEW succ, NEW from, Acyclic(N, succ, from)
    PROVE  PathLength(N, succ, from) = Cardinality(Chain(N, succ, from))
<1> DEFINE c == Cardinality(Chain(N, succ, from))
           w == Path(N, succ, from)
<1>1. /\ c \in Nat /\ Cardinality(N) \in Nat /\ c <= Cardinality(N)
      /\ \A k \in Nat : w[k] \in N <=> k < c
  BY PathRank, PathEnd, ChainClosed, FS_Subset, FS_CardinalityType
<1> HIDE DEF c, w
<1>2. {k \in 0 .. Cardinality(N) - 1 : w[k] \in N} = 0 .. c - 1
  BY <1>1
<1>3. Cardinality(0 .. c - 1) = c
  BY <1>1, FS_Interval
<1> QED
  BY <1>2, <1>3 DEF PathLength, w, c

-----------------------------------------------------------------------------
(* A node put before the first one, and the first node taken off. *)
LEMMA PathPush ==
    ASSUME NEW N, IsFiniteSet(N), NEW succ, NEW n \in N, Acyclic(N, succ, succ[n]),
           n \notin Chain(N, succ, succ[n])
    PROVE  /\ PathLength(N, succ, succ[n]) \in Nat
           /\ PathLength(N, succ, n) = PathLength(N, succ, succ[n]) + 1
           /\ Path(N, succ, n)[0] = n
           /\ \A k \in Nat : Path(N, succ, n)[k + 1] = Path(N, succ, succ[n])[k]
<1>1. /\ Chain(N, succ, n) = {n} \cup Chain(N, succ, succ[n])
      /\ Acyclic(N, succ, n)
  BY ChainPush
<1> DEFINE D == Chain(N, succ, succ[n])
<1>2. IsFiniteSet(D) /\ Cardinality(D) \in Nat /\ n \notin D
  BY PathRank
<1>3. Cardinality(D \cup {n}) = Cardinality(D) + 1
  <2> HIDE DEF D
  <2> QED
    BY <1>2, FS_AddElement
<1>4. D \cup {n} = {n} \cup D
  OBVIOUS
<1>5. Cardinality(Chain(N, succ, n)) = Cardinality(D) + 1
  BY <1>1, <1>3, <1>4
<1>6. /\ PathLength(N, succ, n) = Cardinality(Chain(N, succ, n))
      /\ PathLength(N, succ, succ[n]) = Cardinality(D)
  BY <1>1, LengthDef
<1>7. Path(N, succ, n)[0] = n
  BY PathDef
<1>8. \A k \in Nat : Path(N, succ, n)[k + 1] = Path(N, succ, succ[n])[k]
  BY PathShift
<1> HIDE DEF D
<1> QED
  BY <1>2, <1>5, <1>6, <1>7, <1>8

LEMMA PathFrameLength ==
    ASSUME NEW N, IsFiniteSet(N), NEW succ, NEW succ2, NEW from, Acyclic(N, succ, from),
           \A n \in Chain(N, succ, from) : succ2[n] = succ[n]
    PROVE  PathLength(N, succ2, from) = PathLength(N, succ, from)
BY LengthDef, ChainFrame, AcyclicFrame

(* A node put after the last one. *)
LEMMA PathAppend ==
    ASSUME NEW N, IsFiniteSet(N), NEW succ, NEW succ2, NEW from,
           NEW last \in Chain(N, succ, from), succ[last] \notin N,
           succ2[last] \in N \ Chain(N, succ, from), Acyclic(N, succ, from),
           succ2[succ2[last]] \notin N,
           \A m \in Chain(N, succ, from) \ {last} : succ2[m] = succ[m]
    PROVE  LET c == PathLength(N, succ, from)
           IN  /\ c \in Nat \ {0}
               /\ PathLength(N, succ2, from) = c + 1
               /\ \A k \in 0 .. c - 1 : Path(N, succ2, from)[k] = Path(N, succ, from)[k]
               /\ Path(N, succ2, from)[c] = succ2[last]
<1> DEFINE C == Chain(N, succ, from)
           n == succ2[last]
           c == Cardinality(C)
           v == Path(N, succ2, from)
           w == Path(N, succ, from)
           T == {k \in Nat : k < c => v[k] = w[k]}
<1>1. /\ Chain(N, succ2, from) = C \cup {n}
      /\ Acyclic(N, succ2, from)
  BY ChainAppend
<1> n \in N \ C /\ succ2[last] = n /\ succ2[n] \notin N
  OBVIOUS
<1> HIDE DEF n
<1>2. /\ w[0] = from /\ \A k \in Nat : w[k + 1] = After(N, succ, w[k])
      /\ v[0] = from /\ \A k \in Nat : v[k + 1] = After(N, succ2, v[k])
      /\ IsFiniteSet(C) /\ c \in Nat /\ C \subseteq N
      /\ \A k \in Nat : k < c => w[k] \in C
      /\ \A k \in Nat : w[k] \in N <=> k < c
      /\ \A k \in Nat : v[k] \in N <=> k < Cardinality(Chain(N, succ2, from))
  <2>1. /\ w[0] = from
        /\ \A k \in Nat : w[k + 1] = After(N, succ, w[k])
    BY PathDef
  <2>2. /\ v[0] = from
        /\ \A k \in Nat : v[k + 1] = After(N, succ2, v[k])
    BY PathDef
  <2>3. C \subseteq N
    BY ChainClosed
  <2>4. /\ IsFiniteSet(C)
        /\ c \in Nat
        /\ \A k \in Nat : k < c => w[k] \in C
    BY PathRank
  <2>5. \A k \in Nat : w[k] \in N <=> k < c
    BY PathEnd
  <2>6. \A k \in Nat : v[k] \in N <=> k < Cardinality(Chain(N, succ2, from))
    BY <1>1, PathEnd
  <2> QED
    BY <2>1, <2>2, <2>3, <2>4, <2>5, <2>6
<1>3. Cardinality(C \cup {n}) = c + 1
  BY <1>2, FS_AddElement
<1>4. c # 0
  BY <1>2, FS_EmptySet
<1> HIDE DEF v, w, c, C
<1>5. last \in C /\ n \notin C /\ \A m \in C \ {last} : succ2[m] = succ[m]
  BY DEF C
<1>6. 0 \in T
  BY <1>2
<1>7. ASSUME NEW k \in T \cap Nat PROVE k + 1 \in T
  <2> SUFFICES ASSUME k + 1 < c PROVE v[k + 1] = w[k + 1]
    OBVIOUS
  <2>1. v[k] = w[k] /\ w[k] \in C /\ w[k + 1] \in N
    BY <1>2, <1>7
  <2>2. w[k + 1] = succ[w[k]]
    BY <1>2, <2>1 DEF After
  <2>3. w[k] # last
    BY <2>1, <2>2
  <2> QED
    BY <1>2, <1>5, <2>1, <2>2, <2>3 DEF After
<1>8. Nat \subseteq T
  BY <1>6, <1>7, SetInduction
<1>9. v[c] = n
  <2>1. c - 1 \in Nat /\ c - 1 < c /\ (c - 1) + 1 = c
    BY <1>2, <1>4
  <2>2. v[c - 1] = w[c - 1] /\ w[c - 1] \in C /\ w[c] \notin N
    BY <1>2, <1>8, <2>1
  <2>3. v[c] \in N
    BY <1>1, <1>2, <1>3 DEF C
  <2>4. w[c - 1] = last
    <3>1. w[c] = succ[w[c - 1]] /\ v[c] = succ2[w[c - 1]]
      BY <1>2, <2>1, <2>2 DEF After
    <3> QED
      BY <1>5, <2>2, <2>3, <3>1
  <2> QED
    BY <1>2, <2>1, <2>2, <2>4 DEF After
<1>10. \A k \in 0 .. c - 1 : v[k] = w[k]
  BY <1>2, <1>8
<1>11. PathLength(N, succ, from) = c /\ PathLength(N, succ2, from) = c + 1
  BY <1>1, <1>3, LengthDef DEF c, C
<1> QED
  BY <1>2, <1>4, <1>9, <1>10, <1>11 DEF v, w, n

-----------------------------------------------------------------------------
(* A sequence whose items, from the second on, are those of another one. *)
LEMMA SequencePush ==
    ASSUME NEW P, NEW h \in Nat, NEW u \in [1 .. h + 1 -> P], NEW w \in [1 .. h -> P],
           \A k \in 1 .. h : u[k + 1] = w[k]
    PROVE  /\ u = <<u[1]>> \o w
           /\ u # <<>>
           /\ w = Tail(u)
<1>1. u \in Seq(P) /\ Len(u) = h + 1 /\ w \in Seq(P) /\ Len(w) = h
  OBVIOUS
<1>2. u = <<u[1]>> \o w
  BY <1>1
<1>3. u # <<>>
  BY <1>1
<1>4. /\ Tail(u) \in Seq(P) /\ Len(Tail(u)) = h
      /\ \A k \in 1 .. h : Tail(u)[k] = u[k + 1]
  BY <1>1, <1>3, HeadTailProperties
<1>5. w = Tail(u)
  BY <1>1, <1>4, SeqEqual
<1> QED
  BY <1>2, <1>3, <1>5

(* A sequence whose items, up to the last but one, are those of another one. *)
LEMMA SequenceAppend ==
    ASSUME NEW P, NEW h \in Nat, NEW u \in [1 .. h + 1 -> P], NEW w \in [1 .. h -> P],
           \A k \in 1 .. h : u[k] = w[k]
    PROVE  u = Append(w, u[h + 1])
<1>1. u \in Seq(P) /\ Len(u) = h + 1 /\ w \in Seq(P) /\ Len(w) = h
  OBVIOUS
<1> QED
  BY <1>1
-----------------------------------------------------------------------------
(* The nodes on the path are the chain: a path longer than N has nodes is  *)
(* in a loop, or has ended.                                                *)
LEMMA PathLoops ==
    ASSUME NEW N, NEW succ, NEW from, NEW i \in Nat, NEW j \in Nat,
           Path(N, succ, from)[i] = Path(N, succ, from)[j]
    PROVE  \A k \in Nat : Path(N, succ, from)[i + k] = Path(N, succ, from)[j + k]
<1> DEFINE w == Path(N, succ, from)
           T == {k \in Nat : w[i + k] = w[j + k]}
<1>1. \A k \in Nat : w[k + 1] = After(N, succ, w[k])
  BY PathDef
<1> HIDE DEF w
<1>2. 0 \in T
  BY DEF w
<1>3. ASSUME NEW k \in T \cap Nat PROVE k + 1 \in T
  <2>1. i + (k + 1) = (i + k) + 1 /\ j + (k + 1) = (j + k) + 1
    OBVIOUS
  <2>2. w[(i + k) + 1] = After(N, succ, w[i + k])
    BY <1>1
  <2>3. w[(j + k) + 1] = After(N, succ, w[j + k])
    BY <1>1
  <2> QED
    BY <2>1, <2>2, <2>3
<1>4. Nat \subseteq T
  <2> HIDE DEF T
  <2> QED
    BY <1>2, <1>3, SetInduction
<1> QED
  BY <1>4 DEF w

LEMMA VisitedChain ==
    ASSUME NEW N, IsFiniteSet(N), NEW succ, NEW from
    PROVE  Visited(N, succ, from) = Chain(N, succ, from)
<1> DEFINE c == Cardinality(N)
           w == Path(N, succ, from)
           C == Chain(N, succ, from)
           V == N \cap {w[k] : k \in 0 .. c - 1}
<1>1. /\ w[0] = from /\ \A k \in Nat : w[k + 1] = After(N, succ, w[k])
      /\ c \in Nat /\ C \subseteq N /\ Closed(N, C, succ, from)
  BY PathDef, ChainClosed, FS_CardinalityType
<1>2. \A i, j \in Nat : w[i] = w[j] => \A k \in Nat : w[i + k] = w[j + k]
  BY PathLoops
<1>3. Visited(N, succ, from) = V
  BY DEF Visited
<1> HIDE DEF c, w, C
<1>4. V \subseteq C
  <2> DEFINE T == {k \in Nat : w[k] \in N => w[k] \in C}
  <2>1. 0 \in T
    BY <1>1 DEF Closed
  <2>2. ASSUME NEW k \in T \cap Nat PROVE k + 1 \in T
    BY <1>1 DEF Closed, After
  <2>3. Nat \subseteq T
    <3> HIDE DEF T
    <3> QED
      BY <2>1, <2>2, SetInduction
  <2> QED
    BY <1>1, <2>3
<1>5. ASSUME from \in N PROVE from \in V
  <2>1. c # 0
    BY <1>5, FS_EmptySet DEF c
  <2> QED
    BY <1>1, <1>5, <2>1
<1>6. ASSUME NEW m \in V, succ[m] \in N PROVE succ[m] \in V
  <2>1. PICK k \in 0 .. c - 1 : m = w[k]
    BY <1>6
  <2>2. k \in Nat /\ w[k + 1] = succ[m]
    BY <1>1, <2>1 DEF After
  <2>3. CASE k + 1 <= c - 1
    BY <1>1, <1>6, <2>2, <2>3
  <2>4. CASE k + 1 = c
    <3> DEFINE f == [i \in 0 .. c |-> w[i]]
               T == {i \in Nat : i <= c => w[c - i] \in N}
    <3>1. 0 \in T
      BY <1>1, <1>6, <2>2, <2>4
    <3>2. ASSUME NEW i \in T \cap Nat PROVE i + 1 \in T
      <4>1. SUFFICES ASSUME i + 1 <= c, w[c - (i + 1)] \notin N PROVE FALSE
        OBVIOUS
      <4>2. c - (i + 1) \in Nat /\ (c - (i + 1)) + 1 = c - i
        BY <1>1, <4>1
      <4>3. w[c - i] = w[c - (i + 1)]
        BY <1>1, <4>1, <4>2 DEF After
      <4> QED
        BY <1>1, <3>2, <4>1, <4>3
    <3>3. Nat \subseteq T
      <4> HIDE DEF T
      <4> QED
        BY <3>1, <3>2, SetInduction
    <3>4. ASSUME NEW i \in 0 .. c PROVE w[i] \in N
      <4>1. c - i \in Nat /\ c - i <= c /\ c - (c - i) = i
        BY <1>1
      <4> QED
        BY <3>3, <4>1
    <3>5. f \in [0 .. c -> N]
      BY <3>4
    <3>6. IsFiniteSet(0 .. c) /\ Cardinality(0 .. c) = c + 1
      BY <1>1, FS_Interval
    <3>7. Cardinality(N) < Cardinality(0 .. c)
      BY <1>1, <3>6 DEF c
    <3> HIDE DEF f
    <3>8. \E x, y \in 0 .. c : x # y /\ f[x] = f[y]
      BY <3>5, <3>6, <3>7, FS_PigeonHole
    <3>9. PICK x \in 0 .. c, y \in 0 .. c : x # y /\ w[x] = w[y]
      BY <3>8 DEF f
    <3>10. PICK i \in 0 .. c, j \in 0 .. c : i < j /\ w[i] = w[j]
      BY <1>1, <3>9
    <3>11. c - j \in Nat /\ j + (c - j) = c /\ i + (c - j) \in 0 .. c - 1
      BY <1>1, <3>10
    <3>12. w[i + (c - j)] = w[j + (c - j)]
      <4> i \in Nat /\ j \in Nat /\ c - j \in Nat
        BY <3>10, <3>11
      <4> HIDE <3>11
      <4> QED
        BY <1>2, <3>10
    <3> QED
      BY <1>6, <2>2, <2>4, <3>11, <3>12
  <2> QED
    BY <1>1, <2>2, <2>3, <2>4
<1>7. C \subseteq V
  <2>1. Closed(N, V, succ, from) /\ V \subseteq N
    BY <1>5, <1>6 DEF Closed
  <2> HIDE DEF V
  <2> QED
    BY <2>1, ChainLeast DEF C
<1> QED
  BY <1>3, <1>4, <1>7 DEF C

-----------------------------------------------------------------------------
(* Of two nodes of a chain one comes after the other. *)
LEMMA ChainTotal ==
    ASSUME NEW N, NEW succ, NEW from,
           NEW m \in Chain(N, succ, from), NEW n \in Chain(N, succ, from)
    PROVE  n \in Chain(N, succ, m) \/ m \in Chain(N, succ, n)
<1> DEFINE C == Chain(N, succ, from)
           D == {x \in C : n \in Chain(N, succ, x) \/ x \in Chain(N, succ, n)}
<1>1. C \subseteq N /\ Closed(N, C, succ, from)
  BY ChainClosed
<1>2. Closed(N, Chain(N, succ, n), succ, n)
  BY ChainClosed
<1>3. ASSUME NEW x \in D, succ[x] \in N PROVE succ[x] \in D
  <2>1. CASE x \in Chain(N, succ, n)
    BY <1>1, <1>2, <1>3, <2>1 DEF Closed
  <2>2. CASE n \in Chain(N, succ, x) /\ x # n
    BY <1>1, <1>3, <2>2, ChainCons DEF Closed
  <2>3. CASE x = n
    BY <1>1, <1>2, <1>3, <2>3 DEF Closed
  <2> QED
    BY <2>1, <2>2, <2>3
<1>4. from \in N => from \in D
  BY <1>1 DEF Closed
<1>5. Closed(N, D, succ, from) /\ D \subseteq N
  BY <1>1, <1>3, <1>4 DEF Closed
<1>6. C \subseteq D
  BY <1>5, ChainLeast
<1> QED
  BY <1>6

(* A new node put between a node of the chain and its successor. *)
LEMMA ChainInsert ==
    ASSUME NEW N, NEW succ, NEW succ2, NEW from,
           NEW p \in Chain(N, succ, from), succ2[p] \in N,
           succ2[succ2[p]] = succ[p],
           \A m \in Chain(N, succ, from) \ {p} : succ2[m] = succ[m]
    PROVE  Chain(N, succ2, from) = Chain(N, succ, from) \cup {succ2[p]}
<1> DEFINE C == Chain(N, succ, from)
           D == Chain(N, succ2, from)
           n == succ2[p]
<1>1. C \subseteq N /\ Closed(N, C, succ, from)
  BY ChainClosed
<1>2. D \subseteq N /\ Closed(N, D, succ2, from)
  BY ChainClosed
<1>3. Closed(N, C \cup {n}, succ2, from) /\ C \cup {n} \subseteq N
  BY <1>1 DEF Closed
<1>4. D \subseteq C \cup {n}
  BY <1>3, ChainLeast
<1>5. Closed(N, C \cap D, succ, from) /\ C \cap D \subseteq N
  BY <1>1, <1>2 DEF Closed
<1>6. C \subseteq C \cap D
  BY <1>5, ChainLeast
<1> QED
  BY <1>2, <1>4, <1>6 DEF Closed

(* The successor of a node taken off. *)
LEMMA ChainRemove ==
    ASSUME NEW N, NEW succ, NEW succ2, NEW from, Acyclic(N, succ, from),
           NEW p \in Chain(N, succ, from), succ[p] \in N, succ2[p] = succ[succ[p]],
           \A m \in Chain(N, succ, from) \ {p} : succ2[m] = succ[m]
    PROVE  Chain(N, succ2, from) = Chain(N, succ, from) \ {succ[p]}
<1> DEFINE C == Chain(N, succ, from)
           D == Chain(N, succ2, from)
           n == succ[p]
<1>1. C \subseteq N /\ Closed(N, C, succ, from)
  BY ChainClosed
<1>2. D \subseteq N /\ Closed(N, D, succ2, from)
  BY ChainClosed
<1>3. n \in C /\ p \notin Chain(N, succ, n) /\ n \notin Chain(N, succ, succ[n])
  BY <1>1 DEF Closed, Acyclic
<1>4. ASSUME NEW m \in C, succ[m] = n PROVE m = p
  <2> SUFFICES ASSUME m # p PROVE FALSE
    OBVIOUS
  <2>1. m \notin Chain(N, succ, n)
    BY <1>4 DEF Acyclic
  <2>2. p \in Chain(N, succ, m) \/ m \in Chain(N, succ, p)
    BY ChainTotal
  <2>3. /\ Chain(N, succ, m) = {m} \cup Chain(N, succ, n)
        /\ Chain(N, succ, p) = {p} \cup Chain(N, succ, n)
    BY <1>1, <1>4, ChainCons
  <2> QED
    BY <1>3, <2>1, <2>2, <2>3
<1>5. from # n
  BY <1>3
<1>6. Closed(N, C \ {n}, succ2, from) /\ C \ {n} \subseteq N
  <2>1. from \in N => from \in C \ {n}
    BY <1>1, <1>5 DEF Closed
  <2>2. ASSUME NEW m \in C \ {n}, succ2[m] \in N PROVE succ2[m] \in C \ {n}
    <3>1. CASE m = p
      <4>1. succ[n] # n
        BY <1>1, <1>3, ChainCons
      <4> QED
        BY <1>1, <1>3, <2>2, <3>1, <4>1 DEF Closed
    <3>2. CASE m # p
      BY <1>1, <1>4, <2>2, <3>2 DEF Closed
    <3> QED
      BY <3>1, <3>2
  <2> QED
    BY <1>1, <2>1, <2>2 DEF Closed
<1>7. D \subseteq C \ {n}
  BY <1>6, ChainLeast
<1> DEFINE E == (C \cap D) \cup {n}
<1>8. n # p
  BY <1>1, <1>3, ChainCons
<1>9. Closed(N, E, succ, from) /\ E \subseteq N
  <2>1. from \in N => from \in E
    BY <1>1, <1>2 DEF Closed
  <2>2. ASSUME NEW m \in E, succ[m] \in N PROVE succ[m] \in E
    <3>1. CASE m = p
      BY <3>1
    <3>2. CASE m = n
      <4>1. succ[n] \in C
        BY <1>1, <1>3, <2>2, <3>2 DEF Closed
      <4>2. CASE p \in D
        BY <1>2, <2>2, <3>2, <4>1, <4>2 DEF Closed
      <4>3. CASE p \notin D
        <5>1. \A x \in D : succ2[x] = succ[x]
          BY <1>7, <4>3
        <5>2. D = C
          <6>1. Closed(N, D, succ, from)
            BY <1>2, <5>1 DEF Closed
          <6>2. C \subseteq D
            BY <1>2, <6>1, ChainLeast
          <6> QED
            BY <1>7, <6>2
        <5> QED
          BY <4>3, <5>2
      <4> QED
        BY <4>2, <4>3
    <3>3. CASE m \in C \cap D /\ m # p /\ m # n
      BY <1>1, <1>2, <2>2, <3>3 DEF Closed
    <3> QED
      BY <2>2, <3>1, <3>2, <3>3
  <2> QED
    BY <1>1, <1>3, <2>1, <2>2 DEF Closed
<1>10. C \subseteq E
  BY <1>9, ChainLeast
<1> QED
  BY <1>7, <1>10

-----------------------------------------------------------------------------
(* Chains whose nodes carry values that grow along the links. *)
Ascends(N, succ, val, from) ==
    \A n \in Chain(N, succ, from) :
        val[n] \in Nat /\ (succ[n] \in N => val[n] < val[succ[n]])

LEMMA AscendsAfter ==
    ASSUME NEW N, NEW succ, NEW val, NEW from, Ascends(N, succ, val, from),
           NEW m \in Chain(N, succ, from), NEW x \in Chain(N, succ, succ[m])
    PROVE  val[m] < val[x] /\ val[succ[m]] <= val[x]
<1> DEFINE C == Chain(N, succ, from)
           D == Chain(N, succ, succ[m])
           E == {y \in D : val[m] < val[y] /\ val[succ[m]] <= val[y]}
<1>1. C \subseteq N /\ Closed(N, C, succ, from) /\ D \subseteq C
  BY ChainClosed, ChainSuffix
<1>2. D \subseteq N /\ Closed(N, D, succ, succ[m])
  BY ChainClosed
<1>3. ASSUME succ[m] \in N PROVE succ[m] \in E
  <2>1. succ[m] \in D /\ succ[m] \in C
    BY <1>1, <1>2, <1>3 DEF Closed
  <2> QED
    BY <1>3, <2>1 DEF Ascends
<1>4. ASSUME NEW y \in E, succ[y] \in N PROVE succ[y] \in E
  <2>1. succ[y] \in D /\ y \in C /\ succ[y] \in C
    BY <1>1, <1>2, <1>4 DEF Closed
  <2>2. val[y] < val[succ[y]] /\ val[y] \in Nat /\ val[succ[y]] \in Nat /\ val[m] \in Nat
    BY <1>4, <2>1 DEF Ascends
  <2>3. succ[m] \in N
    BY <1>4, ChainEmpty
  <2>4. val[succ[m]] \in Nat
    BY <1>1, <2>3 DEF Closed, Ascends
  <2> QED
    BY <1>4, <2>1, <2>2, <2>4
<1>5. Closed(N, E, succ, succ[m]) /\ E \subseteq N
  BY <1>2, <1>3, <1>4 DEF Closed
<1>6. D \subseteq E
  BY <1>5, ChainLeast
<1> QED
  BY <1>6

LEMMA AscendsAcyclic ==
    ASSUME NEW N, NEW succ, NEW val, NEW from, Ascends(N, succ, val, from)
    PROVE  Acyclic(N, succ, from)
<1> SUFFICES ASSUME NEW n \in Chain(N, succ, from), n \in Chain(N, succ, succ[n])
             PROVE  FALSE
  BY DEF Acyclic
<1>1. val[n] < val[n] /\ val[n] \in Nat
  BY AscendsAfter DEF Ascends
<1> QED
  BY <1>1

(* No value comes twice, and none comes between those of two neighbours. *)
LEMMA AscendsOnce ==
    ASSUME NEW N, NEW succ, NEW val, NEW from, Ascends(N, succ, val, from),
           NEW m \in Chain(N, succ, from), NEW n \in Chain(N, succ, from)
    PROVE  /\ val[m] = val[n] => m = n
           /\ val[n] < val[m] => /\ succ[n] \in N
                                 /\ val[succ[n]] <= val[m]
<1>1. val[m] \in Nat /\ val[n] \in Nat /\ m \in N /\ n \in N
  BY ChainClosed DEF Ascends
<1>2. /\ Chain(N, succ, m) = {m} \cup Chain(N, succ, succ[m])
      /\ Chain(N, succ, n) = {n} \cup Chain(N, succ, succ[n])
  BY <1>1, ChainCons
<1>3. CASE m = n
  BY <1>1, <1>3
<1>4. CASE n \in Chain(N, succ, succ[m])
  <2>1. val[m] < val[n]
    BY <1>4, AscendsAfter
  <2> QED
    BY <1>1, <2>1
<1>5. CASE m \in Chain(N, succ, succ[n])
  <2>1. val[n] < val[m] /\ val[succ[n]] <= val[m]
    BY <1>5, AscendsAfter
  <2>2. succ[n] \in N
    BY <1>5, ChainEmpty
  <2> QED
    BY <1>1, <2>1, <2>2
<1> QED
  BY <1>2, <1>3, <1>4, <1>5, ChainTotal

-----------------------------------------------------------------------------
(* Chains whose links follow a strict order on a finite set of nodes.      *)
StrictOrder(R) == /\ \A m, n, p : <<m, n>> \in R /\ <<n, p>> \in R => <<m, p>> \in R
                  /\ \A m : <<m, m>> \notin R

Along(N, succ, R) == \A n \in N : succ[n] \in N => <<n, succ[n]>> \in R

LEMMA AlongAfter ==
    ASSUME NEW N, NEW succ, NEW R, StrictOrder(R), Along(N, succ, R),
           NEW m \in N, NEW x \in Chain(N, succ, succ[m])
    PROVE  <<m, x>> \in R /\ x # m
<1> DEFINE D == Chain(N, succ, succ[m])
           E == {y \in D : <<m, y>> \in R}
<1>1. D \subseteq N /\ Closed(N, D, succ, succ[m])
  BY ChainClosed
<1>2. Closed(N, E, succ, succ[m]) /\ E \subseteq N
  BY <1>1 DEF Closed, Along, StrictOrder
<1>3. D \subseteq E
  BY <1>2, ChainLeast
<1> QED
  BY <1>3 DEF StrictOrder

LEMMA AlongAcyclic ==
    ASSUME NEW N, NEW succ, NEW R, StrictOrder(R), Along(N, succ, R), NEW from
    PROVE  Acyclic(N, succ, from)
BY AlongAfter, ChainClosed DEF Acyclic

(* Of a set of nodes one is after no other. *)
LEMMA OrderLast ==
    ASSUME NEW R, StrictOrder(R), NEW S, IsFiniteSet(S), S # {}
    PROVE  \E h \in S : \A x \in S : <<h, x>> \notin R
<1> DEFINE Good(H) == \E h \in H : \A x \in H : <<h, x>> \notin R
           T == {n \in Nat : \A H \in SUBSET S : Cardinality(H) = n /\ H # {} => Good(H)}
<1>1. 0 \in T
  <2>1. ASSUME NEW H \in SUBSET S, Cardinality(H) = 0 PROVE H = {}
    BY <2>1, FS_Subset, FS_EmptySet
  <2> QED
    BY <2>1
<1>2. ASSUME NEW n \in T \cap Nat PROVE n + 1 \in T
  <2> SUFFICES ASSUME NEW H \in SUBSET S, Cardinality(H) = n + 1, H # {} PROVE Good(H)
    OBVIOUS
  <2>1. PICK x \in H : TRUE
    OBVIOUS
  <2> DEFINE G == H \ {x}
  <2>2. IsFiniteSet(H) /\ Cardinality(G) = n
    <3>1. IsFiniteSet(H)
      BY FS_Subset
    <3>2. Cardinality(G) = Cardinality(H) - 1
      BY <2>1, <3>1, FS_RemoveElement
    <3> QED
      BY <3>1, <3>2
  <2>3. CASE G = {}
    <3>1. H = {x}
      BY <2>1, <2>3
    <3> QED
      BY <3>1 DEF StrictOrder
  <2>4. CASE G # {}
    <3>1. Good(G)
      BY <1>2, <2>2, <2>4
    <3>2. PICK h \in G : \A y \in G : <<h, y>> \notin R
      BY <3>1
    <3>3. CASE <<h, x>> \in R
      <4>1. \A y \in H : <<x, y>> \notin R
        BY <3>2, <3>3 DEF StrictOrder
      <4> QED
        BY <2>1, <4>1
    <3>4. CASE <<h, x>> \notin R
      BY <3>2, <3>4
    <3> QED
      BY <3>3, <3>4
  <2> QED
    BY <2>3, <2>4
<1>3. Nat \subseteq T
  <2> HIDE DEF T
  <2> QED
    BY <1>1, <1>2, SetInduction
<1> QED
  BY <1>3, FS_CardinalityType

(* Of some nodes of a chain one comes first. *)
LEMMA ChainFirst ==
    ASSUME NEW N, NEW succ, NEW from, NEW H, H \subseteq Chain(N, succ, from), H # {}
    PROVE  \E h \in H : H \subseteq Chain(N, succ, h)
<1> DEFINE C == Chain(N, succ, from)
           D == {x \in C : H \subseteq Chain(N, succ, x)}
<1>1. C \subseteq N /\ Closed(N, C, succ, from)
  BY ChainClosed
<1> SUFFICES ASSUME H \cap D = {} PROVE FALSE
  BY <1>1
<1>2. ASSUME from \in N PROVE from \in D
  BY <1>1, <1>2 DEF Closed
<1>3. ASSUME NEW x \in D, succ[x] \in N PROVE succ[x] \in D
  <2>1. Chain(N, succ, x) = {x} \cup Chain(N, succ, succ[x])
    BY <1>1, ChainCons
  <2>2. H \subseteq Chain(N, succ, succ[x])
    BY <2>1
  <2> QED
    BY <1>1, <1>3, <2>2 DEF Closed
<1>4. Closed(N, D, succ, from) /\ D \subseteq N
  BY <1>1, <1>2, <1>3 DEF Closed
<1>5. C \subseteq D
  BY <1>4, ChainLeast
<1> QED
  BY <1>5

(* Of any nodes one has none of the others behind it. *)
LEMMA ChainLast ==
    ASSUME NEW N, NEW succ, NEW R, StrictOrder(R), Along(N, succ, R),
           IsFiniteSet(N), NEW H, H \subseteq N, H # {}
    PROVE  \E h \in H : Chain(N, succ, h) \cap H = {h}
<1>1. IsFiniteSet(H)
  BY FS_Subset
<1>2. PICK h \in H : \A x \in H : <<h, x>> \notin R
  BY <1>1, OrderLast
<1>3. Chain(N, succ, h) = {h} \cup Chain(N, succ, succ[h])
  BY ChainCons
<1>4. \A x \in Chain(N, succ, succ[h]) : <<h, x>> \in R
  BY AlongAfter
<1> QED
  BY <1>2, <1>3, <1>4

(* Links changed so that each still leads to all nodes of L that it led to *)
(* leave all of them on the chain.                                         *)
LEMMA ChainKeeps ==
    ASSUME NEW N, NEW succ, NEW succ2, NEW R, StrictOrder(R), Along(N, succ2, R),
           IsFiniteSet(N), NEW L, NEW from,
           \A m \in Chain(N, succ2, from) :
              Chain(N, succ, succ[m]) \cap L \subseteq Chain(N, succ, succ2[m])
    PROVE  Chain(N, succ, from) \cap L \subseteq Chain(N, succ2, from)
<1> DEFINE D == Chain(N, succ2, from)
<1> SUFFICES ASSUME NEW y \in Chain(N, succ, from), y \in L, y \notin D PROVE FALSE
  OBVIOUS
<1> DEFINE H == {m \in D : y \in Chain(N, succ, m)}
<1>1. D \subseteq N /\ Closed(N, D, succ2, from)
  BY ChainClosed
<1>2. from \in H
  BY <1>1, ChainEmpty DEF Closed
<1>3. PICK h \in H : \A x \in H : <<h, x>> \notin R
  <2>1. IsFiniteSet(H)
    BY <1>1, FS_Subset
  <2> QED
    BY <1>2, <2>1, OrderLast
<1>4. Chain(N, succ, h) = {h} \cup Chain(N, succ, succ[h])
  BY <1>1, ChainCons
<1>5. y \in Chain(N, succ, succ2[h]) /\ y \in Chain(N, succ, succ[h])
  BY <1>4
<1>6. succ2[h] \in H
  BY <1>1, <1>5, ChainEmpty DEF Closed
<1> QED
  BY <1>1, <1>3, <1>6 DEF Along
=============================================================================
