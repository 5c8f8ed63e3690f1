------------------------ MODULE BlockingQueueProofs ------------------------
(***************************************************************************)
(* With at most one thread more than places, the blocking queue never      *)
(* loses a wake-up.  The argument counts: the invariant keeps a consumer   *)
(* awake for every stored value while some consumer sleeps, and a producer *)
(* awake for every empty place while some producer sleeps.  Sleepers of    *)
(* both kinds would then make Cap + 2 threads, so there is one kind only,  *)
(* and a signal wakes that kind.                                           *)
(***************************************************************************)
EXTENDS BlockingQueue, FiniteSetTheorems, TLAPS

USE BlockingQueueAssumption

(* Sets of threads are finite, and the larger one has more of them.        *)
LEMMA ThreadSets ==
    ASSUME NEW B \in SUBSET Clients, NEW A \in SUBSET B
    PROVE  /\ IsFiniteSet(B) /\ IsFiniteSet(A)
           /\ Cardinality(A) \in Nat /\ Cardinality(B) \in Nat
           /\ Cardinality(A) <= Cardinality(B)
<1>1. IsFiniteSet(B)
  BY FS_Subset
<1>2. IsFiniteSet(A) /\ Cardinality(A) <= Cardinality(B)
  BY <1>1, FS_Subset
<1> QED
  BY <1>1, <1>2, FS_CardinalityType

(* One thread joins a set, or leaves it.                                   *)
LEMMA OneMore ==
    ASSUME NEW A \in SUBSET Clients, NEW t \in Clients \ A
    PROVE  Cardinality(A \cup {t}) = Cardinality(A) + 1
<1> QED
  BY ThreadSets, FS_AddElement

LEMMA OneLess ==
    ASSUME NEW A \in SUBSET Clients, NEW t \in A
    PROVE  Cardinality(A \ {t}) = Cardinality(A) - 1
<1> QED
  BY ThreadSets, FS_RemoveElement

(* The counting argument.                                                  *)
LEMMA OneKind ==
    ASSUME FewThreads, QueueInv
    PROVE  OneKindSleeps
<1> SUFFICES ASSUME NEW t \in waiting, NEW u \in waiting,
                    call[t] = "push", call[u] = "pop"
             PROVE  FALSE
  BY DEF OneKindSleeps, QueueInv, QueueTypeOK
<1> DEFINE P == Awake("push")
           C == Awake("pop")
<1>1. P \in SUBSET Clients /\ C \in SUBSET Clients /\ P \cap C = {}
  BY DEF Awake
<1>2. t \in Clients /\ u \in Clients /\ t # u /\ t \notin P \cup C /\ u \notin P \cup C
  BY DEF Awake, QueueInv, QueueTypeOK
<1>3. Cardinality(P) >= Cap - used /\ Cardinality(C) >= used /\ used \in 0 .. Cap
  BY DEF Covered, QueueInv, QueueTypeOK
<1> HIDE DEF P, C
<1>4. Cardinality(P \cup C) = Cardinality(P) + Cardinality(C)
  <2>1. IsFiniteSet(P) /\ IsFiniteSet(C)
    BY <1>1, ThreadSets
  <2>2. Cardinality(P \cup C) = Cardinality(P) + Cardinality(C) - Cardinality(P \cap C)
    BY <2>1, FS_Union
  <2>3. Cardinality(P \cap C) = 0
    BY <1>1, FS_EmptySet
  <2> QED
    BY <2>2, <2>3, <1>1, ThreadSets
<1>5. Cardinality(P \cup C \cup {t}) = Cardinality(P \cup C) + 1
  BY <1>1, <1>2, OneMore
<1>6. Cardinality(P \cup C \cup {t} \cup {u}) = Cardinality(P \cup C \cup {t}) + 1
  BY <1>1, <1>2, OneMore
<1>7. Cardinality(P \cup C \cup {t} \cup {u}) <= Cardinality(Clients)
  BY <1>1, <1>2, ThreadSets
<1>8. Cardinality(P) \in Nat /\ Cardinality(C) \in Nat /\ Cardinality(Clients) \in Nat
  BY <1>1, ThreadSets
<1> QED
  BY <1>3, <1>4, <1>5, <1>6, <1>7, <1>8 DEF FewThreads

(* Who covers stays covered when nobody of this kind falls asleep, nobody  *)
(* awake leaves, and there is no more to cover.                            *)
LEMMA StillCovered ==
    ASSUME NEW kind, NEW n \in Nat, Covered(kind, n), waiting' \subseteq Clients,
           Awake(kind) \subseteq Awake(kind)',
           \A t \in waiting' : call'[t] = kind => t \in waiting /\ call[t] = kind
    PROVE  Covered(kind, n)'
<1>1. Awake(kind)' \in SUBSET Clients
  BY DEF Awake
<1>2. Cardinality(Awake(kind)) <= Cardinality(Awake(kind)')
      /\ Cardinality(Awake(kind)) \in Nat /\ Cardinality(Awake(kind)') \in Nat
  BY <1>1, ThreadSets
<1> QED
  BY <1>2 DEF Covered

-----------------------------------------------------------------------------
LEMMA TypeCorrect ==
    ASSUME QueueTypeOK, [QueueNext]_queueVars
    PROVE  QueueTypeOK'
<1> USE DEF QueueTypeOK
<1>1. ASSUME NEW t \in Clients, Call(t) PROVE QueueTypeOK'
  BY <1>1 DEF Call
<1>2. ASSUME NEW t \in Clients, Push(t) PROVE QueueTypeOK'
  <2>1. CASE used >= Cap /\ Wait(t)
    BY <2>1 DEF Wait
  <2>2. CASE used < Cap /\ ~Wait(t)
    BY <1>2, <2>2 DEF Push, Signal
  <2> QED
    BY <1>2, <2>1, <2>2 DEF Push, Signal
<1>3. ASSUME NEW t \in Clients, Pop(t) PROVE QueueTypeOK'
  <2>1. CASE used = 0
    BY <1>3, <2>1 DEF Pop, Wait
  <2>2. CASE used # 0
    <3>1. used - 1 \in 0 .. Cap - 1
      BY <2>2
    <3> QED
      BY <1>3, <2>2, <3>1 DEF Pop, Signal
  <2> QED
    BY <2>1, <2>2
<1>4. ASSUME NEW t \in Clients, Spurious(t) PROVE QueueTypeOK'
  BY <1>4 DEF Spurious
<1>5. CASE UNCHANGED queueVars
  BY <1>5 DEF queueVars
<1> QED
  BY <1>1, <1>2, <1>3, <1>4, <1>5 DEF QueueNext

(* A producer goes to sleep, or stores a value, leaves and signals.        *)
LEMMA PushKeeps ==
    ASSUME FewThreads, QueueInv, QueueTypeOK', NEW t \in Clients, Push(t)
    PROVE  QueueInv'
<1>0. QueueTypeOK /\ t \in Clients \ waiting /\ call[t] = "push"
  BY DEF QueueInv, Push, Awake
<1>1. CASE used >= Cap /\ Wait(t)
  <2>1. used = Cap /\ UNCHANGED <<used, call>> /\ waiting' = waiting \cup {t}
    BY <1>0, <1>1 DEF Wait, QueueTypeOK
  <2>2. \A u \in waiting' : call'[u] # "idle"
    BY <1>0, <2>1 DEF QueueInv
  <2>3. Awake("pop")' = Awake("pop")
    BY <1>0, <2>1 DEF Awake
  <2>4. Covered("pop", used)'
    BY <1>0, <2>1, <2>3 DEF Covered, QueueInv
  <2>5. Awake("push")' \in SUBSET Clients
    BY DEF Awake
  <2>6. Cardinality(Awake("push")') \in Nat
    BY <2>5, ThreadSets
  <2>7. Covered("push", Cap - used)'
    BY <2>1, <2>6 DEF Covered
  <2> QED
    BY <2>2, <2>4, <2>7 DEF QueueInv
<1>2. CASE /\ used < Cap /\ used' = used + 1
           /\ Signal
           /\ call' = [call EXCEPT ![t] = "idle"]
  <2>1. \A u \in Clients : u # t => call'[u] = call[u]
    BY <1>0, <1>2 DEF QueueTypeOK
  <2>2. call'[t] = "idle"
    BY <1>0, <1>2 DEF QueueTypeOK
  <2>3. waiting' \subseteq waiting /\ waiting \subseteq Clients
    BY <1>0, <1>2 DEF Signal, QueueTypeOK
  <2>4. \A u \in waiting' : call'[u] # "idle"
    BY <1>0, <2>1, <2>3 DEF QueueInv
  <2>5. OneKindSleeps
    BY OneKind
  <2>6. Covered("pop", used)'
    <3> SUFFICES ASSUME NEW u \in waiting', call'[u] = "pop"
                 PROVE  Cardinality(Awake("pop")') >= used'
      BY DEF Covered
    <3>1. u \in waiting /\ call[u] = "pop"
      BY <2>1, <2>3, <1>0
    <3>2. PICK w \in waiting : waiting' = waiting \ {w}
      BY <1>2, <3>1 DEF Signal
    <3>3. call[w] = "pop" /\ w # t /\ w \in Clients
      BY <3>1, <2>5, <2>3, <1>0 DEF OneKindSleeps
    <3>4. Awake("pop")' = Awake("pop") \cup {w}
      BY <3>2, <3>3, <2>1, <2>2, <1>0 DEF Awake
    <3>5. Awake("pop") \in SUBSET Clients /\ w \in Clients \ Awake("pop")
      BY <3>2, <3>3 DEF Awake
    <3>6. Cardinality(Awake("pop")') = Cardinality(Awake("pop")) + 1
      BY <3>4, <3>5, OneMore
    <3>7. Cardinality(Awake("pop")) >= used
      BY <3>1 DEF QueueInv, Covered
    <3>8. Cardinality(Awake("pop")) \in Nat
      BY <3>5, ThreadSets
    <3> QED
      BY <3>6, <3>7, <3>8, <1>2, <1>0 DEF QueueTypeOK
  <2>7. Covered("push", Cap - used)'
    <3> SUFFICES ASSUME NEW u \in waiting', call'[u] = "push"
                 PROVE  Cardinality(Awake("push")') >= Cap - used'
      BY DEF Covered
    <3>1. u \in waiting /\ call[u] = "push"
      BY <2>1, <2>3, <1>0
    <3>2. Awake("push") \ {t} \subseteq Awake("push")'
      BY <2>1, <2>3 DEF Awake
    <3>3. Awake("push") \in SUBSET Clients /\ t \in Awake("push")
          /\ Awake("push")' \in SUBSET Clients
      BY <1>0 DEF Awake
    <3>4. Cardinality(Awake("push") \ {t}) = Cardinality(Awake("push")) - 1
      BY <3>3, OneLess
    <3>5. /\ Cardinality(Awake("push") \ {t}) <= Cardinality(Awake("push")')
          /\ Cardinality(Awake("push")') \in Nat
          /\ Cardinality(Awake("push")) \in Nat
      BY <3>2, <3>3, ThreadSets
    <3>6. Cardinality(Awake("push")) >= Cap - used
      BY <3>1 DEF QueueInv, Covered
    <3> QED
      BY <3>4, <3>5, <3>6, <1>2, <1>0 DEF QueueTypeOK
  <2> QED
    BY <2>4, <2>6, <2>7 DEF QueueInv
<1> QED
  BY <1>1, <1>2 DEF Push

(* A consumer goes to sleep, or takes a value, leaves and signals.         *)
LEMMA PopKeeps ==
    ASSUME FewThreads, QueueInv, QueueTypeOK', NEW t \in Clients, Pop(t)
    PROVE  QueueInv'
<1>0. QueueTypeOK /\ t \in Clients \ waiting /\ call[t] = "pop"
  BY DEF QueueInv, Pop, Awake
<1>1. CASE used = 0 /\ Wait(t)
  <2>1. UNCHANGED <<used, call>> /\ waiting' = waiting \cup {t}
    BY <1>0, <1>1 DEF Wait, QueueTypeOK
  <2>2. \A u \in waiting' : call'[u] # "idle"
    BY <1>0, <2>1 DEF QueueInv
  <2>3. Awake("push")' = Awake("push")
    BY <1>0, <2>1 DEF Awake
  <2>4. Covered("push", Cap - used)'
    BY <1>0, <2>1, <2>3 DEF Covered, QueueInv
  <2>5. Awake("pop")' \in SUBSET Clients
    BY DEF Awake
  <2>6. Cardinality(Awake("pop")') \in Nat
    BY <2>5, ThreadSets
  <2>7. Covered("pop", used)'
    BY <1>1, <2>1, <2>6 DEF Covered
  <2> QED
    BY <2>2, <2>4, <2>7 DEF QueueInv
<1>2. CASE /\ used # 0 /\ used' = used - 1
           /\ Signal
           /\ call' = [call EXCEPT ![t] = "idle"]
  <2>1. \A u \in Clients : u # t => call'[u] = call[u]
    BY <1>0, <1>2 DEF QueueTypeOK
  <2>2. call'[t] = "idle"
    BY <1>0, <1>2 DEF QueueTypeOK
  <2>3. waiting' \subseteq waiting /\ waiting \subseteq Clients
    BY <1>0, <1>2 DEF Signal, QueueTypeOK
  <2>4. \A u \in waiting' : call'[u] # "idle"
    BY <1>0, <2>1, <2>3 DEF QueueInv
  <2>5. OneKindSleeps
    BY OneKind
  <2>6. Covered("push", Cap - used)'
    <3> SUFFICES ASSUME NEW u \in waiting', call'[u] = "push"
                 PROVE  Cardinality(Awake("push")') >= Cap - used'
      BY DEF Covered
    <3>1. u \in waiting /\ call[u] = "push"
      BY <2>1, <2>3, <1>0
    <3>2. PICK w \in waiting : waiting' = waiting \ {w}
      BY <1>2, <3>1 DEF Signal
    <3>3. call[w] = "push" /\ w # t /\ w \in Clients
      BY <3>1, <2>5, <2>3, <1>0 DEF OneKindSleeps
    <3>4. Awake("push")' = Awake("push") \cup {w}
      BY <3>2, <3>3, <2>1, <2>2, <1>0 DEF Awake
    <3>5. Awake("push") \in SUBSET Clients /\ w \in Clients \ Awake("push")
      BY <3>2, <3>3 DEF Awake
    <3>6. Cardinality(Awake("push")') = Cardinality(Awake("push")) + 1
      BY <3>4, <3>5, OneMore
    <3>7. Cardinality(Awake("push")) >= Cap - used
      BY <3>1 DEF QueueInv, Covered
    <3>8. Cardinality(Awake("push")) \in Nat
      BY <3>5, ThreadSets
    <3> QED
      BY <3>6, <3>7, <3>8, <1>2, <1>0 DEF QueueTypeOK
  <2>7. Covered("pop", used)'
    <3> SUFFICES ASSUME NEW u \in waiting', call'[u] = "pop"
                 PROVE  Cardinality(Awake("pop")') >= used'
      BY DEF Covered
    <3>1. u \in waiting /\ call[u] = "pop"
      BY <2>1, <2>3, <1>0
    <3>2. Awake("pop") \ {t} \subseteq Awake("pop")'
      BY <2>1, <2>3 DEF Awake
    <3>3. Awake("pop") \in SUBSET Clients /\ t \in Awake("pop")
          /\ Awake("pop")' \in SUBSET Clients
      BY <1>0 DEF Awake
    <3>4. Cardinality(Awake("pop") \ {t}) = Cardinality(Awake("pop")) - 1
      BY <3>3, OneLess
    <3>5. /\ Cardinality(Awake("pop") \ {t}) <= Cardinality(Awake("pop")')
          /\ Cardinality(Awake("pop")') \in Nat
          /\ Cardinality(Awake("pop")) \in Nat
      BY <3>2, <3>3, ThreadSets
    <3>6. Cardinality(Awake("pop")) >= used
      BY <3>1 DEF QueueInv, Covered
    <3> QED
      BY <3>4, <3>5, <3>6, <1>2, <1>0 DEF QueueTypeOK
  <2> QED
    BY <2>4, <2>6, <2>7 DEF QueueInv
<1> QED
  BY <1>1, <1>2 DEF Pop

-----------------------------------------------------------------------------
(* Every step of q_push and q_pop keeps the counting invariant.            *)
LEMMA StepKeeps ==
    ASSUME FewThreads, QueueInv, [QueueNext]_queueVars
    PROVE  QueueInv'
<1>0. QueueTypeOK /\ QueueTypeOK'
  BY TypeCorrect DEF QueueInv
<1>1. ASSUME NEW t \in Clients, Call(t) PROVE QueueInv'
  <2>1. t \notin waiting /\ UNCHANGED <<used, waiting>>
    BY <1>1 DEF Call, QueueInv
  <2>2. \A u \in Clients : call'[u] = call[u] \/ (u = t /\ call[u] = "idle")
    BY <1>0, <1>1 DEF Call, QueueTypeOK
  <2>3. waiting' \subseteq Clients /\ \A u \in waiting' : u \in waiting /\ call'[u] = call[u]
    BY <1>0, <2>1, <2>2 DEF QueueTypeOK
  <2>4. Awake("pop") \subseteq Awake("pop")' /\ Awake("push") \subseteq Awake("push")'
    BY <2>1, <2>2 DEF Awake
  <2>5. used \in Nat /\ Cap - used \in Nat
    BY <1>0 DEF QueueTypeOK
  <2>6. Covered("pop", used)'
    BY <2>1, <2>3, <2>4, <2>5, StillCovered DEF QueueInv
  <2>7. Covered("push", Cap - used)'
    BY <2>1, <2>3, <2>4, <2>5, StillCovered DEF QueueInv
  <2> QED
    BY <1>0, <2>1, <2>3, <2>6, <2>7 DEF QueueInv
<1>2. ASSUME NEW t \in Clients, Push(t) PROVE QueueInv'
  BY <1>0, <1>2, PushKeeps
<1>3. ASSUME NEW t \in Clients, Pop(t) PROVE QueueInv'
  BY <1>0, <1>3, PopKeeps
<1>4. ASSUME NEW t \in Clients, Spurious(t) PROVE QueueInv'
  <2>1. UNCHANGED <<used, call>> /\ waiting' = waiting \ {t}
    BY <1>4 DEF Spurious
  <2>2. waiting' \subseteq Clients /\ \A u \in waiting' : u \in waiting /\ call'[u] = call[u]
    BY <1>0, <2>1 DEF QueueTypeOK
  <2>3. Awake("pop") \subseteq Awake("pop")' /\ Awake("push") \subseteq Awake("push")'
    BY <2>1 DEF Awake
  <2>4. used \in Nat /\ Cap - used \in Nat
    BY <1>0 DEF QueueTypeOK
  <2>5. Covered("pop", used)'
    BY <2>1, <2>2, <2>3, <2>4, StillCovered DEF QueueInv
  <2>6. Covered("push", Cap - used)'
    BY <2>1, <2>2, <2>3, <2>4, StillCovered DEF QueueInv
  <2> QED
    BY <1>0, <2>1, <2>2, <2>5, <2>6 DEF QueueInv
<1>5. CASE UNCHANGED queueVars
  BY <1>5 DEF queueVars, QueueInv, QueueTypeOK, Covered, Awake
<1> QED
  BY <1>1, <1>2, <1>3, <1>4, <1>5 DEF QueueNext

(* The counting invariant of q_push and q_pop holds for any number of      *)
(* places and at most one thread more.                                     *)
THEOREM Invariance == ASSUME FewThreads PROVE QueueSpec => []QueueInv
<1>1. QueueInit => QueueInv
  <2> SUFFICES ASSUME QueueInit PROVE QueueInv
    OBVIOUS
  <2>1. QueueTypeOK
    BY DEF QueueInit, QueueTypeOK
  <2> QED
    BY <2>1 DEF QueueInit, QueueInv, Covered
<1>2. QueueInv /\ [QueueNext]_queueVars => QueueInv'
  BY StepKeeps
<1> QED
  BY <1>1, <1>2, PTL DEF QueueSpec

(* Neither q_push nor q_pop ever wakes a thread of the wrong kind.         *)
THEOREM SleepersAgree == ASSUME FewThreads PROVE QueueSpec => []OneKindSleeps
<1>1. QueueInv => OneKindSleeps
  BY OneKind
<1> QED
  BY <1>1, Invariance, PTL

(* No wake-up of cond is lost.                                             *)
THEOREM NoneLost == ASSUME FewThreads PROVE QueueSpec => []NoLostWakeup
<1>1. QueueInv => NoLostWakeup
  <2> SUFFICES ASSUME QueueInv, NEW t \in waiting,
                      \/ call[t] = "push" /\ used < Cap
                      \/ call[t] = "pop" /\ used > 0
               PROVE  Awake("push") \cup Awake("pop") # {}
    BY DEF NoLostWakeup
  <2>1. used \in 0 .. Cap
    BY DEF QueueInv, QueueTypeOK
  <2>2. CASE call[t] = "push" /\ used < Cap
    <3>1. Cardinality(Awake("push")) >= Cap - used
      BY <2>2 DEF QueueInv, Covered
    <3> QED
      BY <2>1, <2>2, <3>1, FS_EmptySet
  <2>3. CASE call[t] = "pop" /\ used > 0
    <3>1. Cardinality(Awake("pop")) >= used
      BY <2>3 DEF QueueInv, Covered
    <3> QED
      BY <2>1, <2>3, <3>1, FS_EmptySet
  <2> QED
    BY <2>2, <2>3
<1> QED
  BY <1>1, Invariance, PTL
=============================================================================
