\* EBR: two threads and three items: one thread retires an item filed late, the other one
\* holds it, and a third item lets the global epoch move once more.
\* LazySkipList: two threads, three keys and two levels: a removal that starts over leaves a
\* surplus unlock, and the other thread takes the removed node for a predecessor.
CONSTANTS
    NumThreads = 2
    N = 3
    Updaters = {t1, t2}
    Nodes = {n1, n2, n3}
    head = head
    tail = tail
    NULL = NULL
    MaxKey = 3
    MaxLevels = 2
    LookupKeys = {3}
    MaxUpdates = 4
    MaxSurplus = 1
SPECIFICATION BothSpec
INVARIANTS
    FreshProtected
    Conservation
    GlobalNear
    OnlyKnownHarm
PROPERTIES
    ImplementsGrace
    ImplementsSet
SYMMETRY Symmetric
\* The test of EBR ends, or an assertion ends it; sl_destroy, failures and a missed turn
\* end the skip list.
CHECK_DEADLOCK FALSE
