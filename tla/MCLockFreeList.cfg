\* Two threads, two keys and three nodes: a key can be removed and inserted again, at a
\* reused address, while the other thread is on the way to it.
CONSTANTS
    Threads = {t1, t2}
    Nodes = {n1, n2, n3}
    HeadNode = HeadNode
    TailNode = TailNode
    NULL = NULL
    MaxKey = 2
    Junk <- Nothing
SPECIFICATION Spec
INVARIANTS
    NoUseAfterFree
    Conservation
    Sorted
    AnswersHappened
PROPERTIES
    ImplementsSet
SYMMETRY Symmetric
\* ll_destroy ends the list.
CHECK_DEADLOCK FALSE
