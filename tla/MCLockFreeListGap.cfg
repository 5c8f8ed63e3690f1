\* The gap between the first load of ll_lookup and ebr_enter.
CONSTANTS
    Threads = {t1, t2}
    Nodes = {n1, n2}
    HeadNode = HeadNode
    TailNode = TailNode
    NULL = NULL
    MaxKey = 1
    Junk <- Nothing
SPECIFICATION Spec
INVARIANT NoLateRead
CHECK_DEADLOCK FALSE
