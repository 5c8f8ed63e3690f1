\* Three threads: a push and a pop that lose the head to a third call and meet in the
\* exchanger.  Three nodes, which are reused all the time.
CONSTANTS
    Threads = {t1, t2, t3}
    Nodes = {n1, n2, n3}
    NULL = NULL
SPECIFICATION Spec
INVARIANTS
    NoUseAfterFree
    Conservation
    SlotOwned
PROPERTIES
    ImplementsLifo
SYMMETRY Symmetric
\* s_destroy ends the stack.
CHECK_DEADLOCK FALSE
