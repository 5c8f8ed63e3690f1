\* Two threads that push, pop and look, a dummy and up to two values: a pop that loaded
\* the tail meets a push and a pop of the other thread.
CONSTANTS
    Threads = {t1, t2}
    Nodes = {n1, n2, n3}
    Values = {a}
    NULL = NULL
SPECIFICATION Spec
INVARIANTS
    NoNullDeref
SYMMETRY Symmetric
\* q_destroy ends the queue.
CHECK_DEADLOCK FALSE
