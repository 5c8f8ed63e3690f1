\* Two threads that push, pop and look, a dummy and up to three values, of two kinds so
\* that an order can be wrong; four nodes, so that addresses are reused all the time.
CONSTANTS
    Threads = {t1, t2}
    Nodes = {n1, n2, n3, n4}
    Values = {a, b}
    NULL = NULL
SPECIFICATION Spec
INVARIANTS
    FailsOnlyBehind
    NoUseAfterFree
    Conservation
    PopTakesOldest
    AnswersHappened
    TailNear
PROPERTIES
    ImplementsFifo
SYMMETRY Symmetric
\* q_destroy ends the queue.
CHECK_DEADLOCK FALSE
