\* A push that loses the head to another push, and waits in vain in the exchanger.
CONSTANTS
    Threads = {t1, t2}
    Nodes = {n1, n2}
    NULL = NULL
SPECIFICATION Spec
INVARIANT NoMemoryLeak
SYMMETRY Symmetric
CHECK_DEADLOCK FALSE
