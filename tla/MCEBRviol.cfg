CONSTANTS
    NumThreads = 2
    N = 3
SPECIFICATION Spec
INVARIANT AccessNotFree
CHECK_DEADLOCK FALSE
