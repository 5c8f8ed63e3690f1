\* Two threads on two keys of one bucket, which a resize splits: bucket 3 has the father 1.
CONSTANTS
    Threads = {t1, t2}
    Width = 4
    Keys = {{0}, {0, 1}}
    Copies = 2
    MinBits = 1
    MaxBits = 2
    Counts = {3}
    NULL = NULL
SPECIFICATION Spec
INVARIANTS
    SentinelOnce
    ShortcutSound
PROPERTIES
    NothingFallsOut
SYMMETRY Symmetric
\* A key may run out of nodes, and hs_destroy ends the set.
CHECK_DEADLOCK FALSE
