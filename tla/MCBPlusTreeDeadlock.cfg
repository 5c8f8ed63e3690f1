\* A range and a removal, in a tree of two leaves.
CONSTANTS
    Threads = {t1, t2}
    MaxKey = 3
    Degrees = {2}
    MaxPages = 5
    MaxInserts = 3
    Froms = {1}
SPECIFICATION Spec
INVARIANT RangeAndRemoveGoOn
SYMMETRY Symmetric
CHECK_DEADLOCK FALSE
