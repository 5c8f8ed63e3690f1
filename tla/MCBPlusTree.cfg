\* Two threads.  Degree 2 takes the tree to three levels with five keys, so that inner pages
\* split, merge and borrow; degree 3 lets leaves borrow.  Five insertions reach both.
CONSTANTS
    Threads = {t1, t2}
    MaxKey = 5
    Degrees = {2, 3}
    MaxPages = 9
    MaxInserts = 5
    Froms = {2}
SPECIFICATION Spec
INVARIANTS
    TreeSound
    RangeSteady
    OnlyRangeDeadlocks
PROPERTIES
    OnlyOwnKey
SYMMETRY Symmetric
\* A range and an update deadlock, and bp_destroy and failures end the process.
CHECK_DEADLOCK FALSE
