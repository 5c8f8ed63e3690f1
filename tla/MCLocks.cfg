\* As many threads as tickets, so that both bytes wrap and all tickets are in use at once;
\* four threads on three places, the most that FewThreads allows, and one value, as no
\* property tells values apart.
CONSTANTS
    Callers = {t1, t2, t3}
    Threads = {t1, t2, t3}
    Clients = {t1, t2, t3, t4}
    Tickets = 3
    Values = {a}
    Cap = 3
SPECIFICATION LockSpec
INVARIANTS
    MutualExclusion
    SpinInv
    Exclusion
    IInv
    SlockOwned
    QueueInv
    NoLostWakeup
PROPERTIES
    EventuallyHeld
    ImplementsFifoLock
    WriterPreference
    AdmittedProceeds
