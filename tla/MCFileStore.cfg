\* Two processes take turns on one session; a rollback fails only where nobody
\* else comes before it is made good, which MCFileStore_owed is about.
SPECIFICATION AloneSpec
CONSTANTS
    p1 = p1
    p2 = p2
    Procs = {p1, p2}
    BatchSizes = {1, 2}
    MaxEvents = 3
    RollbackMayFail = TRUE
    Torn = Torn
    None = None
SYMMETRY ProcSymmetry
INVARIANTS
    LogIntact
    CacheSound
    FailedStaysOut
    AckedIsDurable
PROPERTIES
    ImplementsDurableLog
CHECK_DEADLOCK TRUE
