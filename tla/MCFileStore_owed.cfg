\* Two processes, and a rollback that is still owed when the writer changes.
SPECIFICATION Spec
CONSTANTS
    p1 = p1
    p2 = p2
    Procs = {p1, p2}
    BatchSizes = {1, 2}
    MaxEvents = 2
    RollbackMayFail = TRUE
    Torn = Torn
    None = None
SYMMETRY ProcSymmetry
INVARIANTS
    AckedIsDurable
CHECK_DEADLOCK TRUE
