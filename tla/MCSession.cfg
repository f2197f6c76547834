\* Two callers and two objects against other processes and a kill.
SPECIFICATION Spec
CONSTANTS
    c1 = c1
    c2 = c2
    s1 = s1
    s2 = s2
    Callers = {c1, c2}
    Objects = {s1, s2}
    Key = Key
    Legacy = Legacy
    Kinds = {"resolve", "getOrCreate", "delete"}
    MaxEvents <- MCMaxEvents
    Other = Other
    None = None
SYMMETRY MCSymmetry
INVARIANTS
    MemoryIsLog
    LeaseIsAccountedFor
    UsageIsSum
PROPERTIES
    NoFork
CHECK_DEADLOCK TRUE
