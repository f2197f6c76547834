\* Two calls with one ID, one with another, and a harmless one; nobody has to
\* reply, but the deadline comes.
SPECIFICATION FairSpec
CONSTANTS
    c1 = c1
    c2 = c2
    c3 = c3
    harmless = harmless
    k1 = k1
    k2 = k2
    Calls = {c1, c2, c3, harmless}
    Keys = {k1, k2}
    KeyOf <- MCKeyOf
    Dangerous = {c1, c2, c3}
    None = None
INVARIANTS
    AllowedOnlyIfApproved
    ShownIsPending
    NoStaleEntry
PROPERTIES
    EveryCheckReturns
CHECK_DEADLOCK TRUE
