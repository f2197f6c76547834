\* Two conversations, two commands at a time, a killed process.
SPECIFICATION Spec
CONSTANTS
    Callers = {c1, c2}
    Commands = {k1, k2}
    Registrations = {r1, r2}
    MaxGrants = 2
    MaxCommands = 3
    MaxCrashes = 1
SYMMETRY Symmetry
INVARIANTS
    GrantsSpentOnce
    HostIDIsOne
    AccountsDoNotMix
PROPERTIES
    AccountChangesByLogout
CHECK_DEADLOCK TRUE
