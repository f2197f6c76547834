\* Every history of up to four messages, every budget up to its whole size.
SPECIFICATION Spec
CONSTANTS
    a = a
    b = b
    NoCall = NoCall
    MaxHistory = 4
    SystemTokens = 1
    Budget = 9
INVARIANTS
    UnitsAreChains
    BuildIsLongestView
CHECK_DEADLOCK FALSE
