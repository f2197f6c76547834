\* A window in which three failed turns fit, and not the reminder after them.
SPECIFICATION SafeSpec
CONSTANTS
    a = a
    b = b
    x = x
    y = y
    NoCall = NoCall
    Actions = {x, y}
    Replies <- OneCall
    SystemTokens = 1
    Budget = 8
    RetryBudget = 6
    EnableThinking = FALSE
    MaxMessages = 14
INVARIANT CurrentRequestSent
CHECK_DEADLOCK FALSE
