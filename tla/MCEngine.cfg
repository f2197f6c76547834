\* Replies with up to two calls, one of them illegal, of two actions, and a
\* thinking phase; the window holds less than three whole turns.
SPECIFICATION Spec
CONSTANTS
    a = a
    b = b
    x = x
    y = y
    NoCall = NoCall
    Actions = {x, y}
    Replies <- ManyCalls
    SystemTokens = 1
    Budget = 8
    RetryBudget = 4
    EnableThinking = TRUE
    MaxMessages = 13
INVARIANTS
    SentIsLegal
    CompleteUnlessInterrupted
    DamageIsFinal
    ToolsRunOnce
    ReminderNotMissed
    RequestIsAnchored
PROPERTIES
    CancelEnds
CHECK_DEADLOCK FALSE
