\* Two adapters, three updates, a killed process.
SPECIFICATION FairSpec
CONSTANTS
    telegram = telegram
    feishu = feishu
    Adapters = {telegram, feishu}
    Telegram = telegram
    QueueSize = 1
    Limit = 2
    Initial = 10
    MaxDelay = 30
    Codes <- MCCodes
    RetryAfters = {5}
    MaxUpdates = 3
    MaxRestarts = 1
INVARIANTS
    NoUpdateLost
    RetryIsPaced
PROPERTIES
    OneFailureIsNotAll
    EveryUpdateHandled
CHECK_DEADLOCK TRUE
