\* One adapter, a queue of one, and nobody waits for the approval's deadline.
SPECIFICATION PatientSpec
CONSTANTS
    telegram = telegram
    feishu = feishu
    Adapters = {telegram}
    Telegram = telegram
    QueueSize = 1
    Limit = 2
    Initial = 10
    MaxDelay = 10
    Codes <- MCCodes
    RetryAfters = {5}
    MaxUpdates = 4
    MaxRestarts = 0
PROPERTY ReplyEndsWait
CHECK_DEADLOCK TRUE
