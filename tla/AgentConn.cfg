SPECIFICATION FairAgentSpec
CONSTANTS
    NumServers = 2
    RECONNECT = 2
    NOTIFY = 1
    ATTEMPTS = 1
    RESEND = 2
    TRIES = 2
    QueueLen = 2
    InboxLen = 1
    MaxOrders = 1
    MaxFaults = 1
    MaxStarts = 2
INVARIANTS
    ConnInv
PROPERTIES
    MissesOnlySilentOrUnread
    CollectorsReleased
    InboxIsRead
CHECK_DEADLOCK FALSE
