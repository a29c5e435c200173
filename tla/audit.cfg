SPECIFICATION AuditFairSpec
CONSTANTS
    Events = {e1, e2, e3}
    NoEvent = NoEvent
    QueueSize = 1
    RetryCount = 2
    Late = TRUE
CHECK_DEADLOCK FALSE
INVARIANTS
    AuditTypeOK
    FileFollowsQueue
    EndpointReceipts
    WritesToOpenFile
    NothingLeftBehind
PROPERTIES
    CloseReturns
    QueuedGetsWritten
