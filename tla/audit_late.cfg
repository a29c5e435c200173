SPECIFICATION AuditSpec
CONSTANTS
    Events = {e1, e2, e3}
    NoEvent = NoEvent
    QueueSize = 2
    RetryCount = 3
    Late = TRUE
CHECK_DEADLOCK FALSE
INVARIANTS
    NeverPanics
