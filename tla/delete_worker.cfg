SPECIFICATION DelFairSpec
CONSTANTS
    Ids = {i1}
    Urls = {u1}
    Users = {alice, bob}
    NoId = NoId
    NoUrl = NoUrl
    BlankId = BlankId
    QueueCap = 2
    BatchSize = 2
    MaxDelete = 2
    MarkFails = TRUE
    MaxLate = 1
CHECK_DEADLOCK FALSE
INVARIANTS
    DelTypeOK
    AcceptedNotLost
    DeletedByOwner
    CountCoversPending
PROPERTIES
    AcceptedGetsDone
    WorkerStops
