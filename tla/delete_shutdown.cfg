SPECIFICATION DelSpec
CONSTANTS
    Ids = {i1}
    Urls = {u1}
    Users = {alice}
    NoId = NoId
    NoUrl = NoUrl
    BlankId = BlankId
    QueueCap = 2
    BatchSize = 2
    MaxDelete = 2
    MarkFails = TRUE
    MaxLate = 0
CHECK_DEADLOCK FALSE
INVARIANTS
    StoppedDone
