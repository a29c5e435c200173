SPECIFICATION Spec
CONSTANTS
    Ids = {i1, i2}
    Urls = {u1, u2}
    Raws = {u1, u2}
    Normalize <- MCNormalize
    Users = {alice, bob}
    NoId = NoId
    NoUrl = NoUrl
    Singles = {s1}
    Batches = {b1}
    BadUrl = BadUrl
    NoUser = NoUser
    Tries = 1
    MaxItems = 2
    Faults = FALSE
    BlankId = BlankId
    QueueCap = 1
    BatchSize = 2
    MaxDelete = 1
    MarkFails = FALSE
    MaxLate = 0
SYMMETRY Symmetric
CHECK_DEADLOCK FALSE
INVARIANTS
    DeletedExist
    StoppedDone
PROPERTIES
    RefinesShortLinks
