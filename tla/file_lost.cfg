SPECIFICATION FileSpec
CONSTANTS
    Ids = {i1, i2}
    Urls = {u1, u2}
    Users = {alice}
    NoId = NoId
    NoUrl = NoUrl
    Writers = {w1, w2}
    MaxBatch = 1
    WriteFails = FALSE
    RenameFails = FALSE
    Crashes = FALSE
SYMMETRY Symmetric
CHECK_DEADLOCK FALSE
INVARIANTS
    AcknowledgedOnDisk
