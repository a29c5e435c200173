SPECIFICATION FileSpec
CONSTANTS
    Ids = {i1, i2, i3}
    Urls = {u1, u2, u3}
    Users = {}
    NoId = NoId
    NoUrl = NoUrl
    Writers = {w1, w2}
    MaxBatch = 2
    WriteFails = TRUE
    RenameFails = TRUE
    Crashes = FALSE
SYMMETRY Symmetric
CHECK_DEADLOCK FALSE
INVARIANTS
    IndexesAgree
    AcknowledgedInMemory
