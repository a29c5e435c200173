SPECIFICATION FileSpec
CONSTANTS
    Ids = {i1, i2}
    Urls = {u1, u2}
    Users = {alice}
    NoId = NoId
    NoUrl = NoUrl
    Writers = {w1}
    MaxBatch = 2
    WriteFails = TRUE
    RenameFails = FALSE
    Crashes = TRUE
CHECK_DEADLOCK FALSE
INVARIANTS
    FileTypeOK
    AcknowledgedOnDisk
    StartsAgain
    FilesFollowMemory
PROPERTIES
    RefinesDurableStore
