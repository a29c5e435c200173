SPECIFICATION ReqSpec
CONSTANTS
    Ids = {i1, i2, i3}
    Urls <- MCUrls
    Users = {alice}
    NoId = NoId
    NoUrl = NoUrl
    Singles = {s1, s2}
    Batches = {b1}
    Raws <- MCRaws
    Normalize <- MCNormalize
    BadUrl = BadUrl
    NoUser = NoUser
    NoScheme = NoScheme
    NoHost = NoHost
    Tries = 2
    MaxItems = 2
    Faults = FALSE
SYMMETRY Symmetric
CHECK_DEADLOCK FALSE
INVARIANTS
    TypeOK
    IndexesAgree
    AnswersStored
    CreatedOnce
    AnsweredListed
    BatchIdsDistinct
    LostToAnother
PROPERTIES
    LinksNeverMove
