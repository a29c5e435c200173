SPECIFICATION ReqFairSpec
CONSTANTS
    Ids = {i1, i2}
    Urls <- MCUrls
    Users = {alice}
    NoId = NoId
    NoUrl = NoUrl
    Singles = {s1}
    Batches = {b1}
    Raws <- MCRaws
    Normalize <- MCNormalize
    BadUrl = BadUrl
    NoUser = NoUser
    NoScheme = NoScheme
    NoHost = NoHost
    Tries = 2
    MaxItems = 2
    Faults = TRUE
CHECK_DEADLOCK FALSE
INVARIANTS
    AnswersStored
    LinksResolve
PROPERTIES
    RequestsEnd
