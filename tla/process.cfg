SPECIFICATION Spec
CONSTANTS
    h1 = h1
    h2 = h2
    g1 = g1
    alice = alice
    bob = bob
    HttpCalls = {h1, h2}
    WebCalls = {h1, h2}
    GrpcCalls = {g1}
    Sources <- MCSources
    LaterSources <- MCLaterSources
    MaxBoots = 2
    Clients = {alice, bob}
    ClientOf <- MCClientOf
    Marred = {alice}
    NoUser = NoUser
CHECK_DEADLOCK FALSE
INVARIANTS
    ReleasedAtExit
    StoreOpenWhileUsed
    CleanExit
    ActsForOwnId
PROPERTIES
    ByPriority
    ShutsDown
