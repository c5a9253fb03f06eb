SPECIFICATION FairSpec
CONSTANTS
    provider = provider
    consumer = consumer
    Module = {provider, consumer}
    User <- MCUser
    Level <- MCLevel
    Requires <- MCRequires
    Prefers <- MCPrefers
    c1 = c1
    c2 = c2
    Client = {c1, c2}
    MaxRequests = 3
    NoClient = NoClient
    NoModule = NoModule
INVARIANTS
    OneCopy
    DisabledIsStopped
PROPERTIES
    RequiredFirst
    BusInTurn
    RequestsEnd
CHECK_DEADLOCK FALSE
