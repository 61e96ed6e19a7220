SPECIFICATION FairSpec
CONSTANTS
    Clients = {c1, c2}
    NoClient = NoClient
    Backlog = 2
    MaxBodies = 2
    c1 = c1
    c2 = c2
    MaxHost = 2
    MaxPort = 10
    UrlRoom = 4
    Addresses <- MCAddresses
INVARIANTS
    ListensOnCheckedPort
    TypeOK
    NoLockBetweenScrapes
    AnswersOwnRequest
    BodiesAreFreed
PROPERTY RequestIsServed
CHECK_DEADLOCK FALSE
