SPECIFICATION FairSpec
CONSTANTS
    Clients = {c1, c2}
    MaxRequests = 4
    MaxStarts = 3
INVARIANTS
    TypeOK
    QuietAfterStop
    NoLostRequestWakeup
    LatestRequestKept
PROPERTIES
    RequestServed
    StopReturnsIfHeard
    ImplementsService
