SPECIFICATION FairSpec
CONSTANTS
    Clients = {c1, c2}
    MaxRequests = 1
    MaxStarts = 1
PROPERTY
    StopAlwaysReturns
