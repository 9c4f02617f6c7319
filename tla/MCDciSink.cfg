SPECIFICATION SinkSpec
CONSTANTS
    Clients = {c1}
    MaxClient = 1
    NofRfDev = 2
    NofLogDci = 2
    MaxTti = 8
    RingSize = 4
    StaleTimes = {0, 5}
    NoClient = NoClient
    FirstDci = 6
    LastDci = 8
    MaxAhead = 2
    MaxQueue = 3
    MaxGivenUp = 1
    MaxLostPkt = 2
INVARIANTS ConfigUnlessLost NoGapUnlessLost
PROPERTIES CaWindow Connects
