SPECIFICATION Spec
CONSTANTS
    BufSize = 40
    DecodeTimeout = 3
    NofCell = 1
    Kinds = {"dl"}
    NofMsg <- Messages
    LogsOf <- OneLog
    FirstTti = 40
    LastTti = 90
    MaxInFlight <- OnePool
    MaxLag = 6
    MaxSkew = 2
    MaxBuffer = 1
    MaxLost <- NoLoss
    LogInterval = FALSE
INVARIANTS HeaderBehindNewest
