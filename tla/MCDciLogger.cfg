SPECIFICATION Spec
CONSTANTS
    BufSize = 32
    DecodeTimeout = 2
    NofCell = 2
    Kinds = {"dl", "phich"}
    NofMsg <- Messages
    LogsOf <- TwoLogs
    FirstTti = 32
    LastTti = 65
    MaxInFlight <- TwoPools
    MaxLag = 2
    MaxSkew = 1
    MaxBuffer = 2
    MaxLost <- LossInFirst
    LogInterval = TRUE
INVARIANTS InOrderButLost GiveUpOnlyAfterTimeout BoundedLag Drained LoggedInOrder WellFormed
