SPECIFICATION FairSpec
CONSTANTS
    NofDecoder = 2
    MaxTmpBuffer = 2
    MaxSkipTti = 1
    NofSubframes = 6
    MaxSpurious = 0
    SleepSuffices = TRUE
INVARIANTS TypeOK TakenExclusive AtMostOnce Accounted
PROPERTIES BacklogWorkedOff ImplementsDelivery
