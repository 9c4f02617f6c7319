SPECIFICATION FairSpec
CONSTANTS
    NofDecoder = 2
    MaxTmpBuffer = 2
    MaxSkipTti = 1
    NofSubframes = 4
    MaxSpurious = 2
    SleepSuffices = FALSE
INVARIANTS IqMatchesTti
PROPERTIES SchedulerReturnsToRadio
