SPECIFICATION BufferSpec
CONSTANTS
    MaxTmpBuffer = 3
    MaxSkipTti = 2
    SfPerFrame = 4
    LastTti = 9
INVARIANTS RingConsistent
PROPERTIES ImplementsTmpStore
