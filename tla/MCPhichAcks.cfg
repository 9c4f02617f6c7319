SPECIFICATION PhichSpec
CONSTANTS
    NofSfn = 8
    SfPerFrame = 3
    MaxLost = 4
    NofDecoder = 2
    TtiModSz = 9
    AckDelay = 2
    MaxLag = 2
    MaxAfter = 0
PROPERTIES TtiCorrect ReadsWhatIsDue
