SPECIFICATION FairSpec
CONSTANTS
    NofRfDev = 1
    NofDecoder <- OneDecoder
    HasLogger = FALSE
CHECK_DEADLOCK FALSE
PROPERTIES MainReturns
