SPECIFICATION Spec
CONSTANTS
    NofRfDev = 2
    NofDecoder <- TwoDevices
    HasLogger = FALSE
INVARIANTS ClosedInOrder NoDecodeAfterFree ConsumersOutliveProducers NoCircularWait
CHECK_DEADLOCK FALSE
