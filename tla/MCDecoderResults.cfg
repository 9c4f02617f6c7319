SPECIFICATION TurnSpec
CONSTANTS
    MaxDciBuffer = 3
    NofDci = 7
    HasLogger = TRUE
    Decoders = {d1, d2}
INVARIANTS TypeOK KeepsNewest ConsumersGetAll NoDuplicates ConfigComplete
PROPERTIES NewestDelivered
