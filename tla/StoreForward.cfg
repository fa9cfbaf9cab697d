SPECIFICATION FairSpec
CONSTANTS
    NTables = 2
    BatchSize = 2
    Limit = 1
    MaxRows = 2
    MaxChanges = 2
    MaxMishaps = 1
INVARIANTS AtMostOnce EachWayKeepsOrder
PROPERTIES LossHasCause BufferIsFlushed OutageIsDrained
CHECK_DEADLOCK FALSE
