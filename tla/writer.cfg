SPECIFICATION DeliverySpec
CONSTANTS
    Configured = TRUE
    MinInterval = 2
    NTables = 2
    MaxQueue = 3
    Batch = 1
    BatchesPerPass = 2
    MaxRows = 5
    Broken <- AllTables
    Poisoned <- First
INVARIANTS
    WInv
    LossesAreCounted
    StoredIsAPrefix
PROPERTIES
    FailureIsIsolated
    StopReturns
    PostsAreSpaced
