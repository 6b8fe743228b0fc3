SPECIFICATION Spec
CONSTANTS
    Venue = "binance_spot"
    SnapshotLimit = 1
    KeptLevels = 1
    MaxId = 3
    Prices <- MCPrices
    VenueBook <- MCCalm
    Faults = {"loss", "disconnect", "connect", "crash"}
    MaxBoots = 2
    MaxReconnects = 1
    MaxPeriodic = 0
    MaxTrades = 0
INVARIANTS
    RecordedInOrder
    OpenRowIsTheSession
PROPERTIES
    ClosedRowsAreFinal
