SPECIFICATION Spec
CONSTANTS
    Venue = "binance_spot"
    SnapshotLimit = 1
    KeptLevels = 1
    MaxId = 3
    Prices <- MCPrices
    VenueBook <- MCCalm
    Faults = {}
    MaxBoots = 1
    MaxReconnects = 0
    MaxPeriodic = 0
    MaxTrades = 0
INVARIANTS
    ResyncMeansLoss
