SPECIFICATION Spec
CONSTANTS
    Venue = "binance_futures"
    SnapshotLimit = 1
    KeptLevels = 1
    MaxId = 4
    Prices <- MCPrices
    VenueBook <- MCCrossed
    Faults = {"loss", "fetch"}
    MaxBoots = 1
    MaxReconnects = 0
    MaxPeriodic = 1
    MaxTrades = 0
INVARIANTS
    IInv
    RecordIsTheVenues
    StreamIsRecorded
    ResyncUnderWay
PROPERTIES
    LiveSpec
