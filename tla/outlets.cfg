SPECIFICATION OutletsSpec
CONSTANTS
    Venue = "binance_futures"
    SnapshotLimit = 1
    MaxId = 3
    Prices <- MCPrices
    VenueBook <- MCHistory
    Shown = 1
    MaxRows = 3
INVARIANTS
    ViewIsOneMoment
    OnlyAnchorsAreMisplaced
PROPERTIES
    ReaderCatchesUp
