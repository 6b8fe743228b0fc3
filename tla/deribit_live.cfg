SPECIFICATION FairSpec
CONSTANTS
    Venue = "deribit"
    SnapshotLimit = 1
    KeptLevels = 1
    MaxId = 3
    Prices <- MCPrices
    VenueBook <- MCCalm
    Faults = {"loss", "disconnect", "resubscribe", "connect", "db"}
    MaxBoots = 1
    MaxReconnects = 1
    MaxPeriodic = 0
    MaxTrades = 1
INVARIANTS
    BookIsTheVenues
    SessionsDoNotOverlap
PROPERTIES
    StopEnds
    SessionIsReopened
