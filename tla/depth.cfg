SPECIFICATION Spec
CONSTANTS
    Prices <- ThreePrices
    MaxQty = 2
    MaxLevels = 2
    Bands <- TwoBands
    SnapshotLevels = 1
INVARIANTS
    DepthIsTheBand
    TruncationOnlyUnderstates
PROPERTIES
    OfiIsTheMoveOfTheBest
