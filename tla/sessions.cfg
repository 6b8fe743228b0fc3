SPECIFICATION Spec
CONSTANTS
    ReconnectMin = 1
    ReconnectMax = 4
    MaxTime = 6
    MaxRows = 2
    Faults = {"connect", "db", "crash"}
INVARIANTS
    FinishedRowsAreTrue
    RowsDoNotOverlap
    CoverageIsNotInflated
PROPERTIES
    RefusalsSpaceAttempts
