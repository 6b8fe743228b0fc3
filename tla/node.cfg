SPECIFICATION Spec
CONSTANTS
    TailInterval = 2
    FullInterval = 3
    TickSeconds = 1
    StopTimeout = 1
    MaxJob = 1
    Streams = {s1, s2}
    Step = 2
    MaxGridLag = 6
    MaxMetricLag = 8
    MaxCheck = 1
    MaxTroubles = 1
    CloseTimeout = 1
    MaxStatement = 1
    WriterTimeout = 1
    FailurePause = 1
    Grace = 12
INVARIANTS
    NInv
    StopKeepsItsDeadlines
PROPERTIES
    OkMeansFresh
    NoFalseAlarm
SYMMETRY
    Symmetry
