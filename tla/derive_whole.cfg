SPECIFICATION Spec
CONSTANTS
    NStreams = 1
    Fraction = 2
    Step = 2
    TailSteps = 1
    CrossedOneIn = 5
    Faults = {"crash", "crossed"}
    MaxTicks = 8
    MaxObserved = 2
    MaxRuns = 2
INVARIANTS
    TypeOK
    LeakIsSubSecond
    TailIsFull
    StagingIsThisRun
    PublishedRunsAreServed
    ServedIsSane
