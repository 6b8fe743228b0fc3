SPECIFICATION Spec
CONSTANTS
    NStreams = 2
    Fraction = 1
    Step = 1
    TailSteps = 2
    CrossedOneIn = 2
    Faults = {"late", "db"}
    MaxTicks = 2
    MaxObserved = 2
    MaxRuns = 2
INVARIANTS
    WindowIsComplete
    CrossedStreamShipsNothing
