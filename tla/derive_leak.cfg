SPECIFICATION Spec
CONSTANTS
    NStreams = 1
    Fraction = 2
    Step = 1
    TailSteps = 1
    CrossedOneIn = 5
    Faults = {}
    MaxTicks = 5
    MaxObserved = 2
    MaxRuns = 2
INVARIANTS
    NoLeak
