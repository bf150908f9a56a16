SPECIFICATION Spec
CONSTANTS
    Fast = 2
    Slow = 1
    Durations <- FewDurations
    MaxTimers = 2
PROPERTIES
    RunsOut
