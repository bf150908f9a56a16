SPECIFICATION Spec
CONSTANTS
    Fast = 2
    Slow = 1
    Durations <- FewDurations
    MaxTimers = 4
INVARIANTS
    TypeOK
    OneFate
    NeverEarly
PROPERTIES
    RunsOutUnlessLeaked
