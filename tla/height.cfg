SPECIFICATION Spec
CONSTANTS
    CUT_OFF_FRONT = 0
    EXTRA_CUT_OFF = 0
    MINIMAL_WIDTH = 2
    NarrowDigit = 1
    WideDigit = 2
    INT_BITS = 2
    Puks <- SomePuks
    Others <- NoPuks
    Grounds <- SomeGrounds
    Garbled <- AnyType
    MAX_LENGTH = 8
    MIN_LENGTH = 2
    MIN_ARRAY_LENGTH = 4
    MinError = 2
    MaxGround = 0
    MaxStops = 1
    MaxQueue = 2
INVARIANTS
    TypeOK
    PatternOfRuns
    DigitsOfRuns
    Reports
    StandingSample
    SlowWhileMeasured
PROPERTIES
    SlowEnds
