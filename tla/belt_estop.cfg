SPECIFICATION Spec
CONSTANTS
    Inputs <- EstopInputs
    MaxQueue = 2
INVARIANTS
    TypeOK
    EstopActiveBacked
PROPERTIES
    InterlockSpec
    PressStopsBelt
    EstopResolved
