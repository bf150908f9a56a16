SPECIFICATION Spec
CONSTANTS
    MaxOthers = 0
    Inputs <- AllInputs
    MaxQueue = 1
    Threads <- FewThreads
INVARIANTS
    TypeOK
    Registered
    OpenIsTimed
    PortFollows
    OneBlinkerPerLight
    LitLights
PROPERTIES
    ClosesOnTime
    StopReachesMotor
CHECK_DEADLOCK FALSE
