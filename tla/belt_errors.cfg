SPECIFICATION Spec
CONSTANTS
    Inputs <- ErrorInputs
    MaxQueue = 2
INVARIANTS
    TimerFollowsMotor
    ErrorStopsBelt
    HistoryDefined
    LampShowsError
PROPERTIES
    ErrorNotForgotten
