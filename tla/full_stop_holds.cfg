SPECIFICATION Spec
CONSTANTS
    Inputs <- OwnInputs
    MaxQueue = 2
INVARIANTS
    FullStopHoldsBelt
