SPECIFICATION Spec
CONSTANTS
    Traffic <- Stops
    MaxPresses = 2
    MaxLine = 1
    MaxPuks = 0
    MaxFailures = 0
INVARIANTS
    AllBeltsStand
CHECK_DEADLOCK FALSE
