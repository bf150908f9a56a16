SPECIFICATION Spec
CONSTANTS
    Traffic <- StopsAndPuks
    MaxPresses = 2
    MaxLine = 1
    MaxPuks = 4
    MaxFailures = 1
INVARIANTS
    TypeOK
    BeltsAgree
PROPERTIES
    DroppedBehindSwitch
    OneAtATime
CHECK_DEADLOCK FALSE
