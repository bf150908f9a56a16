SPECIFICATION Spec
CONSTANTS
    Traffic <- StopsAndPuks
    MaxPresses = 2
    MaxLine = 1
    MaxPuks = 4
    MaxFailures = 0
PROPERTIES
    AllRestart
    Served
CHECK_DEADLOCK FALSE
