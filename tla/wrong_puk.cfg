SPECIFICATION Spec
CONSTANTS
    SystemNumbers <- AllBelts
    MaxPuks <- FewPuks
PROPERTIES
    OwnTimerOnly
