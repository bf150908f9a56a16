SPECIFICATION Spec
CONSTANTS
    SystemNumbers <- AllBelts
    MaxPuks <- FewPuks
INVARIANTS
    TypeOK
    NoOvertaking
    Watched
    IdleBeltWaits
PROPERTIES
    LostPukIsNoticed
