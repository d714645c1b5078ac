SPECIFICATION Spec
CONSTANTS
    Items = {a, b}
    Values = {0, 1, 2}
    Off = 0
    On = 1
    Format <- Rounded
    None = None
    MaxRequests = 1
INVARIANTS
    TypeOK
    SwitchesConsistent
    CleanTextsCurrent
PROPERTIES
    EditsSurvive
CHECK_DEADLOCK FALSE
