SPECIFICATION Spec
CONSTANTS
    Items = {a, b}
    Values = {0, 1, 2}
    Off = 0
    On = 1
    Format <- Exact
    None = None
    MaxRequests = 1
PROPERTIES
    OnlyEditsApplied
CHECK_DEADLOCK FALSE
