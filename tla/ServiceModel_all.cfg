SPECIFICATION FairSpec
CONSTANTS
    Typed = {"m"}
    Announced = {"d"}
    Ports = {1}
    Absent = Absent
    Handles = {1}
    MaxEvents = 3
INVARIANTS
    TypeOK
    ManualSaved
    ItemsCurrent
    ManualListed
    NoLostConnection
PROPERTIES
    AutoConnectByUser
    ManualShown
