SPECIFICATION FairSpec
CONSTANTS
    Typed = {}
    Announced = {"d"}
    Ports = {1}
    Absent = Absent
    Handles = {1}
    MaxEvents = 2
PROPERTIES
    ConnectedShown
