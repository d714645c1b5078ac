SPECIFICATION Spec
CONSTANTS
    Vectors <- MCVectors
    Main = "Main"
    Connection = "CONNECTION"
    Contents = {"off", "on"}
    Connected = {"on"}
    Deletions = {"property", "group", "device"}
    NoName = ""
    NameOrder <- MCNameOrder
    LabelOrder <- MCLabelOrder
    Vacant = Vacant
INVARIANT TypeOK
INVARIANT FormsCurrent
INVARIANT SelectionShown
INVARIANT SelectionInTree
INVARIANT DeviceFollowsConnection
INVARIANT NoEmptyNodes
INVARIANT TreeInOrder
PROPERTY SingleDeletionsTidy
PROPERTY OtherDevicesKeepWindow
CHECK_DEADLOCK FALSE
