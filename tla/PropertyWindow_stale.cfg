SPECIFICATION Spec
CONSTANTS
    Vectors <- MCVectors
    Main = "Main"
    Connection = "CONNECTION"
    Contents = {"off", "on"}
    Connected = {"on"}
    Deletions = {"property"}
    NoName = ""
    NameOrder <- MCNameOrder
    LabelOrder <- MCLabelOrder
    Vacant = Vacant
INVARIANT GroupWindowUpdated
