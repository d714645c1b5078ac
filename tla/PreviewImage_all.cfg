SPECIFICATION Spec
CONSTANTS
    Widths = {0, 1, 2, 3}
    Heights = {1, 2, 3, 4, 5, 6}
    PlaneCounts = {2, 3, 4}
    Naxes = {0, 1, 2, 3}
    Bitpixes = {8, 16, 32, 12}
    Patterns = {"RGGB", "BGRG", "GBRG", "GRGB", "CYGM"}
    Unreadable = Unreadable
    CardSize = 2
    CardsPerBlock = 4
    MaxLines = 9
    MaxSide = 5
    CoreCounts = {0, 1, 3}
    DefaultThreads = 2
    MinParallel = 6
    MaxSamples = 4
INVARIANTS
    TypeOK
    RowsShared
    FitsAsWritten
    PreviewShowsBlob
