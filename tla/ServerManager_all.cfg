\* Handlers nested three deep; the program ends when its window is closed.
SPECIFICATION FairSpec
CONSTANT MaxDepth = 3
INVARIANTS
    TypeOK
    FlagMatchesProcess
    WindowMatchesFlag
    RunningIsKnown
    GreenMeansRunning
PROPERTIES
    ServerStops
    ClosingEnds
CHECK_DEADLOCK FALSE
