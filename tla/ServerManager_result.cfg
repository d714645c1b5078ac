\* What stopServerGracefully() returns: a violation is expected.
SPECIFICATION Spec
CONSTANT MaxDepth = 2
INVARIANT FalseMeansRunning
CHECK_DEADLOCK FALSE
