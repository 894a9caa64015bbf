SPECIFICATION Spec
CONSTANT MaxSessions = 1
INVARIANT CompletedChainsSawTheFile
CHECK_DEADLOCK FALSE
