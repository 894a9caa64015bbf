SPECIFICATION Spec
CONSTANTS
  MaxSessions = 2
  MaxGames = 3
INVARIANT PausedClosesCamera
CHECK_DEADLOCK FALSE
