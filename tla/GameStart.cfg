SPECIFICATION Spec
CONSTANTS
  MaxSessions = 2
  MaxFiles = 2
  MaxQueue = 1
INVARIANTS
  PausedShowsNoDialog
  DialogStaysOnlyAfterFailure
  GameNeedsDetectors
  FileLeadsToGame
PROPERTY LoadedDetectorStays
CHECK_DEADLOCK FALSE
