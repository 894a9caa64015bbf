SPECIFICATION FairSpec
CONSTANTS
  MaxSessions = 2
  MaxGames = 3
INVARIANTS
  RunningCameraIsTheViews
  PausedClosesCameraUnlessRaced
PROPERTY RequestedCameraStarts
CHECK_DEADLOCK FALSE
