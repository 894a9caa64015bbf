SPECIFICATION Spec
CONSTANTS
  MaxSessions = 2
  MaxFiles = 1
  MaxQueue = 1
PROPERTY GameHas68Landmarks
CHECK_DEADLOCK FALSE
