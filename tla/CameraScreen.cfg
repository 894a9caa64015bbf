SPECIFICATION FairSpec
CONSTANTS
  MaxHandlers = 2
  MaxResumes = 2
INVARIANTS
  OneHandlerThread
  PredictionKeepsItsClassifier
  PausedClosesCameraUnlessLateOrTwice
PROPERTY PreviewStarts
CHECK_DEADLOCK FALSE
