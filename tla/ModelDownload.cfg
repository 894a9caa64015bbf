SPECIFICATION FairSpec
CONSTANT MaxSessions = 2
INVARIANTS
  TypeOK
  NoForgottenDownload
  ErrorMeansRemoved
  FileWasDownloaded
  FileArrivesAtMostTwice
PROPERTIES
  SuccessIsReported
  StreamsKeepContract
CHECK_DEADLOCK FALSE
