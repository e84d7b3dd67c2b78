SPECIFICATION FairShutdownSpec
CONSTANTS
  e1 = e1
  e2 = e2
  e3 = e3
  Event <- MCThree
  Grpc <- MCGrpc
  BadRow <- MCNone
  Stopper <- MCStopper
  ChanCap = 1
  BatchCap = 2
  PauseOutlastsLog = FALSE
INVARIANTS
  ShutdownTypeOK
  NothingLeftAtExit
  RefusedOnlyIfOverdue
  PanicOnlyIfOverdue
PROPERTIES
  ShutdownEnds
