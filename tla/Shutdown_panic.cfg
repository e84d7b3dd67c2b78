SPECIFICATION ShutdownSpec
CONSTANTS
  e1 = e1
  e2 = e2
  e3 = e3
  Event <- MCTwo
  Grpc <- MCGrpc
  BadRow <- MCNone
  Stopper <- MCStopper
  ChanCap = 1
  BatchCap = 2
  PauseOutlastsLog = TRUE
INVARIANTS
  ExitsGracefully
