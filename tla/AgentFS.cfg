SPECIFICATION FairSpec
CONSTANTS
  e1 = e1
  e2 = e2
  e3 = e3
  bad = bad
  explicitStop = explicitStop
  deferredStop = deferredStop
  Event <- MCEvents
  BadRow <- MCBad
  Stopper <- MCStoppers
  ChanCap = 1
  BatchCap = 2
  PauseOutlastsLog = FALSE
INVARIANTS
  TypeOK
  HandedOn
  DrainedWhenStopped
PROPERTIES
  QuietAfterStop
  EventuallySettled
  StopEnds
  ImplementsAuditTrail
