SPECIFICATION FairSpec
CONSTANTS
  c1 = c1
  c2 = c2
  c3 = c3
  Call <- MCTwo
  MaxRequests = 2
  TripAfter = 2
  Attempts = 2
  Interval = 1
  CallTimeout = 2
  OpenFor = 2
  Modes <- MCAll
  Cancels = TRUE
INVARIANTS
  TypeOK
  OpensOnQuickFailures
  ProbeLimit
PROPERTIES
  
  CallsEnd
