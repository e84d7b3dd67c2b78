SPECIFICATION FairSpec
CONSTANTS
  r1 = r1
  r2 = r2
  c1 = c1
  c2 = c2
  c3 = c3
  Request <- MCTwoRequests
  Call <- MCThreeCalls
  RedisFaults = TRUE
INVARIANTS
  TypeOK
  ExecutedOnceApproved
  RejectedByOperator
PROPERTIES
  ImplementsHeldRequest
  EveryRequestAnswered
