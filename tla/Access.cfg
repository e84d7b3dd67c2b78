SPECIFICATION AccessFairSpec
CONSTANTS
  a1 = a1
  g1 = g1
  o1 = o1
  o2 = o2
  r1 = r1
  Agent <- MCAgent
  Gateway <- MCGate
  Op <- MCTwoOps
  Request <- MCRequest
  gate = g1
  who = a1
  OneOperator = TRUE
  Drops = TRUE
  Errors = TRUE
INVARIANTS
  TypeOK
  NoBlockMissed
  LiveChangesArrive
  BlockStops
PROPERTIES
  BlockInForce
