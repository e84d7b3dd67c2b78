SPECIFICATION FairSpec
CONSTANTS
  a1 = a1
  c1 = c1
  g1 = g1
  g2 = g2
  i1 = i1
  i2 = i2
  o1 = o1
  o2 = o2
  o3 = o3
  Agent <- MCAgent
  Capability <- MCCapability
  Effect <- MCEffect
  Id <- MCIds
  Gateway <- MCGate
  Op <- MCThreeOps
  Errors = TRUE
INVARIANTS
  TypeOK
  SignalRepairs
PROPERTIES
  SignalTakesEffect
