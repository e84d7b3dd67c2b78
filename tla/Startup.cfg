SPECIFICATION FairSpec
CONSTANTS
  a1 = a1
  g1 = g1
  Agent <- MCAgent
  Gateway <- MCGate
  Faults = TRUE
INVARIANTS
  TypeOK
  ServingKnows
  DiesOnlyOfData
PROPERTIES
  ComesUp
