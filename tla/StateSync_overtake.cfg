SPECIFICATION Spec
CONSTANTS
  a1 = a1
  a2 = a2
  g1 = g1
  o1 = o1
  o2 = o2
  Agent <- MCAgent
  Gateway <- MCGate
  Op <- MCTwoOps
  OneOperator = FALSE
  Drops = FALSE
  Errors = FALSE
INVARIANTS
  SignalsBlockEverywhere
