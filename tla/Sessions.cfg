SPECIFICATION SessionsSpec
CONSTANTS
  r1 = r1
  Request <- MCOne
  Effects <- MCEffects
  Vias <- MCBoth
  Lifetime = 2
INVARIANTS
  RevocationStops
