SPECIFICATION Spec
CONSTANTS
  r1 = r1
  Request <- MCOne
  Effects <- MCEffects
  Vias <- MCBoth
INVARIANTS
  TypeOK
  LiveIsCovered
  SandboxHolds
  KillSwitchHolds
