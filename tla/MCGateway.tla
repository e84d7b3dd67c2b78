------------------------------ MODULE MCGateway ------------------------------
EXTENDS Gateway
CONSTANTS r1
MCOne     == {r1}
MCEffects == {"ALLOW", "DENY", "SANDBOX", "QUARANTINE", ""}
MCBoth    == {"http", "grpc"}
=============================================================================
