------------------------------ MODULE MCSessions ------------------------------
EXTENDS Sessions
CONSTANTS r1
MCOne     == {r1}
MCEffects == {"ALLOW", "DENY"}
MCBoth    == {"http", "grpc"}
=============================================================================
