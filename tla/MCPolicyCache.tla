---------------------------- MODULE MCPolicyCache ----------------------------
EXTENDS PolicyCache
CONSTANTS a1, c1, g1, g2, i1, i2, o1, o2, o3
MCAgent      == {a1}
MCCapability == {c1}
MCEffect     == {"ALLOW", "DENY"}
MCIds        == {i1, i2}
MCGate       == {g1}
MCGates      == {g1, g2}
MCThreeOps   == {o1, o2, o3}
=============================================================================
