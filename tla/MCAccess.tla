------------------------------ MODULE MCAccess ------------------------------
EXTENDS Access
CONSTANTS a1, g1, o1, o2, r1
MCAgent   == {a1}
MCGate    == {g1}
MCTwoOps  == {o1, o2}
MCRequest == {r1}
=============================================================================
