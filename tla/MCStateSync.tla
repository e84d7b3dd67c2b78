----------------------------- MODULE MCStateSync -----------------------------
EXTENDS StateSync, TLC
CONSTANTS a1, a2, g1, o1, o2
MCAgents == {a1, a2}
MCAgent  == {a1}
MCGate   == {g1}
MCTwoOps == {o1, o2}
=============================================================================
