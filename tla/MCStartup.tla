----------------------------- MODULE MCStartup -----------------------------
EXTENDS Startup
CONSTANTS a1, g1
MCAgent == {a1}
MCGate  == {g1}
=============================================================================
