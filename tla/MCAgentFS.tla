------------------------------ MODULE MCAgentFS ------------------------------
EXTENDS AgentFS
CONSTANTS e1, e2, e3, bad, explicitStop, deferredStop
MCEvents   == {e1, e2, e3, bad}
MCBad      == {bad}
MCStoppers == {explicitStop, deferredStop}
=============================================================================
