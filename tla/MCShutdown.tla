----------------------------- MODULE MCShutdown -----------------------------
EXTENDS Shutdown
CONSTANTS e1, e2, e3
MCTwo     == {e1, e2}
MCThree   == {e1, e2, e3}
MCGrpc    == {e1}
MCNone    == {}
MCStopper == {"explicit", "deferred"}
=============================================================================
