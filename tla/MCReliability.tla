---------------------------- MODULE MCReliability ----------------------------
EXTENDS Reliability
CONSTANTS c1, c2, c3
MCTwo   == {c1, c2}
MCThree == {c1, c2, c3}
MCAll   == {"up", "erring", "hanging"}
=============================================================================
