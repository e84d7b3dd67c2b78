----------------------------- MODULE MCApprovals -----------------------------
EXTENDS Approvals
CONSTANTS r1, r2, c1, c2, c3
MCOneRequest  == {r1}
MCTwoRequests == {r1, r2}
MCTwoCalls    == {c1, c2}
MCThreeCalls  == {c1, c2, c3}
=============================================================================
