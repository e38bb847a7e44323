--------------------------- MODULE MCQueryBackend ---------------------------
EXTENDS QueryBackend, TLC

CONSTANTS c1, c2, c3, s1

MCCall3 == {c1, c2, c3}
MCOneSpec == {s1}

AllFaults     == {"error", "invalid", "missing", "throw"}
=============================================================================
