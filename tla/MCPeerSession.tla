---------------------------- MODULE MCPeerSession ----------------------------
EXTENDS PeerSession

CONSTANTS c1, k1, k2

MCTarget == [k \in {k1, k2} |-> c1]
=============================================================================
