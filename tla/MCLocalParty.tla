---------------------------- MODULE MCLocalParty ----------------------------
EXTENDS LocalParty, TLC

CONSTANTS t1, t2, d1, d2

MCSymmetry == Permutations({t1, t2}) \cup Permutations({d1, d2})
=============================================================================
