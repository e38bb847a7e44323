---------------------------- MODULE MCPartyStore ----------------------------
EXTENDS PartyStore, TLC

CONSTANTS c1, c2, t1, t2, t3, d1, d2

MCThreeTasks == {t1, t2, t3}
MCParty      == [t \in Task |-> IF t = t1 THEN c1 ELSE c2]
MCWriter     == [d \in Doc |-> IF d = d1 THEN {t1} ELSE {t2}]
=============================================================================
