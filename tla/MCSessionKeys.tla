---------------------------- MODULE MCSessionKeys ----------------------------
(* SessionKeys with two keys of one actor; the second key's announcement is
   made later and lasts longer. *)
EXTENDS SessionKeys
CONSTANTS k1, k2, a1, r1, r2, r3
MCKey == {k1, k2}
MCActor == {a1}
MCRequest == {r1, r2, r3}
MCAnnoucement ==
  [k \in MCKey |-> IF k = k1 THEN [actor |-> a1, created |-> 0, expiry |-> 2]
                             ELSE [actor |-> a1, created |-> 1, expiry |-> 3]]
=============================================================================
