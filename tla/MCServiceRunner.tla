--------------------------- MODULE MCServiceRunner ---------------------------
(* ServiceRunner with two endpoints that share their pre middleware, one of
   which has a post middleware too, and two calls of start. *)
EXTENDS ServiceRunner
CONSTANTS s1, s2, r1, r2, e1, e2, pre, post, topic, task
MCCall == {s1, s2}
MCRequest == {r1, r2}
MCEndpoints == <<e1, e2>>
MCPre == [e \in {e1, e2} |-> <<pre>>]
MCPost == [e \in {e1, e2} |-> IF e = e2 THEN <<post>> ELSE <<>>]
=============================================================================
