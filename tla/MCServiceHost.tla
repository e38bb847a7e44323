---------------------------- MODULE MCServiceHost ----------------------------
(* Two websocket peers, two calls of stop, up to two restart timers. *)
EXTENDS ServiceHost

CONSTANTS c1, c2, s1, s2
MCConn == {c1, c2}
MCStopCall == {s1, s2}
=============================================================================
