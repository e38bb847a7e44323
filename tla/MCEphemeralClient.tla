-------------------------- MODULE MCEphemeralClient --------------------------
(* EphemeralClient with two sockets, two keys and a short clock. *)
EXTENDS EphemeralClient
CONSTANTS c1, c2
MCConn == {c1, c2}
=============================================================================
