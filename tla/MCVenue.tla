------------------------------ MODULE MCVenue ------------------------------
(* Two projects, three versions of each, one of them forged, three uploads.  All
   want one domain but a version of p1; the routes of p2 are the venue's. *)
EXTENDS Venue

CONSTANTS p1, p2, u1, u2, u3, h1, h2, run, d, e
MCProject == {p1, p2}
MCVersion == 1..3
MCDomain == [u \in MCProject \X MCVersion |-> IF u = <<p1, 2>> THEN e ELSE d]
MCSystem == {p2} \X MCVersion
MCGenuine == (MCProject \X MCVersion) \ {<<p2, 3>>}
MCCall == {u1, u2, u3}
MCHandler == {h1, h2}
=============================================================================
