------------------------- MODULE MCUpstreamRefresh --------------------------
(***************************************************************************)
(* The instances of UpstreamRefresh that TLC explores.  With two sources,  *)
(* one can fail or answer 304 while the other sends a body; with two       *)
(* proxies, a body can lose one and keep the other.                        *)
(***************************************************************************)
EXTENDS UpstreamRefresh

CONSTANTS p1, p2

\* A subscription that is emptied, that loses one of two, and that is full.
MCBodies == {{}, {p1}, {p1, p2}}
=============================================================================
