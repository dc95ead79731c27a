----------------------------- MODULE MCRuntimes -----------------------------
(***************************************************************************)
(* The instances of Runtimes that TLC explores.  Three nodes, three ports  *)
(* and a cap of two: the cap is met before the nodes and the ports run     *)
(* out, and the VIP switches between two nodes that have a runtime.        *)
(***************************************************************************)
EXTENDS Runtimes
=============================================================================
