--------------------------- MODULE MCProxyHealth ----------------------------
(***************************************************************************)
(* The instance of ProxyHealth that TLC explores.  The caps on evidence    *)
(* (MaxAlpha, MaxBeta, in half points beside a prior of 2 each) are below  *)
(* the code's 46 and 126, and reach every threshold of the code: 10 points *)
(* of alpha with no beta are a score of 0.86, above 0.70, and 58 points of *)
(* beta outweigh the 8 that the relay and HTTP successes of one run add    *)
(* (10 / 70 is below 0.15), so that a run with successes in it can still   *)
(* end in a demotion.                                                      *)
(***************************************************************************)
EXTENDS ProxyHealth
=============================================================================
