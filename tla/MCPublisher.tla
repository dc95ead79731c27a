---------------------------- MODULE MCPublisher -----------------------------
(***************************************************************************)
(* The instance of Publisher that TLC explores.  Two renderings, so that   *)
(* the feed can change and change back; three events outside the ticks, so *)
(* that a rendering can meet a commit of others and a crash.               *)
(***************************************************************************)
EXTENDS Publisher
=============================================================================
