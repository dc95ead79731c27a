------------------------------ MODULE MCBatch -------------------------------
(***************************************************************************)
(* The instances of Batch that TLC explores.                               *)
(***************************************************************************)
EXTENDS Batch
=============================================================================
