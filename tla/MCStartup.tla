----------------------------- MODULE MCStartup ------------------------------
(***************************************************************************)
(* The instances of Startup that TLC explores.                             *)
(***************************************************************************)
EXTENDS Startup
=============================================================================
