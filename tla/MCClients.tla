----------------------------- MODULE MCClients ------------------------------
(***************************************************************************)
(* The instances of Clients that TLC explores.                             *)
(***************************************************************************)
EXTENDS Clients, TLC

\* Clients are alike, and so are nodes.
Alike == Permutations(Callers) \cup Permutations(Nodes)
=============================================================================
