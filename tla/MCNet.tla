------------------------------- MODULE MCNet -------------------------------
(***************************************************************************)
(* An instance of Net: two servers compete for the client.                 *)
(***************************************************************************)
EXTENDS Net

CONSTANTS serverA, serverB
=============================================================================
