----------------------------- MODULE MCDrivers -----------------------------
(***************************************************************************)
(* An instance of Drivers: two kernel clients, one block and one past the  *)
(* end, ring indices that wrap after four requests, and a random device    *)
(* that can return the same bytes twice.                                   *)
(***************************************************************************)
EXTENDS Drivers
=============================================================================
