---------------------------- MODULE MCAddresses -----------------------------
(***************************************************************************)
(* Instances of Addresses for TLC.                                         *)
(***************************************************************************)
EXTENDS Addresses

CONSTANTS d1, d2, r1, r2
=============================================================================
