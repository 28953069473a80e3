----------------------------- MODULE MCGateway ------------------------------
(***************************************************************************)
(* An instance of Gateway for TLC.                                         *)
(***************************************************************************)
EXTENDS Gateway

CONSTANTS i1, i2
=============================================================================
