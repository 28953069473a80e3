----------------------------- MODULE MCProcess ------------------------------
(***************************************************************************)
(* An instance of Process for TLC.                                         *)
(***************************************************************************)
EXTENDS Process

CONSTANTS p1, p2
=============================================================================
