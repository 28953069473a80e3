------------------------------ MODULE MCLookup ------------------------------
(***************************************************************************)
(* An instance of Lookup for TLC.                                          *)
(***************************************************************************)
EXTENDS Lookup, TLC

CONSTANTS i1, i2, t1, t2

\* t1 pays i1 and t2 pays i2, with the same coin.
RivalPayee == (t1 :> i1) @@ (t2 :> i2)
SharedCoin == (t1 :> 1) @@ (t2 :> 1)
OneEach == [t \in Tx |-> 1]
DueOneOrTwo == (i1 :> 2) @@ (i2 :> 1)
RequireTwo == [i \in Invoices |-> 2]
=============================================================================
