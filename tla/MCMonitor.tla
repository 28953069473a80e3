----------------------------- MODULE MCMonitor ------------------------------
(***************************************************************************)
(* Instances of Monitor for TLC.                                           *)
(***************************************************************************)
EXTENDS Monitor, TLC

CONSTANTS i1, t1, t2, t3

\* t1 and t2 pay i1, and a stranger's t3 spends t2's coin.
ExtraPayee == (t1 :> i1) @@ (t2 :> i1) @@ (t3 :> Outside)
ExtraCoin == (t1 :> 1) @@ (t2 :> 2) @@ (t3 :> 2)

\* t1 pays i1, and a stranger's t2 spends its coin.
StrangerPayee == (t1 :> i1) @@ (t2 :> Outside)
SharedCoin == (t1 :> 1) @@ (t2 :> 1)

OnePayee == t1 :> i1
OneCoin == t1 :> 1

OneEach == [t \in Tx |-> 1]
DueOne == [i \in Invoices |-> 1]
RequireOne == [i \in Invoices |-> 1]
RequireTwo == [i \in Invoices |-> 2]
RequireThree == [i \in Invoices |-> 3]
=============================================================================
