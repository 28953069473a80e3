------------------------------ MODULE Delivery ------------------------------
(***************************************************************************)
(* What the outbox promises, without its passes, backoffs and counters:    *)
(* events are queued, the merchant's endpoint takes them, once or more     *)
(* often or never, and each is settled once and for all: delivered, and    *)
(* then the endpoint did take it, or given up.                             *)
(*                                                                         *)
(* The webhook sender (Outbox.tla) implements this specification.          *)
(***************************************************************************)
EXTENDS Integers, Sequences

VARIABLES
  outcome,  \* of each event, in the order of their ids
  taken     \* the ids the endpoint has taken

vars == <<outcome, taken>>

Init ==
  /\ outcome = << >>
  /\ taken = {}

\* The changes of status of one poll are queued together.
Queue ==
  /\ outcome' \in Seq({"queued", "delivered", "given up"})
  /\ Len(outcome) < Len(outcome')
  /\ \A id \in DOMAIN outcome' :
       outcome'[id] = IF id \in DOMAIN outcome THEN outcome[id] ELSE "queued"
  /\ UNCHANGED taken

\* An event arrives, in time or when nobody waits for its answer any more.
Take(id) ==
  /\ taken' = taken \cup {id}
  /\ UNCHANGED outcome

Settle(id) ==
  /\ outcome[id] = "queued"
  /\ \/ id \in taken /\ outcome' = [outcome EXCEPT ![id] = "delivered"]
     \/ outcome' = [outcome EXCEPT ![id] = "given up"]
  /\ UNCHANGED taken

Next == Queue \/ \E id \in DOMAIN outcome : Take(id) \/ Settle(id)

Spec == Init /\ [][Next]_vars
=============================================================================
