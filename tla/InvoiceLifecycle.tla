-------------------------- MODULE InvoiceLifecycle --------------------------
(***************************************************************************)
(* What a merchant may rely on, without the chain: the lifecycle of an     *)
(* invoice and the webhooks that tell of it.  An invoice is created        *)
(* pending; it expires only out of pending; once a payment has been seen   *)
(* it moves among the open statuses until it is confirmed; confirmed and   *)
(* expired are final; and every change of status, and nothing else, is     *)
(* announced by exactly one event.                                         *)
(*                                                                         *)
(* The monitor's specification (Monitor.tla) implements this one, and the  *)
(* outbox's reads the events it promises.                                  *)
(***************************************************************************)
EXTENDS Sequences

CONSTANT Invoices

VARIABLES
  status,  \* Invoices -> "none" before the invoice is created, its status after
  events   \* Invoices -> the statuses announced so far, oldest first

vars == <<status, events>>

\* The statuses in which an invoice waits for more payment or more blocks.
InFlight == {"seen", "confirming", "underpaid", "reorged"}

Init ==
  /\ status = [i \in Invoices |-> "none"]
  /\ events = [i \in Invoices |-> << >>]

\* Created pending, and nobody is told: the caller of POST /invoices knows.
Create(i) ==
  /\ status[i] = "none"
  /\ status' = [status EXCEPT ![i] = "pending"]
  /\ UNCHANGED events

\* The statuses an invoice may have after a poll that finds it in status s.
Successors(s) ==
  IF s = "pending" THEN {"seen", "confirming", "underpaid", "confirmed", "expired"}
  ELSE IF s \in InFlight THEN InFlight \cup {"confirmed"}
  ELSE {}

\* The invoices that change, all of them together.
Move(changes) ==
  /\ \A i \in DOMAIN changes : changes[i] \in Successors(status[i]) \ {status[i]}
  /\ status' = [i \in Invoices |-> IF i \in DOMAIN changes THEN changes[i] ELSE status[i]]

\* One poll settles every invoice it has news of, and announces each.
Poll(changes) ==
  /\ Move(changes)
  /\ events' = [i \in Invoices |-> IF i \in DOMAIN changes
                                   THEN Append(events[i], changes[i])
                                   ELSE events[i]]

Next ==
  \/ \E i \in Invoices : Create(i)
  \/ \E S \in SUBSET Invoices :
       \E changes \in [S -> InFlight \cup {"confirmed", "expired"}] : Poll(changes)

Spec == Init /\ [][Next]_vars
=============================================================================
