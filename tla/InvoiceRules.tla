---------------------------- MODULE InvoiceRules ----------------------------
(***************************************************************************)
(* The payment state machine of internal/payments/state.go: what an        *)
(* invoice's status should be, given the payments observed for it.  It     *)
(* holds no state; the monitor calls Decide once per open invoice, inside  *)
(* the transaction that commits a poll.                                    *)
(*                                                                         *)
(* The observations of an invoice are a function from its outputs to       *)
(* records [amount, conf, removed]: two payments of the same amount are    *)
(* two observations, so a set of records would not do.  "late" says that   *)
(* the invoice's expiry time is not in the future any more, which is all   *)
(* Decide asks of the clock.                                               *)
(*                                                                         *)
(* A definition marked "Fault" is a way the next one could have been       *)
(* written wrong: a run with the fault in its place must fail.             *)
(***************************************************************************)
EXTENDS Integers, FiniteSetsExt

Statuses == {"pending", "seen", "confirming", "confirmed", "underpaid",
             "expired", "reorged"}

\* Fault: funds lost to a reorg are given up for good.
TerminalWithReorged(status) == status \in {"confirmed", "expired", "reorged"}

\* The statuses that stop being recomputed.
Terminal(status) == status \in {"confirmed", "expired"}

\* The observations that count: core has not taken them back.
Live(obs) == {o \in DOMAIN obs : ~obs[o].removed}

Paid(obs) == MapThenSumSet(LAMBDA o : obs[o].amount, Live(obs))

\* Fault: the strongest payment governs.
StrongestConfirmations(obs) ==
  IF Live(obs) = {} THEN 0 ELSE Max({obs[o].conf : o \in Live(obs)})

\* The weakest payment governs: an invoice is as settled as the least settled
\* of its payments.
MinConfirmations(obs) ==
  IF Live(obs) = {} THEN 0 ELSE Min({obs[o].conf : o \in Live(obs)})

\* Fault: money taken back once is forgotten at the next poll.
ForgetfulUnpaid(inv, obs, late) ==
  IF (\E o \in DOMAIN obs : obs[o].removed)
       /\ inv.status \notin {"pending", "expired", "reorged"}
    THEN "reorged"
  ELSE IF late THEN "expired" ELSE "pending"

\* Nothing counts.  Money that was counted before has been taken back; money
\* that never was leaves the expiry clock running.
DecideUnpaid(inv, obs, late) ==
  IF (\E o \in DOMAIN obs : obs[o].removed) /\ inv.status \notin {"pending", "expired"}
    THEN "reorged"
  ELSE IF late THEN "expired" ELSE "pending"

\* Something counts: how deep its weakest payment is comes before how much it is.
DecidePaid(inv, obs) ==
  IF MinConfirmations(obs) <= 0 THEN "seen"
  ELSE IF MinConfirmations(obs) < inv.required THEN "confirming"
  ELSE IF Paid(obs) < inv.amount THEN "underpaid"
  ELSE "confirmed"

\* Fault: the clock is looked at before the payments.
ExpiryFirst(inv, obs, late) ==
  IF Terminal(inv.status) THEN inv.status
  ELSE IF late THEN "expired"
  ELSE IF Live(obs) = {} THEN DecideUnpaid(inv, obs, late)
  ELSE DecidePaid(inv, obs)

Decide(inv, obs, late) ==
  IF Terminal(inv.status) THEN inv.status
  ELSE IF Live(obs) = {} THEN DecideUnpaid(inv, obs, late)
  ELSE DecidePaid(inv, obs)
=============================================================================
