------------------------------- MODULE Lookup -------------------------------
(***************************************************************************)
(* GET /invoices/{id} beside the monitor: the handler reads the invoice    *)
(* and then its observations, two statements between which a poll may      *)
(* commit, and answers with what it has of both.                           *)
(*                                                                         *)
(* A definition marked "Fault" is a way the next one could have been       *)
(* written wrong: a run with the fault in its place must fail.             *)
(***************************************************************************)
EXTENDS Monitor

CONSTANT NoLookup   \* no request is being answered

VARIABLE lookup     \* the request: its invoice, what is read of it, whether nothing committed since

lookupVars == <<vars, lookup>>

\* Fault: the figures count what has been taken back, too.
RowOfEverything(i) ==
  LET rows == Restrict(obs, DOMAIN obs \cap PaymentsTo(i))
      all  == [t \in DOMAIN rows |-> [rows[t] EXCEPT !.removed = FALSE]]
  IN  [status |-> status[i], paid |-> Paid(all), conf |-> MinConfirmations(all)]

\* What the database says of an invoice: its status, and the figures of its observations.
RowOf(i) ==
  LET rows == Restrict(obs, DOMAIN obs \cap PaymentsTo(i))
  IN  [status |-> status[i], paid |-> Paid(rows), conf |-> MinConfirmations(rows)]

\* Fault: the observations are read before the invoice.
FiguresFirst == {"paid", "conf"}

\* What the first statement reads.
FirstRead == {"status"}

LookupInit == Init /\ lookup = NoLookup

\* Store.Invoice.  An id that no invoice has is answered at once, with 404.
ReadInvoice(i) ==
  /\ lookup = NoLookup /\ i \in Created
  /\ lookup' = [invoice |-> i, row |-> Restrict(RowOf(i), FirstRead), alone |-> TRUE]
  /\ UNCHANGED vars

Answered == lookup # NoLookup /\ DOMAIN lookup.row = {"status", "paid", "conf"}

\* Store.Observations, and the answer.
ReadObservations ==
  LET row == RowOf(lookup.invoice)
  IN  /\ lookup # NoLookup /\ ~Answered
      /\ lookup' = [lookup EXCEPT !.row =
           [f \in DOMAIN row |-> IF f \in FirstRead THEN @[f] ELSE row[f]]]
      /\ UNCHANGED vars

\* The answer has gone out, or a statement failed.
Close ==
  /\ lookup # NoLookup
  /\ lookup' = NoLookup
  /\ UNCHANGED vars

\* Meanwhile everything else goes on.  (An answer that is out does not change any more:
\* it is looked at, and nothing happens before it is closed.)
Meanwhile ==
  /\ ~Answered
  /\ Next
  /\ lookup' = IF lookup # NoLookup /\ storeVars' # storeVars
                 THEN [lookup EXCEPT !.alone = FALSE] ELSE lookup

LookupNext ==
  \/ \E i \in Invoices : ReadInvoice(i)
  \/ ReadObservations \/ Close \/ Meanwhile

LookupSpec == LookupInit /\ [][LookupNext]_lookupVars

-----------------------------------------------------------------------------
(* Properties *)

\* The figures that go with a status that is still open (state.go:14-33).
Explains(i, row) ==
  /\ row.status \in {"pending", "reorged"} => row.paid = 0 /\ row.conf = 0
  /\ row.status = "seen" => row.paid > 0 /\ row.conf = 0
  /\ row.status = "confirming" => row.conf \in 1..(Required[i] - 1)
  /\ row.status = "underpaid" => row.conf >= Required[i] /\ row.paid < Due[i]

\* An answer adds up if no transaction committed while it was read: its status follows
\* from its paid_sat and confirmations, after every reorg and failed poll.
FiguresExplainStatus == Answered /\ lookup.alone => Explains(lookup.invoice, lookup.row)

\* A merchant who reads "confirmed" reads all of the amount next to it, also when a poll
\* committed between the two reads, as long as no block was ever taken back.
ConfirmedAnswerShowsMoney ==
  Answered /\ lookup.row.status = "confirmed" /\ rewinds = 0 =>
    lookup.row.paid >= Due[lookup.invoice]
=============================================================================
