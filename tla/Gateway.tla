------------------------------ MODULE Gateway -------------------------------
(***************************************************************************)
(* The gateway from the merchant's side: the lifecycle of invoices         *)
(* (InvoiceLifecycle, which the monitor implements) and the webhook sender *)
(* (Outbox) on one database, and what a merchant can know of an invoice    *)
(* from the events that arrive.                                            *)
(*                                                                         *)
(* Store.Apply commits the changes of status of one poll and an event for  *)
(* each of them in one transaction.  Events arrive late, more than once    *)
(* and out of order; the id in the payload is what a merchant can put them *)
(* in order by, so the merchant of this module goes by the highest id.     *)
(***************************************************************************)
EXTENDS Outbox, FiniteSetsExt

CONSTANT Invoices

ASSUME InvoicesAssumption == IsFiniteSet(Invoices)

VARIABLES
  status,  \* the invoices table
  log      \* what the rows of the events table say: the invoice and its status

gatewayVars == <<vars, status, log>>

\* The events of an invoice, in the order of their ids.
EventsOf(i) ==
  LET ids == {id \in DOMAIN log : log[id].invoice = i}
  IN  [n \in 1..Cardinality(ids) |->
         log[CHOOSE id \in ids : Cardinality({m \in ids : m <= id}) = n].status]

Lifecycle == INSTANCE InvoiceLifecycle WITH events <- [i \in Invoices |-> EventsOf(i)]

GatewayInit ==
  /\ Init
  /\ status = [i \in Invoices |-> "none"]
  /\ log = << >>

\* POST /invoices: a row, and no event.
Create(i) ==
  /\ UNCHANGED log
  /\ Lifecycle!Create(i)
  /\ UNCHANGED vars

\* The polls there may be: the statuses they change, one or more.
Polls ==
  UNION {[S -> Lifecycle!InFlight \cup {"confirmed", "expired"}] : S \in (SUBSET Invoices) \ {{}}}

\* An event per change is written, the invoices in any order.
Logged(changes) ==
  \E order \in Bijection(1..Cardinality(DOMAIN changes), DOMAIN changes) :
    log' = log \o [k \in DOMAIN order |-> [invoice |-> order[k], status |-> changes[order[k]]]]

\* Fault: the statuses commit, the events in a transaction of their own that may fail.
CommitWithoutEvents(changes) ==
  \/ Logged(changes) /\ Lifecycle!Move(changes) /\ Emit(Cardinality(DOMAIN changes))
  \/ Lifecycle!Move(changes) /\ UNCHANGED <<log, vars>>

\* Fault: the events are written first, and the transaction of the statuses may fail.
CommitEventsFirst(changes) ==
  \/ Logged(changes) /\ Lifecycle!Move(changes) /\ Emit(Cardinality(DOMAIN changes))
  \/ /\ \A i \in DOMAIN changes : changes[i] \in Lifecycle!Successors(status[i]) \ {status[i]}
     /\ Logged(changes) /\ Emit(Cardinality(DOMAIN changes))
     /\ UNCHANGED status

\* Store.Apply: statuses and events in one transaction.
Commit(changes) ==
  Logged(changes) /\ Lifecycle!Move(changes) /\ Emit(Cardinality(DOMAIN changes))

Sender(A) == A /\ UNCHANGED <<status, log>>

GatewayNext ==
  \/ \E i \in Invoices : Create(i)
  \/ \E changes \in Polls : Commit(changes)
  \/ Sender(Elapse) \/ Sender(Read) \/ Sender(Post) \/ Sender(Record) \/ Sender(Interrupt)
  \/ \E id \in DOMAIN rows : Sender(Straggle(id))

GatewaySpec == GatewayInit /\ [][GatewayNext]_gatewayVars

\* The sender's fairness (Outbox.tla); invoices need not change at all.
GatewayFair ==
  /\ GatewaySpec
  /\ WF_gatewayVars(Sender(Elapse)) /\ WF_gatewayVars(Sender(Read))
  /\ SF_gatewayVars(Sender(Post)) /\ SF_gatewayVars(Sender(Record))

-----------------------------------------------------------------------------
(* Properties *)

\* The events of an invoice that arrived, and what the merchant makes of them: the
\* newest counts, and before any the invoice is as POST /invoices answered.
Heard(i) == {id \in DOMAIN log : log[id].invoice = i /\ id \in taken}
Believed(i) == IF Heard(i) = {} THEN "pending" ELSE log[Max(Heard(i))].status

\* A merchant who ships or cancels on an event is never contradicted later: what is
\* believed confirmed or expired is so, for good, whatever arrives and in what order.
BelievesOnlyTheFinal ==
  \A i \in Invoices : Believed(i) \in {"confirmed", "expired"} => status[i] = Believed(i)

\* Where merchant and gateway differ, the outbox knows of it: the event of the last
\* change is not on record as delivered.
LagIsOnRecord ==
  \A i \in Invoices : status[i] \notin {"none", Believed(i)} =>
    \E id \in DOMAIN log :
      log[id] = [invoice |-> i, status |-> status[i]] /\ id \notin taken /\ ~rows[id].delivered

\* In the end the merchant knows the status of an invoice, or the event that tells of
\* it was given up.
MerchantLearns ==
  \A i \in Invoices :
    <>[](\/ status[i] \in {"none", Believed(i)}
         \/ \E id \in DOMAIN log :
              /\ log[id] = [invoice |-> i, status |-> status[i]]
              /\ rows[id].wait = Never)
=============================================================================
