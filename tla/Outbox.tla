------------------------------- MODULE Outbox -------------------------------
(***************************************************************************)
(* The webhook sender of internal/webhook: it reads the rows of the events *)
(* table whose time has come, posts them one by one to the merchant's      *)
(* endpoint, and records of each what became of it.                        *)
(*                                                                         *)
(* A row is read, posted and recorded in three steps.  New rows are        *)
(* written, time passes and the process may stop between any two of them,  *)
(* and an endpoint that took an event need not get its answer through.     *)
(*                                                                         *)
(* Time is in units of the first backoff.  A row's next_try_at is kept as  *)
(* what is left until then.                                                *)
(*                                                                         *)
(* A definition marked "Fault" is a way the next one could have been       *)
(* written wrong: a run with the fault in its place must fail.             *)
(***************************************************************************)
EXTENDS Integers, Sequences, FiniteSets, Functions

CONSTANTS
  MaxTries,     \* Config.MaxTries: 12
  BatchLimit,   \* rows per pass: 50
  BackoffCap,   \* the longest backoff: an hour is 360 of the first
  Never,        \* the next_try_at of a row that was given up
  NoAnswer,     \* no post waits to be recorded
  MaxEvents     \* bound: how many rows are ever written

ASSUME LimitAssumption ==
  /\ MaxTries \in Nat \ {0} /\ BatchLimit \in Nat \ {0} /\ BackoffCap \in Nat \ {0}
  /\ MaxEvents \in Nat /\ Never \notin Nat /\ NoAnswer \notin [id : Nat, ok : BOOLEAN]

VARIABLES
  rows,      \* the events table: the row with id n is the n-th
  batch,     \* the pass under way: the attempts read of each row still to be dealt with
  answer,    \* what the last post came to, until it is recorded
  taken,     \* history: the ids the endpoint answered with a 2xx, heard or not
  failures   \* history: how many posts of each row failed, counted up to MaxTries

vars == <<rows, batch, answer, taken, failures>>

Fresh == [delivered |-> FALSE, attempts |-> 0, wait |-> 0]
Ids == 1..MaxEvents

\* Fault: what was delivered is sent again.
DueAnyway(id) == rows[id].wait = 0

\* delivered = 0 AND next_try_at <= now
Due(id) == ~rows[id].delivered /\ rows[id].wait = 0

\* Fault: doubling without the cap.
BackoffUncapped(attempt) == 2^(attempt - 1)

\* 1, 2, 4 ... and never more than the cap.
Backoff(attempt) ==
  IF 2^(attempt - 1) \in 1..BackoffCap THEN 2^(attempt - 1) ELSE BackoffCap

\* Fault: any answer counts as delivered.
RecordedAsDelivered(row, attempts, ok) == [row EXCEPT !.delivered = TRUE, !.attempts = @ + 1]

\* Fault: a failure is not counted.
RecordedUncounted(row, attempts, ok) ==
  IF ok THEN [row EXCEPT !.delivered = TRUE, !.attempts = @ + 1]
  ELSE IF attempts + 1 >= MaxTries THEN [row EXCEPT !.attempts = attempts + 1, !.wait = Never]
  ELSE [row EXCEPT !.wait = Backoff(attempts + 1)]

\* Fault: the last try is never made.
RecordedTooSoon(row, attempts, ok) ==
  IF ok THEN [row EXCEPT !.delivered = TRUE, !.attempts = @ + 1]
  ELSE IF attempts + 2 >= MaxTries THEN [row EXCEPT !.attempts = attempts + 1, !.wait = Never]
  ELSE [row EXCEPT !.attempts = attempts + 1, !.wait = Backoff(attempts + 1)]

\* A row, after a post of it when it had that many attempts behind it.
Recorded(row, attempts, ok) ==
  IF ok THEN [row EXCEPT !.delivered = TRUE, !.attempts = @ + 1]
  ELSE IF attempts + 1 >= MaxTries THEN [row EXCEPT !.attempts = attempts + 1, !.wait = Never]
  ELSE [row EXCEPT !.attempts = attempts + 1, !.wait = Backoff(attempts + 1)]

-----------------------------------------------------------------------------
NoBatch == [id \in {} |-> 0]

Init ==
  /\ rows = << >>
  /\ batch = NoBatch
  /\ answer = NoAnswer
  /\ taken = {}
  /\ failures = [id \in Ids |-> 0]

\* Store.Apply commits n changes of status, and an event with each of them.
Emit(n) ==
  /\ Len(rows) + n <= MaxEvents
  /\ rows' = rows \o [k \in 1..n |-> Fresh]
  /\ UNCHANGED <<batch, answer, taken, failures>>

\* Time passes.
Elapse ==
  /\ \E id \in DOMAIN rows : rows[id].wait \notin {0, Never}
  /\ rows' = [id \in DOMAIN rows |->
                IF rows[id].wait \in {0, Never} THEN rows[id]
                ELSE [rows[id] EXCEPT !.wait = @ - 1]]
  /\ UNCHANGED <<batch, answer, taken, failures>>

\* The rows that are due, oldest first, and no more of them than the limit.
Oldest ==
  {id \in DOMAIN rows :
     Due(id) /\ Cardinality({older \in 1..(id - 1) : Due(older)}) < BatchLimit}

\* DeliverDue reads a batch.
Read ==
  /\ batch = NoBatch /\ Oldest # {}
  /\ batch' = [id \in Oldest |-> rows[id].attempts]
  /\ UNCHANGED <<rows, answer, taken, failures>>

\* The oldest event of the batch is posted: the endpoint takes it and says so, or the
\* post ends in an error.
Post ==
  /\ answer = NoAnswer
  /\ \E id \in DOMAIN batch :
       /\ \A other \in DOMAIN batch : id <= other
       /\ \/ /\ answer' = [id |-> id, ok |-> TRUE]
             /\ taken' = taken \cup {id}
             /\ UNCHANGED failures
          \/ /\ answer' = [id |-> id, ok |-> FALSE]
             /\ failures' = [failures EXCEPT ![id] = IF @ < MaxTries THEN @ + 1 ELSE @]
             /\ UNCHANGED taken
  /\ UNCHANGED <<rows, batch>>

\* An endpoint takes an event after all whose post ended in an error: its answer was
\* lost, or the event itself was under way until after the timeout.
Straggle(id) ==
  /\ failures[id] > 0
  /\ taken' = taken \cup {id}
  /\ UNCHANGED <<rows, batch, answer, failures>>

\* What became of it is recorded, and the pass goes on to the next.
Record ==
  /\ answer # NoAnswer
  /\ rows' = [rows EXCEPT ![answer.id] = Recorded(@, batch[answer.id], answer.ok)]
  /\ batch' = Restrict(batch, DOMAIN batch \ {answer.id})
  /\ answer' = NoAnswer
  /\ UNCHANGED <<taken, failures>>

\* The process stops, or the database refuses the update: the pass is over.
Interrupt ==
  /\ batch # NoBatch
  /\ batch' = NoBatch
  /\ answer' = NoAnswer
  /\ UNCHANGED <<rows, taken, failures>>

Next ==
  \/ \E n \in 1..MaxEvents : Emit(n)
  \/ Elapse
  \/ Read \/ Post \/ Record \/ Interrupt
  \/ \E id \in DOMAIN rows : Straggle(id)

Spec == Init /\ [][Next]_vars

\* The ticker starts a pass whenever one is over, a post ends with an answer or a
\* timeout, and the process and the disk work often enough for an outcome to be
\* recorded now and then.
FairSpec == Spec /\ WF_vars(Elapse) /\ WF_vars(Read) /\ SF_vars(Post) /\ SF_vars(Record)

-----------------------------------------------------------------------------
(* Properties *)

Rows == [delivered : BOOLEAN, attempts : 0..MaxTries, wait : 0..BackoffCap \cup {Never}]

\* Every variable has its shape: no row waits longer than the cap, and none is
\* tried more often than MaxTries.
TypeOK ==
  /\ rows \in Seq(Rows) /\ Len(rows) <= MaxEvents
  /\ DOMAIN batch \subseteq DOMAIN rows
  /\ answer \in [id : DOMAIN batch, ok : BOOLEAN] \cup {NoAnswer}
  /\ taken \subseteq Ids
  /\ failures \in [Ids -> 0..MaxTries]

\* The updates of a pass write what was read before its posts.  That loses nothing:
\* whatever happened since, a row still to be dealt with is as it was read.
BatchIsCurrent ==
  \A id \in DOMAIN batch :
    ~rows[id].delivered /\ rows[id].wait = 0 /\ rows[id].attempts = batch[id]

\* A row is marked delivered only if the endpoint took the event.
DeliveredWasTaken ==
  \A id \in DOMAIN rows : rows[id].delivered => id \in taken

\* An event is given up only after MaxTries posts of it failed, whatever passes were
\* broken off in between.
GivenUpWasTried ==
  \A id \in DOMAIN rows : rows[id].wait = Never => failures[id] = MaxTries

\* No pass picks up a row that has had all its attempts.
TriesAreBounded ==
  \A id \in DOMAIN batch : batch[id] < MaxTries

Settled(id) == rows[id].delivered \/ rows[id].wait = Never

\* A row that was delivered or given up is never touched again: a delivery on record
\* is not repeated and the reason for giving up stays.
SettledIsFinal ==
  [][\A id \in DOMAIN rows : Settled(id) =>
       /\ rows'[id] = rows[id]
       /\ id \notin DOMAIN batch']_vars

\* The sender keeps the outbox's promise: what it does of each event is to queue it, to
\* have it taken and to settle it, for good.
Promise == INSTANCE Delivery
           WITH outcome <- [id \in DOMAIN rows |->
                              IF rows[id].delivered THEN "delivered"
                              ELSE IF rows[id].wait = Never THEN "given up" ELSE "queued"],
                taken <- taken
ImplementsDelivery == Promise!Spec

\* Every event is delivered or given up in the end, however often passes break off
\* and however the endpoint behaves.
EveryEventSettles ==
  \A id \in Ids : id \in DOMAIN rows ~> (id \in DOMAIN rows /\ Settled(id))
=============================================================================
