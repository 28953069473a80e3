------------------------------ MODULE Process -------------------------------
(***************************************************************************)
(* The process of cmd/paygate/main.go: two loops, two listeners and any    *)
(* number of requests at work side by side, what they wait for, and how    *)
(* the process stops.                                                      *)
(*                                                                         *)
(* What they wait for is the database, whose only connection a statement   *)
(* or a transaction holds while it lasts (payments.Open), the wallet's     *)
(* mutex, and calls to others.  What a worker does is its program: the     *)
(* order in which it takes and gives back the connection ("take", "give")  *)
(* and the mutex ("lock", "unlock"), and calls the node or the endpoint.   *)
(*                                                                         *)
(* A definition marked "Fault" is a way the next one could have been       *)
(* written wrong: a run with the fault in its place must fail.             *)
(***************************************************************************)
EXTENDS Integers, Sequences, FiniteSets

CONSTANTS
  Posts, Gets,   \* requests to POST /invoices and GET /invoices/{id}
  Servers,       \* "http", and "metrics" if METRICS_LISTEN_ADDR is set
  Grace,         \* the deadline of the shutdown
  Nobody         \* holds a connection or a mutex that is free

Loops == {"monitor", "sender"}
Requests == Posts \cup Gets
Workers == Loops \cup Requests

ASSUME ProcessAssumption ==
  /\ "http" \in Servers /\ Grace \in Nat /\ Nobody \notin Workers
  /\ Posts \cap Gets = {} /\ Loops \cap Requests = {}

VARIABLES
  work,     \* [Workers -> how far a worker is in its program, 0 if it has nothing to do]
  conn,     \* who holds the connection
  mutex,    \* who holds the wallet's mutex
  asked,    \* history: a signal came
  ctx,      \* the context of the loops: "live" or "done"
  ended,    \* what the goroutines that returned have put into errs
  serving,  \* the listeners that listen
  main,     \* [at |-> "select" | "drain" | "exit", code |-> of the exit, left |-> of Grace]
  cut       \* history: the sender's post was cut off by the end of the context

vars == <<work, conn, mutex, asked, ctx, ended, serving, main, cut>>

-----------------------------------------------------------------------------
(* Programs *)

\* Fault: addresses are looked up inside the transaction, on the other connection.
MonitorNested == <<"take", "give", "node", "take", "take", "give", "give">>

\* Cursor; listsinceblock; the look-ups of addresses; Apply.
MonitorProgram == <<"take", "give", "node", "take", "give", "take", "give">>

\* The rows that are due; a post; what became of it.
SenderProgram == <<"take", "give", "post", "take", "give">>

\* The body; the index; ensureWatched; the address; the insert.
PostProgram ==
  <<"body", "take", "give", "lock", "node", "unlock", "node", "take", "give">>

\* The invoice; its observations.
GetProgram == <<"take", "give", "take", "give">>

Program(w) ==
  IF w = "monitor" THEN MonitorProgram
  ELSE IF w = "sender" THEN SenderProgram
  ELSE IF w \in Posts THEN PostProgram ELSE GetProgram

At(w) == IF work[w] = 0 THEN "idle" ELSE Program(w)[work[w]]
Up == main.at # "exit"
Without(holder, w) == IF holder = w THEN Nobody ELSE holder

\* Where a worker is after the step it is at.
Advanced(w) == [work EXCEPT ![w] = IF @ = Len(Program(w)) THEN 0 ELSE @ + 1]

-----------------------------------------------------------------------------
(* Workers *)

\* A tick starts a pass of a loop, and a connection brings a request.
Begin(w) ==
  /\ Up /\ work[w] = 0
  /\ IF w \in Loops THEN ctx = "live" ELSE main.at = "select" /\ "http" \in serving
  /\ work' = [work EXCEPT ![w] = 1]
  /\ UNCHANGED <<conn, mutex, asked, ctx, ended, serving, main, cut>>

\* Fault: what is left of a pass is done in a context of its own.
MayGoOnRegardless(w) == TRUE

\* The statements of the loops are given the context, and are not begun after its end.
MayGoOn(w) == w \in Loops => ctx = "live"

Take(w) ==
  /\ Up /\ At(w) = "take" /\ conn = Nobody /\ MayGoOn(w)
  /\ conn' = w /\ work' = Advanced(w)
  /\ UNCHANGED <<mutex, asked, ctx, ended, serving, main, cut>>

Give(w) ==
  /\ Up /\ At(w) = "give" /\ conn = w
  /\ conn' = Nobody /\ work' = Advanced(w)
  /\ UNCHANGED <<mutex, asked, ctx, ended, serving, main, cut>>

Lock(w) ==
  /\ Up /\ At(w) = "lock" /\ mutex = Nobody
  /\ mutex' = w /\ work' = Advanced(w)
  /\ UNCHANGED <<conn, asked, ctx, ended, serving, main, cut>>

Unlock(w) ==
  /\ Up /\ At(w) = "unlock" /\ mutex = w
  /\ mutex' = Nobody /\ work' = Advanced(w)
  /\ UNCHANGED <<conn, asked, ctx, ended, serving, main, cut>>

\* A call is answered, or ends in an error the worker goes on after: a post that fails
\* is recorded like one that succeeds, and the end of the context is such a failure.
Called(w) ==
  /\ Up /\ At(w) \in {"node", "post"}
  /\ work' = Advanced(w)
  /\ cut' = (cut \/ (At(w) = "post" /\ ctx = "done"))
  /\ UNCHANGED <<conn, mutex, asked, ctx, ended, serving, main>>

\* The client sends the rest of its request.  Nothing says when, or that it ever does:
\* the server has a timeout for headers alone.
Received(w) ==
  /\ Up /\ At(w) = "body"
  /\ work' = Advanced(w)
  /\ UNCHANGED <<conn, mutex, asked, ctx, ended, serving, main, cut>>

\* Fault: the rows that were being read are not closed.
FailLeaking(w) ==
  /\ Up /\ work[w] # 0
  /\ work' = [work EXCEPT ![w] = 0]
  /\ mutex' = Without(mutex, w)
  /\ UNCHANGED <<conn, asked, ctx, ended, serving, main, cut>>

\* An error anywhere ends a pass or a request, and gives back what was held.
Fail(w) ==
  /\ Up /\ work[w] # 0
  /\ work' = [work EXCEPT ![w] = 0]
  /\ conn' = Without(conn, w) /\ mutex' = Without(mutex, w)
  /\ UNCHANGED <<asked, ctx, ended, serving, main, cut>>

\* A loop notices the end of the context, between passes or as the error of one.
Return(w) ==
  /\ Up /\ ctx = "done" /\ w \in Loops
  /\ work' = [work EXCEPT ![w] = 0] /\ conn' = Without(conn, w)
  /\ ended' = ended \cup {"canceled"}
  /\ UNCHANGED <<mutex, asked, ctx, serving, main, cut>>

-----------------------------------------------------------------------------
(* The process *)

\* SIGINT or SIGTERM.
Signal ==
  /\ Up
  /\ asked' = TRUE /\ ctx' = "done"
  /\ UNCHANGED <<work, conn, mutex, ended, serving, main, cut>>

\* A port is taken, or a listener breaks.
ListenerFails(s) ==
  /\ Up /\ s \in serving
  /\ serving' = serving \ {s} /\ ended' = ended \cup {"failed"}
  /\ UNCHANGED <<work, conn, mutex, asked, ctx, main, cut>>

\* Fault: run returns nil whatever the reason.
SelectQuietly ==
  /\ main.at = "select"
  /\ ctx = "done" \/ ended # {}
  /\ main' = [main EXCEPT !.at = "drain"]
  /\ ctx' = IF "failed" \in ended THEN "done" ELSE ctx
  /\ serving' = serving \ {"http"}
  /\ UNCHANGED <<work, conn, mutex, asked, ended, cut>>

\* The end of the context or the first goroutine to return, whichever select picks;
\* then Server.Shutdown stops listening.
Select ==
  /\ main.at = "select"
  /\ \/ /\ ctx = "done" \/ "canceled" \in ended
        /\ main' = [main EXCEPT !.at = "drain"] /\ UNCHANGED ctx
     \/ /\ "failed" \in ended
        /\ main' = [main EXCEPT !.at = "drain", !.code = 1] /\ ctx' = "done"
  /\ serving' = serving \ {"http"}
  /\ UNCHANGED <<work, conn, mutex, asked, ended, cut>>

Tick ==
  /\ main.at = "drain" /\ main.left > 0
  /\ main' = [main EXCEPT !.left = @ - 1]
  /\ UNCHANGED <<work, conn, mutex, asked, ctx, ended, serving, cut>>

\* Fault: a shutdown without a deadline.
ExitPatiently ==
  /\ main.at = "drain"
  /\ \A r \in Requests : work[r] = 0
  /\ main' = [main EXCEPT !.at = "exit"] /\ serving' = {}
  /\ UNCHANGED <<work, conn, mutex, asked, ctx, ended, cut>>

\* No request is left, or no time: the metrics listener and the database are closed, and
\* whatever the loops are at is over.
Exit ==
  /\ main.at = "drain"
  /\ main.left = 0 \/ \A r \in Requests : work[r] = 0
  /\ main' = [main EXCEPT !.at = "exit"] /\ serving' = {}
  /\ UNCHANGED <<work, conn, mutex, asked, ctx, ended, cut>>

Init ==
  /\ work = [w \in Workers |-> 0]
  /\ conn = Nobody /\ mutex = Nobody
  /\ asked = FALSE /\ ctx = "live" /\ ended = {} /\ cut = FALSE
  /\ serving = Servers
  /\ main = [at |-> "select", code |-> 0, left |-> Grace]

Step(w) == Take(w) \/ Give(w) \/ Lock(w) \/ Unlock(w) \/ Called(w)

Next ==
  \/ \E w \in Workers : Begin(w) \/ Step(w) \/ Received(w) \/ Fail(w) \/ Return(w)
  \/ Signal \/ \E s \in Servers : ListenerFails(s)
  \/ Select \/ Tick \/ Exit

Spec == Init /\ [][Next]_vars

\* Calls have timeouts, and whoever waits for the connection or the mutex is served in
\* turn.  Nothing is asked of clients, signals and errors.
FairSpec ==
  /\ Spec
  /\ \A w \in Workers : SF_vars(Step(w)) /\ WF_vars(Return(w))
  /\ WF_vars(Select) /\ WF_vars(Tick) /\ WF_vars(Exit)

-----------------------------------------------------------------------------
(* Properties *)

\* Every variable has its shape, and only a worker that is between taking the connection
\* or the mutex and giving it back holds it: no error leaks either, and nobody keeps the
\* connection while a node or an endpoint takes its time.
TypeOK ==
  /\ work \in [Workers -> 0..9] /\ \A w \in Workers : work[w] <= Len(Program(w))
  /\ conn \in Workers \cup {Nobody} /\ mutex \in Requests \cup {Nobody}
  /\ conn # Nobody => At(conn) = "give"
  /\ mutex # Nobody => At(mutex) \in {"node", "unlock"}
  /\ asked \in BOOLEAN /\ cut \in BOOLEAN /\ ctx \in {"live", "done"}
  /\ ended \subseteq {"canceled", "failed"} /\ serving \subseteq Servers
  /\ main \in [at : {"select", "drain", "exit"}, code : {0, 1}, left : 0..Grace]

\* The process exits with success only if it was told to stop, whatever fails at the
\* same time.
CleanExitWasAsked == main.at = "exit" /\ main.code = 0 => asked

\* A post that the gateway itself cut off is not held against the endpoint: stopping the
\* gateway costs no event an attempt.
StopCostsNoAttempt == cut => conn # "sender"

\* Nobody waits for ever: a pass or a request that has begun comes to an end, unless its
\* client never finishes it.
EveryoneGetsThrough ==
  \A w \in Workers :
    work[w] # 0 ~> (work[w] = 0 \/ At(w) = "body" \/ main.at = "exit")

\* Told to stop, or without one of its listeners, the process exits, whatever requests
\* are left.
StopsInTheEnd == asked \/ "failed" \in ended ~> main.at = "exit"
=============================================================================
