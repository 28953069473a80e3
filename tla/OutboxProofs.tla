---------------------------- MODULE OutboxProofs ----------------------------
(***************************************************************************)
(* What holds of the webhook sender for any number of events, any limit of *)
(* tries, any size of a batch and any cap of the backoff: the proofs.      *)
(***************************************************************************)
EXTENDS Outbox, TLAPS

\* What has been heard was taken.
HeardWasTaken == answer # NoAnswer /\ answer.ok => answer.id \in taken

\* A row still open has had no more attempts than posts of it failed, nor as many as
\* it may have, and a failure not yet recorded is one more.
FailuresCount ==
  \A id \in DOMAIN rows : ~rows[id].delivered /\ rows[id].wait # Never =>
    /\ rows[id].attempts < MaxTries
    /\ rows[id].attempts <= failures[id]
    /\ answer # NoAnswer /\ answer.id = id /\ ~answer.ok => rows[id].attempts + 1 <= failures[id]

\* A row that was delivered waits for nothing: it is neither given up nor tried again.
DeliveredDoesNotWait == \A id \in DOMAIN rows : rows[id].delivered => rows[id].wait = 0

IInv ==
  /\ TypeOK /\ BatchIsCurrent /\ DeliveredWasTaken /\ GivenUpWasTried
  /\ HeardWasTaken /\ FailuresCount /\ DeliveredDoesNotWait

-----------------------------------------------------------------------------
\* A backoff is a number from 1 to the cap.
LEMMA BackoffRange == ASSUME NEW n PROVE Backoff(n) \in 1..BackoffCap
BY LimitAssumption DEF Backoff

\* The ids of the rows are among the ids there may be.
LEMMA RowIds == ASSUME TypeOK PROVE DOMAIN rows = 1..Len(rows) /\ DOMAIN rows \subseteq Ids
BY LimitAssumption DEF TypeOK, Ids

\* A row is a record of its type.
LEMMA RowType == ASSUME TypeOK, NEW id \in DOMAIN rows PROVE rows[id] \in Rows
BY RowIds DEF TypeOK

\* What a post makes of a row that has not had all its attempts.
LEMMA RecordedRow ==
  ASSUME NEW row \in Rows, NEW n \in 0..(MaxTries - 1), row.attempts = n, row.wait = 0,
         ~row.delivered, NEW ok \in BOOLEAN
  PROVE  LET next == Recorded(row, n, ok)
         IN  /\ next \in Rows
             /\ next.attempts = n + 1
             /\ ok => next.delivered /\ next.wait = 0
             /\ ~ok => ~next.delivered /\ next.wait # 0
             /\ next.wait = Never => ~ok /\ n + 1 = MaxTries
             /\ ~ok /\ next.wait # Never => n + 1 < MaxTries
<1> USE LimitAssumption
<1>0. /\ row = [delivered |-> row.delivered, attempts |-> n, wait |-> 0]
      /\ n \in Nat /\ n + 1 \in 0..MaxTries
  BY DEF Rows
<1>1. CASE ok
  <2>1. Recorded(row, n, ok) = [delivered |-> TRUE, attempts |-> n + 1, wait |-> 0]
    BY <1>0, <1>1 DEF Recorded
  <2>2. [delivered |-> TRUE, attempts |-> n + 1, wait |-> 0] \in Rows
    <3>1. 0 \in 0..BackoffCap \cup {Never} /\ n + 1 \in 0..MaxTries
      BY <1>0
    <3> QED
      BY <3>1, Zenon DEF Rows
  <2>3. LET next == Recorded(row, n, ok)
        IN  next.attempts = n + 1 /\ next.delivered = TRUE /\ next.wait = 0 /\ next.wait # Never
    BY <2>1
  <2> QED
    BY <1>1, <2>1, <2>2, <2>3, Zenon
<1>2. CASE ~ok /\ n + 1 >= MaxTries
  <2>1. Recorded(row, n, ok) = [delivered |-> FALSE, attempts |-> n + 1, wait |-> Never]
    BY <1>0, <1>2 DEF Recorded, Rows
  <2> QED
    BY <1>0, <1>2, <2>1 DEF Rows
<1>3. CASE ~ok /\ n + 1 < MaxTries
  <2>1. Backoff(n + 1) \in 1..BackoffCap
    BY BackoffRange
  <2>2. Recorded(row, n, ok) = [row EXCEPT !.attempts = n + 1, !.wait = Backoff(n + 1)]
    BY <1>0, <1>3 DEF Recorded
  <2>3. Recorded(row, n, ok) = [delivered |-> FALSE, attempts |-> n + 1, wait |-> Backoff(n + 1)]
    BY <2>2 DEF Rows
  <2> QED
    BY <1>0, <1>3, <2>1, <2>3 DEF Rows
<1> QED
  BY <1>0, <1>1, <1>2, <1>3

-----------------------------------------------------------------------------
(* Every step keeps the invariant *)

\* The invariant holds at first.
LEMMA InitInv == Init => IInv
BY LimitAssumption
DEF Init, NoBatch, IInv, TypeOK, BatchIsCurrent, DeliveredWasTaken, GivenUpWasTried,
    HeardWasTaken, FailuresCount, DeliveredDoesNotWait, Rows, Ids

\* New rows keep it: no pass has read them.
LEMMA EmitInv == ASSUME NEW n \in 1..MaxEvents PROVE IInv /\ Emit(n) => IInv'
<1> SUFFICES ASSUME IInv, Emit(n) PROVE IInv'
  OBVIOUS
<1> USE LimitAssumption DEF IInv, Emit
<1>1. DOMAIN rows = 1..Len(rows) /\ DOMAIN rows \subseteq Ids
  BY RowIds
<1>2. Fresh \in Rows
  BY DEF Fresh, Rows
<1>3. /\ rows' \in Seq(Rows) /\ Len(rows') = Len(rows) + n /\ DOMAIN rows' = 1..(Len(rows) + n)
      /\ \A id \in DOMAIN rows : rows'[id] = rows[id]
      /\ \A id \in DOMAIN rows' \ DOMAIN rows : rows'[id] = Fresh
  <2>1. [k \in 1..n |-> Fresh] \in Seq(Rows) /\ Len([k \in 1..n |-> Fresh]) = n
    BY <1>2
  <2> QED
    BY <1>1, <2>1 DEF TypeOK
<1>4. TypeOK'
  BY <1>1, <1>3 DEF TypeOK
<1>5. BatchIsCurrent'
  BY <1>1, <1>3 DEF BatchIsCurrent, TypeOK
<1>6. \A id \in DOMAIN rows' : id \in DOMAIN rows \/ rows'[id] = Fresh
  BY <1>1, <1>3 DEF TypeOK
<1>7. DeliveredWasTaken' /\ GivenUpWasTried' /\ DeliveredDoesNotWait'
  <2>1. Fresh.delivered = FALSE /\ Fresh.wait # Never
    BY DEF Fresh
  <2>2. DeliveredWasTaken'
    BY <1>3, <1>6, <2>1 DEF DeliveredWasTaken
  <2>3. GivenUpWasTried'
    BY <1>3, <1>6, <2>1 DEF GivenUpWasTried
  <2>4. DeliveredDoesNotWait'
    BY <1>3, <1>6, <2>1 DEF DeliveredDoesNotWait
  <2> QED
    BY <2>2, <2>3, <2>4
<1>8. answer = NoAnswer \/ answer.id \in DOMAIN rows
  BY DEF TypeOK
<1>9. HeardWasTaken'
  BY DEF HeardWasTaken
<1>10. FailuresCount'
  <2>1. \A id \in DOMAIN rows' : failures[id] \in 0..MaxTries
    BY <1>1, <1>3 DEF TypeOK, Ids
  <2> QED
    BY <1>3, <1>6, <1>8, <2>1 DEF FailuresCount, Fresh
<1> QED
  BY <1>4, <1>5, <1>7, <1>9, <1>10

\* Time keeps it: it moves only rows that wait, and none of the batch does.
LEMMA ElapseInv == IInv /\ Elapse => IInv'
<1> SUFFICES ASSUME IInv, Elapse PROVE IInv'
  OBVIOUS
<1> USE LimitAssumption DEF IInv, Elapse
<1>1. DOMAIN rows = 1..Len(rows) /\ DOMAIN rows' = DOMAIN rows
  BY RowIds
<1>2. \A id \in DOMAIN rows :
        /\ rows'[id] \in Rows
        /\ rows'[id].delivered = rows[id].delivered /\ rows'[id].attempts = rows[id].attempts
        /\ rows'[id].wait = Never <=> rows[id].wait = Never
        /\ rows[id].wait = 0 => rows'[id].wait = 0
  BY RowType DEF Rows
<1>3. rows' \in Seq(Rows) /\ Len(rows') = Len(rows)
  <2>1. rows' \in [1..Len(rows) -> Rows]
    BY <1>1, <1>2
  <2> QED
    BY <1>1, <2>1 DEF TypeOK
<1>4. TypeOK'
  BY <1>1, <1>3 DEF TypeOK
<1>5. BatchIsCurrent'
  BY <1>1, <1>2 DEF BatchIsCurrent, TypeOK
<1>6. DeliveredWasTaken' /\ GivenUpWasTried' /\ DeliveredDoesNotWait' /\ HeardWasTaken'
  BY <1>1, <1>2 DEF DeliveredWasTaken, GivenUpWasTried, DeliveredDoesNotWait, HeardWasTaken
<1>7. FailuresCount'
  BY <1>1, <1>2 DEF FailuresCount
<1> QED
  BY <1>4, <1>5, <1>6, <1>7

\* Reading a batch keeps it.
LEMMA ReadInv == IInv /\ Read => IInv'
<1> SUFFICES ASSUME IInv, Read PROVE IInv'
  OBVIOUS
<1> USE DEF IInv, Read
<1>1. DOMAIN batch = {} /\ answer = NoAnswer
  BY LimitAssumption DEF NoBatch, TypeOK
<1>2. TypeOK'
  BY <1>1 DEF TypeOK, Oldest
<1>3. BatchIsCurrent'
  BY DEF BatchIsCurrent, Oldest, Due
<1>4. DeliveredWasTaken' /\ GivenUpWasTried' /\ DeliveredDoesNotWait' /\ HeardWasTaken' /\ FailuresCount'
  BY DEF DeliveredWasTaken, GivenUpWasTried, DeliveredDoesNotWait, HeardWasTaken, FailuresCount
<1> QED
  BY <1>2, <1>3, <1>4

\* A post keeps it: a failure is counted before it is recorded.
LEMMA PostInv == IInv /\ Post => IInv'
<1> SUFFICES ASSUME IInv, Post PROVE IInv'
  OBVIOUS
<1> USE LimitAssumption DEF IInv, Post
<1>1. PICK id \in DOMAIN batch :
        \/ /\ answer' = [id |-> id, ok |-> TRUE]
           /\ taken' = taken \cup {id}
           /\ UNCHANGED failures
        \/ /\ answer' = [id |-> id, ok |-> FALSE]
           /\ failures' = [failures EXCEPT ![id] = IF @ < MaxTries THEN @ + 1 ELSE @]
           /\ UNCHANGED taken
  BY DEF Post
<1>2. /\ answer' \in [id : {id}, ok : BOOLEAN]
      /\ id \in DOMAIN rows /\ id \in Ids /\ DOMAIN rows \subseteq Ids /\ DOMAIN rows \subseteq Nat
  <2>1. [id |-> id, ok |-> TRUE] \in [id : {id}, ok : BOOLEAN]
    BY Zenon
  <2>2. [id |-> id, ok |-> FALSE] \in [id : {id}, ok : BOOLEAN]
    BY Zenon
  <2>3. answer' \in [id : {id}, ok : BOOLEAN]
    BY <1>1, <2>1, <2>2, Zenon
  <2> QED
    BY <2>3, RowIds DEF TypeOK, Ids
<1>3. failures \in [Ids -> 0..MaxTries] /\ failures' \in [Ids -> 0..MaxTries]
  BY <1>1, <1>2 DEF TypeOK
<1>4. TypeOK'
  <2>1. answer' \in [id : DOMAIN batch, ok : BOOLEAN]
    BY <1>2
  <2>2. taken' \subseteq Ids
    BY <1>1, <1>2 DEF TypeOK
  <2> QED
    BY <1>3, <2>1, <2>2 DEF TypeOK
<1>5. BatchIsCurrent'
  BY DEF BatchIsCurrent
<1>6. DeliveredWasTaken' /\ DeliveredDoesNotWait'
  BY <1>1 DEF DeliveredWasTaken, DeliveredDoesNotWait
<1>7. answer' # NoAnswer /\ answer'.id = id
  <2>1. id \in Nat
    BY <1>2
  <2>2. answer'.id = id /\ answer' \in [id : Nat, ok : BOOLEAN]
    BY <1>2, <2>1
  <2> QED
    BY <2>2
<1>8. HeardWasTaken'
  BY <1>1 DEF HeardWasTaken
<1>9. \A other \in DOMAIN rows : failures'[other] >= failures[other]
  BY <1>1, <1>2, <1>3
<1>10. GivenUpWasTried'
  BY <1>1, <1>2, <1>3 DEF GivenUpWasTried
<1>11. FailuresCount'
  <2> SUFFICES ASSUME NEW other \in DOMAIN rows, ~rows[other].delivered, rows[other].wait # Never
               PROVE  /\ rows[other].attempts < MaxTries
                      /\ rows[other].attempts <= failures'[other]
                      /\ answer'.id = other /\ ~answer'.ok =>
                           rows[other].attempts + 1 <= failures'[other]
    BY <1>7 DEF FailuresCount
  <2>1. /\ rows[other].attempts \in Nat /\ rows[other].attempts < MaxTries
        /\ rows[other].attempts <= failures[other]
    BY RowType DEF FailuresCount, Rows
  <2>2. failures[other] \in Nat /\ failures'[other] \in Nat /\ failures'[other] >= failures[other]
    BY <1>2, <1>3, <1>9
  <2>3. ASSUME other = id, ~answer'.ok PROVE rows[other].attempts + 1 <= failures'[other]
    BY <1>1, <1>2, <1>3, <2>1, <2>2, <2>3
  <2> QED
    BY <1>7, <2>1, <2>2, <2>3
<1> QED
  BY <1>4, <1>5, <1>6, <1>8, <1>10, <1>11

\* Recording what became of a post keeps it: the row is as it was read.
LEMMA RecordInv == IInv /\ Record => IInv'
<1> SUFFICES ASSUME IInv, Record PROVE IInv'
  OBVIOUS
<1> USE LimitAssumption DEF IInv, Record
<1> DEFINE id == answer.id
           n == batch[id]
<1>1. /\ id \in DOMAIN batch /\ id \in DOMAIN rows /\ answer.ok \in BOOLEAN
      /\ DOMAIN rows = 1..Len(rows) /\ DOMAIN rows \subseteq Ids
  BY RowIds DEF TypeOK
<1>2. rows[id] \in Rows /\ ~rows[id].delivered /\ rows[id].wait = 0 /\ rows[id].attempts = n
  BY <1>1, RowType DEF BatchIsCurrent
<1>3. n \in 0..(MaxTries - 1) /\ n <= failures[id] /\ (~answer.ok => n + 1 <= failures[id])
  BY <1>1, <1>2 DEF FailuresCount, Rows
<1>4. /\ rows'[id] \in Rows /\ rows'[id].attempts = n + 1
      /\ answer.ok => rows'[id].delivered /\ rows'[id].wait = 0
      /\ ~answer.ok => ~rows'[id].delivered /\ rows'[id].wait # 0
      /\ rows'[id].wait = Never => ~answer.ok /\ n + 1 = MaxTries
      /\ ~answer.ok /\ rows'[id].wait # Never => n + 1 < MaxTries
  <2>1. rows'[id] = Recorded(rows[id], n, answer.ok)
    BY <1>1 DEF TypeOK
  <2> QED
    BY <1>1, <1>2, <1>3, <2>1, RecordedRow
<1>5. DOMAIN rows' = DOMAIN rows /\ \A other \in DOMAIN rows : other # id => rows'[other] = rows[other]
  BY <1>1 DEF TypeOK
<1>6. rows' \in Seq(Rows) /\ Len(rows') = Len(rows)
  BY <1>1, <1>4 DEF TypeOK
<1>7. /\ DOMAIN batch' = DOMAIN batch \ {id} /\ answer' = NoAnswer
      /\ \A other \in DOMAIN batch' : batch'[other] = batch[other]
  BY DEF Restrict
<1>8. TypeOK'
  BY <1>5, <1>6, <1>7 DEF TypeOK
<1>9. BatchIsCurrent'
  BY <1>5, <1>7 DEF BatchIsCurrent, TypeOK
<1>10. DeliveredWasTaken' /\ HeardWasTaken'
  BY <1>4, <1>5, <1>7 DEF DeliveredWasTaken, HeardWasTaken
<1>11. failures[id] \in 0..MaxTries
  BY <1>1 DEF TypeOK
<1>12. GivenUpWasTried' /\ DeliveredDoesNotWait'
  BY <1>3, <1>4, <1>5, <1>11 DEF GivenUpWasTried, DeliveredDoesNotWait
<1>13. FailuresCount'
  BY <1>3, <1>4, <1>5, <1>7, <1>11 DEF FailuresCount
<1> QED
  BY <1>8, <1>9, <1>10, <1>12, <1>13

\* A pass that breaks off keeps it.
LEMMA InterruptInv == IInv /\ Interrupt => IInv'
<1> SUFFICES ASSUME IInv, Interrupt PROVE IInv'
  OBVIOUS
<1> USE DEF IInv, Interrupt
<1>1. DOMAIN batch' = {} /\ answer' = NoAnswer
  BY DEF NoBatch
<1>2. TypeOK' /\ BatchIsCurrent'
  BY <1>1 DEF TypeOK, BatchIsCurrent
<1>3. DeliveredWasTaken' /\ GivenUpWasTried' /\ DeliveredDoesNotWait' /\ HeardWasTaken' /\ FailuresCount'
  BY <1>1 DEF DeliveredWasTaken, GivenUpWasTried, DeliveredDoesNotWait, HeardWasTaken, FailuresCount
<1> QED
  BY <1>2, <1>3

\* An event that arrives late keeps it.
LEMMA StraggleInv == ASSUME NEW id \in DOMAIN rows PROVE IInv /\ Straggle(id) => IInv'
<1> SUFFICES ASSUME IInv, Straggle(id) PROVE IInv'
  OBVIOUS
<1> USE DEF IInv, Straggle
<1>1. id \in Ids
  BY RowIds
<1> QED
  BY <1>1 DEF TypeOK, BatchIsCurrent, DeliveredWasTaken, GivenUpWasTried, HeardWasTaken,
     FailuresCount, DeliveredDoesNotWait

\* So does every step.
LEMMA NextInv == IInv /\ [Next]_vars => IInv'
<1>1. IInv /\ UNCHANGED vars => IInv'
  BY DEF IInv, vars, TypeOK, BatchIsCurrent, DeliveredWasTaken, GivenUpWasTried,
         HeardWasTaken, FailuresCount, DeliveredDoesNotWait
<1> QED
  BY <1>1, EmitInv, ElapseInv, ReadInv, PostInv, RecordInv, InterruptInv, StraggleInv DEF Next

\* The strengthened invariant holds.
THEOREM Invariant == Spec => []IInv
BY InitInv, NextInv, PTL DEF Spec

-----------------------------------------------------------------------------
(* The theorems *)

\* Every variable of the sender has its shape: no wait beyond the cap, no row tried
\* more often than MaxTries.
THEOREM TypeCorrect == Spec => []TypeOK
<1>1. IInv => TypeOK
  BY DEF IInv
<1> QED
  BY <1>1, Invariant, PTL

\* What a pass has read is current when it is written back.
THEOREM BatchCorrect == Spec => []BatchIsCurrent
<1>1. IInv => BatchIsCurrent
  BY DEF IInv
<1> QED
  BY <1>1, Invariant, PTL

\* A row is marked delivered only if the endpoint took the event.
THEOREM DeliveredCorrect == Spec => []DeliveredWasTaken
<1>1. IInv => DeliveredWasTaken
  BY DEF IInv
<1> QED
  BY <1>1, Invariant, PTL

\* An event is given up only after MaxTries posts of it failed.
THEOREM GivenUpCorrect == Spec => []GivenUpWasTried
<1>1. IInv => GivenUpWasTried
  BY DEF IInv
<1> QED
  BY <1>1, Invariant, PTL

\* No pass picks up a row that has had all its attempts.
THEOREM TriesCorrect == Spec => []TriesAreBounded
<1>1. IInv => TriesAreBounded
  BY LimitAssumption DEF IInv, TypeOK, BatchIsCurrent, FailuresCount, TriesAreBounded
<1> QED
  BY <1>1, Invariant, PTL

\* A row that is delivered or given up stays as it is and is never read again.
THEOREM SettledCorrect == Spec => SettledIsFinal
<1>1. IInv /\ [Next]_vars =>
        [\A id \in DOMAIN rows : Settled(id) =>
           /\ rows'[id] = rows[id]
           /\ id \notin DOMAIN batch']_vars
  <2> SUFFICES ASSUME IInv, Next, NEW id \in DOMAIN rows, Settled(id)
               PROVE  rows'[id] = rows[id] /\ id \notin DOMAIN batch'
    OBVIOUS
  <2>0. id \notin DOMAIN batch /\ (answer # NoAnswer => answer.id # id) /\ DOMAIN rows = 1..Len(rows)
    BY RowIds, LimitAssumption DEF IInv, TypeOK, BatchIsCurrent, Settled
  <2>1. ASSUME NEW n \in 1..MaxEvents, Emit(n) PROVE rows'[id] = rows[id] /\ UNCHANGED batch
    <3>1. [k \in 1..n |-> Fresh] \in Seq({Fresh})
      OBVIOUS
    <3> QED
      BY <2>0, <2>1, <3>1 DEF Emit, IInv, TypeOK
  <2>2. CASE Elapse
    <3>1. rows[id] \in Rows /\ (rows[id].wait \in {0, Never} => rows'[id] = rows[id])
      BY <2>2, RowType DEF Elapse, IInv
    <3>2. rows[id].wait \in {0, Never}
      BY DEF IInv, Settled, DeliveredDoesNotWait
    <3> QED
      BY <2>0, <2>2, <3>1, <3>2 DEF Elapse
  <2>3. CASE Read
    BY <2>3, LimitAssumption DEF Read, Oldest, Due, Settled
  <2>4. CASE Post
    BY <2>0, <2>4 DEF Post
  <2>5. CASE Record
    BY <2>0, <2>5 DEF Record, Restrict, IInv, TypeOK
  <2>6. CASE Interrupt
    BY <2>6 DEF Interrupt, NoBatch
  <2>7. ASSUME NEW late \in DOMAIN rows, Straggle(late) PROVE UNCHANGED <<rows, batch>>
    BY <2>7 DEF Straggle
  <2> QED
    BY <2>0, <2>1, <2>2, <2>3, <2>4, <2>5, <2>6, <2>7 DEF Next
<1> QED
  BY <1>1, Invariant, PTL DEF Spec, SettledIsFinal

-----------------------------------------------------------------------------
(* Refinement *)

\* What the outbox has made of an event so far.
Outcome(row) ==
  IF row.delivered THEN "delivered" ELSE IF row.wait = Never THEN "given up" ELSE "queued"
Outcomes(table) == [id \in DOMAIN table |-> Outcome(table[id])]

\* The outcomes of a table of rows are a sequence.
LEMMA OutcomesType ==
  ASSUME NEW table \in Seq(Rows)
  PROVE  /\ Outcomes(table) \in Seq({"queued", "delivered", "given up"})
         /\ DOMAIN Outcomes(table) = DOMAIN table
         /\ Len(Outcomes(table)) = Len(table)
<1> DEFINE Kinds == {"queued", "delivered", "given up"}
<1>1. \A row : Outcome(row) \in Kinds
  BY DEF Outcome
<1>2. DOMAIN table = 1..Len(table) /\ Len(table) \in Nat
  OBVIOUS
<1> HIDE DEF Kinds
<1>3. Outcomes(table) \in [1..Len(table) -> Kinds]
  BY <1>1, <1>2, Zenon DEF Outcomes
<1>4. Outcomes(table) \in Seq(Kinds) /\ Len(Outcomes(table)) = Len(table)
  BY <1>2, <1>3
<1> QED
  BY <1>2, <1>3, <1>4 DEF Kinds

\* Writing events is queueing them.
LEMMA EmitQueues ==
  ASSUME IInv, NEW n \in 1..MaxEvents, Emit(n)
  PROVE  Promise!Queue
<1>1. rows \in Seq(Rows) /\ rows' \in Seq(Rows)
  BY EmitInv DEF IInv, TypeOK
<1>2. [k \in 1..n |-> Fresh] \in Seq({Fresh}) /\ Len([k \in 1..n |-> Fresh]) = n
  OBVIOUS
<1>3. /\ Len(rows') = Len(rows) + n
      /\ \A id \in DOMAIN rows : rows'[id] = rows[id]
      /\ \A id \in DOMAIN rows' \ DOMAIN rows : rows'[id] = Fresh
  BY <1>1, <1>2 DEF Emit
<1>4. Outcome(Fresh) = "queued"
  BY LimitAssumption DEF Outcome, Fresh
<1>5. \A id \in DOMAIN rows' :
        Outcome(rows'[id]) = IF id \in DOMAIN rows THEN Outcome(rows[id]) ELSE "queued"
  BY <1>3, <1>4
<1>6. /\ Outcomes(rows') \in Seq({"queued", "delivered", "given up"})
      /\ Len(Outcomes(rows)) < Len(Outcomes(rows'))
      /\ \A id \in DOMAIN Outcomes(rows') :
           Outcomes(rows')[id] = IF id \in DOMAIN Outcomes(rows) THEN Outcomes(rows)[id] ELSE "queued"
  <2>1. /\ Outcomes(rows') \in Seq({"queued", "delivered", "given up"})
        /\ DOMAIN Outcomes(rows') = DOMAIN rows' /\ Len(Outcomes(rows')) = Len(rows')
        /\ DOMAIN Outcomes(rows) = DOMAIN rows /\ Len(Outcomes(rows)) = Len(rows)
    BY <1>1, OutcomesType
  <2>2. Len(rows) < Len(rows')
    BY <1>1, <1>3
  <2>3. /\ \A id \in DOMAIN rows' : Outcomes(rows')[id] = Outcome(rows'[id])
        /\ \A id \in DOMAIN rows : Outcomes(rows)[id] = Outcome(rows[id])
    BY DEF Outcomes
  <2> QED
    BY <1>5, <2>1, <2>2, <2>3
<1> QED
  BY <1>6 DEF Promise!Queue, Outcomes, Outcome, Emit

\* Time changes no outcome.
LEMMA ElapseStutters == ASSUME IInv, Elapse PROVE Outcomes(rows') = Outcomes(rows) /\ UNCHANGED taken
<1>1. \A id \in DOMAIN rows : rows[id] \in Rows
  BY RowType DEF IInv
<1>2. \A id \in DOMAIN rows : Outcome(rows'[id]) = Outcome(rows[id])
  <2> SUFFICES ASSUME NEW id \in DOMAIN rows PROVE Outcome(rows'[id]) = Outcome(rows[id])
    OBVIOUS
  <2>1. CASE rows[id].wait \in {0, Never}
    BY <2>1 DEF Elapse
  <2>2. CASE rows[id].wait \notin {0, Never}
    <3>1. rows'[id] = [rows[id] EXCEPT !.wait = rows[id].wait - 1]
      BY <2>2, Zenon DEF Elapse
    <3>2. rows[id].wait \in Nat /\ rows[id].wait - 1 \in Int
      BY <1>1, <2>2 DEF Rows
    <3>3. rows'[id].delivered = rows[id].delivered /\ rows'[id].wait = rows[id].wait - 1
      BY <1>1, <3>1 DEF Rows
    <3>4. rows'[id].wait # Never /\ rows[id].wait # Never
      BY <2>2, <3>2, <3>3, LimitAssumption
    <3> QED
      BY <3>3, <3>4, Zenon DEF Outcome
  <2> QED
    BY <2>1, <2>2
<1>3. DOMAIN rows' = DOMAIN rows
  BY DEF Elapse
<1> QED
  BY <1>2, <1>3 DEF Elapse, Outcomes

\* Recording a post settles an event, or leaves it queued for another try.
LEMMA RecordSettles ==
  ASSUME IInv, Record
  PROVE  UNCHANGED taken /\ \/ Outcomes(rows') = Outcomes(rows)
                            \/ \E id \in DOMAIN rows :
                                 /\ Outcome(rows[id]) = "queued"
                                 /\ \/ id \in taken /\ Outcomes(rows') = [Outcomes(rows) EXCEPT ![id] = "delivered"]
                                    \/ Outcomes(rows') = [Outcomes(rows) EXCEPT ![id] = "given up"]
<1> DEFINE id == answer.id
<1>1. /\ id \in DOMAIN batch /\ id \in DOMAIN rows /\ answer.ok \in BOOLEAN
      /\ answer.ok => id \in taken
  BY DEF IInv, TypeOK, Record, HeardWasTaken
<1>2. rows[id] \in Rows /\ ~rows[id].delivered /\ rows[id].wait = 0 /\ rows[id].attempts = batch[id]
  BY <1>1, RowType DEF IInv, BatchIsCurrent
<1>3. rows' = [rows EXCEPT ![id] = Recorded(rows[id], batch[id], answer.ok)]
  BY DEF Record
<1>4. Outcome(rows[id]) = "queued"
  BY <1>2, LimitAssumption DEF Outcome
<1>5. batch[id] \in 0..(MaxTries - 1)
  BY <1>1, <1>2, LimitAssumption DEF IInv, FailuresCount, Rows
<1> HIDE DEF id
<1>6. LET next == Outcome(rows'[id])
      IN  IF answer.ok THEN next = "delivered" ELSE next \in {"queued", "given up"}
  BY <1>1, <1>2, <1>3, <1>5, RecordedRow DEF Outcome
<1>7. Outcomes(rows') = [Outcomes(rows) EXCEPT ![id] = Outcome(rows'[id])]
  <2>1. DOMAIN rows' = DOMAIN rows /\ \A other \in DOMAIN rows : other # id => rows'[other] = rows[other]
    BY <1>3
  <2>2. \A other \in DOMAIN rows :
          Outcome(rows'[other]) = IF other = id THEN Outcome(rows'[id]) ELSE Outcome(rows[other])
    BY <2>1
  <2> QED
    BY <2>1, <2>2 DEF Outcomes
<1>8. Outcome(rows'[id]) = "queued" => Outcomes(rows') = Outcomes(rows)
  BY <1>1, <1>4, <1>7 DEF Outcomes
<1> QED
  BY <1>1, <1>4, <1>6, <1>7, <1>8 DEF Record

\* Every step of the sender is a step of the promise, or none of its business.
LEMMA DeliveryStep == IInv /\ [Next]_vars => [Promise!Next]_(Promise!vars)
<1> SUFFICES ASSUME IInv, [Next]_vars PROVE [Promise!Next]_(Promise!vars)
  OBVIOUS
<1>0. DOMAIN Outcomes(rows) = DOMAIN rows /\ \A id \in DOMAIN rows : Outcomes(rows)[id] = Outcome(rows[id])
  BY DEF Outcomes
<1>1. ASSUME NEW n \in 1..MaxEvents, Emit(n) PROVE Promise!Next
  BY <1>1, EmitQueues DEF Promise!Next
<1>2. ASSUME Outcomes(rows') = Outcomes(rows), UNCHANGED taken PROVE UNCHANGED Promise!vars
  BY <1>2 DEF Promise!vars, Outcomes, Outcome
<1>3. CASE Elapse
  BY <1>2, <1>3, ElapseStutters
<1>4. CASE Read \/ Interrupt \/ UNCHANGED vars
  BY <1>2, <1>4 DEF Read, Interrupt, vars
<1>5. ASSUME NEW id \in DOMAIN rows, taken' = taken \cup {id}, UNCHANGED rows PROVE Promise!Next
  <2>1. Promise!Take(id)
    BY <1>5 DEF Promise!Take
  <2> QED
    BY <1>5, <2>1 DEF Promise!Next
<1>6. CASE Post
  BY <1>2, <1>5, <1>6 DEF Post, IInv, TypeOK
<1>7. ASSUME NEW id \in DOMAIN rows, Straggle(id) PROVE Promise!Next
  BY <1>5, <1>7 DEF Straggle
<1>8. CASE Record
  <2>1. ASSUME NEW id \in DOMAIN rows, UNCHANGED taken, Outcome(rows[id]) = "queued",
               \/ id \in taken /\ Outcomes(rows') = [Outcomes(rows) EXCEPT ![id] = "delivered"]
               \/ Outcomes(rows') = [Outcomes(rows) EXCEPT ![id] = "given up"]
        PROVE  Promise!Next
    <3>1. Promise!Settle(id)
      BY <2>1 DEF Promise!Settle, Outcomes, Outcome
    <3> QED
      BY <2>1, <3>1 DEF Promise!Next
  <2> QED
    BY <1>2, <1>8, <2>1, RecordSettles
<1> QED
  BY <1>1, <1>3, <1>4, <1>6, <1>7, <1>8 DEF Next

\* For any number of events, any limit of tries and any size of a batch: what the
\* sender does to events is what Delivery allows.
THEOREM OutboxImplementsDelivery == Spec => ImplementsDelivery
<1>1. Init => Promise!Init
  BY DEF Init, Promise!Init
<1> QED
  BY <1>1, DeliveryStep, Invariant, PTL DEF Spec, ImplementsDelivery, Promise!Spec
=============================================================================
