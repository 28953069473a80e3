--------------------------- MODULE GatewayProofs ----------------------------
(***************************************************************************)
(* What a merchant can rely on, for any number of invoices and events, any *)
(* limit of tries, any size of a batch and any cap of the backoff: the     *)
(* proofs about the composition of the lifecycle and the outbox.           *)
(***************************************************************************)
EXTENDS Gateway, OutboxProofs, Sums, SequenceTheorems

Final == {"confirmed", "expired"}
Told == {"seen", "confirming", "underpaid", "reorged"} \cup Final
Entries == [invoice : Invoices, status : Told]

\* The events table and what its rows say are one table, and only what is in it is taken.
LogFits ==
  /\ log \in Seq(Entries) /\ Len(log) = Len(rows)
  /\ status \in [Invoices -> {"none", "pending"} \cup Told]
  /\ taken \subseteq DOMAIN rows

\* An invoice that is past pending has an event, and one that has an event is past pending.
ChangesAreTold ==
  \A i \in Invoices :
    status[i] \in {"none", "pending"} <=> \A id \in DOMAIN log : log[id].invoice # i

\* The last event of an invoice tells its status.
LastIsStatus ==
  \A id \in DOMAIN log :
    (\A m \in DOMAIN log : id < m => log[m].invoice # log[id].invoice)
      => log[id].status = status[log[id].invoice]

\* No other event tells of something final.
EarlierIsOpen ==
  \A id, m \in DOMAIN log : id < m /\ log[m].invoice = log[id].invoice => log[id].status \notin Final

GInv == IInv /\ LogFits /\ ChangesAreTold /\ LastIsStatus /\ EarlierIsOpen

-----------------------------------------------------------------------------
\* A set of ids that is not empty has a greatest.
LEMMA GreatestId ==
  ASSUME NEW N \in Nat, NEW S \in SUBSET (1..N), S # {}
  PROVE  /\ Max(S) \in S
         /\ \A y \in S : y <= Max(S)
<1> DEFINE T == {N - x : x \in S}
           R == OpToRel(<, Nat)
<1>0. \A x \in S : x \in Int /\ x <= N
  OBVIOUS
<1>1. T \subseteq Nat /\ T # {}
  <2>1. \A x \in S : N - x \in Nat
    BY <1>0
  <2> QED
    BY <2>1
<1>2. \A x, y \in Nat : <<y, x>> \in R <=> y < x
  BY DEF OpToRel
<1>3. \E x \in T : \A y \in T : ~(<<y, x>> \in R)
  <2>1. IsWellFoundedOn(R, Nat)
    BY NatLessThanWellFounded
  <2> HIDE DEF T, R
  <2> QED
    BY <1>1, <2>1, WFMin
<1>4. PICK x \in S : \A y \in S : ~(N - y < N - x)
  <2>1. PICK x \in S : \A y \in T : ~(<<y, N - x>> \in R)
    BY <1>3
  <2>2. \A y \in S : N - y \in Nat /\ N - y \in T
    BY <1>1
  <2> HIDE DEF R, T
  <2> QED
    BY <1>2, <2>1, <2>2
<1>5. \A y \in S : x >= y
  BY <1>0, <1>4
<1> QED
  BY <1>0, <1>5 DEF Max

\* An event is of an invoice and tells a status.
LEMMA EntryType ==
  ASSUME LogFits, NEW id \in DOMAIN log
  PROVE  log[id] \in Entries /\ log[id].invoice \in Invoices /\ log[id].status \in Told
<1>1. log[id] \in Entries
  BY DEF LogFits
<1> QED
  BY <1>1 DEF Entries

\* A commit is the outbox's step: at least one event, and no more than there is room for.
LEMMA CommitEmits ==
  ASSUME GInv, NEW changes \in Polls, Commit(changes)
  PROVE  /\ Cardinality(DOMAIN changes) \in 1..MaxEvents
         /\ Emit(Cardinality(DOMAIN changes))
<1>1. DOMAIN changes \subseteq Invoices /\ DOMAIN changes # {}
  BY DEF Polls
<1>2. Cardinality(DOMAIN changes) \in Nat \ {0}
  BY <1>1, InvoicesAssumption, FS_Subset, FS_CardinalityType, FS_EmptySet
<1>3. Len(rows) \in Nat
  BY DEF GInv, IInv, TypeOK
<1> QED
  BY <1>2, <1>3, LimitAssumption DEF Commit, Emit

\* Every step of the composition is a step of the outbox or none of its business.
LEMMA OutboxStep == GInv /\ [GatewayNext]_gatewayVars => [Next]_vars
<1> SUFFICES ASSUME GInv, [GatewayNext]_gatewayVars PROVE [Next]_vars
  OBVIOUS
<1>1. ASSUME NEW changes \in Polls, Commit(changes) PROVE Next
  BY <1>1, CommitEmits DEF Next
<1>2. ASSUME NEW i \in Invoices, Create(i) PROVE UNCHANGED vars
  BY <1>2 DEF Create
<1> QED
  BY <1>1, <1>2 DEF GatewayNext, Sender, Next, gatewayVars

\* What a commit does to the log and to the statuses.
LEMMA CommitLogs ==
  ASSUME GInv, NEW changes \in Polls, Commit(changes), NEW D, D = DOMAIN changes
  PROVE  /\ D \subseteq Invoices
         /\ log' \in Seq(Entries) /\ Len(log') = Len(log) + Cardinality(D) /\ Len(log) \in Nat
         /\ \A id \in DOMAIN log : id \in DOMAIN log' /\ log'[id] = log[id]
         /\ \A id \in DOMAIN log' \ DOMAIN log :
              /\ log'[id].invoice \in D /\ log'[id].status = changes[log'[id].invoice]
              /\ \A m \in DOMAIN log : m < id
         /\ \A i \in D : \E id \in DOMAIN log' \ DOMAIN log : log'[id].invoice = i
         /\ \A id, m \in DOMAIN log' \ DOMAIN log :
              log'[id].invoice = log'[m].invoice => id = m
         /\ \A i \in D : /\ changes[i] \in Told /\ status[i] \notin Final \cup {"none"}
                         /\ status'[i] = changes[i]
         /\ \A i \in Invoices \ D : status'[i] = status[i]
         /\ status' \in [Invoices -> {"none", "pending"} \cup Told]
<1> DEFINE n == Cardinality(D)
<1>1. D \subseteq Invoices /\ n \in Nat
  BY CommitEmits DEF Polls
<1>2. \A i \in D : /\ changes[i] \in Told
                   /\ changes[i] \in Lifecycle!Successors(status[i])
                   /\ status'[i] = changes[i]
  BY <1>1 DEF Polls, Commit, Lifecycle!Move, Lifecycle!InFlight, Told, Final
<1>3. \A i \in D : status[i] \notin Final \cup {"none"}
  BY <1>2 DEF Lifecycle!Successors, Lifecycle!InFlight, Final
<1>4. status' = [i \in Invoices |-> IF i \in D THEN changes[i] ELSE status[i]]
  BY DEF Commit, Lifecycle!Move
<1>5. PICK order \in Bijection(1..n, D) :
        log' = log \o [k \in DOMAIN order |-> [invoice |-> order[k], status |-> changes[order[k]]]]
  BY DEF Commit, Logged
<1>6. /\ order \in [1..n -> D] /\ \A i \in D : \E k \in 1..n : order[k] = i
      /\ \A k, l \in 1..n : order[k] = order[l] => k = l
  BY <1>5 DEF Bijection, Injection, Surjection, IsInjective
<1> DEFINE new == [k \in 1..n |-> [invoice |-> order[k], status |-> changes[order[k]]]]
<1>7. new \in Seq(Entries) /\ Len(new) = n
  <2>1. \A k \in 1..n : new[k] \in Entries
    BY <1>1, <1>2, <1>6 DEF Entries
  <2> QED
    BY <1>1, <2>1
<1>8. log' = log \o new
  BY <1>5, <1>6
<1>9. log \in Seq(Entries) /\ Len(log) \in Nat
  BY DEF GInv, LogFits
<1>10. \A k \in 1..n : new[k].invoice = order[k] /\ new[k].status = changes[order[k]]
  OBVIOUS
<1> HIDE DEF new
<1>11. /\ log' \in Seq(Entries) /\ Len(log') = Len(log) + n
       /\ DOMAIN log = 1..Len(log) /\ DOMAIN log' = 1..(Len(log) + n)
       /\ \A id \in DOMAIN log : log'[id] = log[id]
       /\ \A id \in DOMAIN log' \ DOMAIN log : id - Len(log) \in 1..n /\ log'[id] = new[id - Len(log)]
       /\ \A k \in 1..n : Len(log) + k \in DOMAIN log' \ DOMAIN log /\ log'[Len(log) + k] = new[k]
  <2> HIDE DEF n
  <2> DEFINE E == Entries
  <2>1. log \in Seq(E) /\ new \in Seq(E) /\ Len(new) = n /\ n \in Nat
    BY <1>1, <1>7, <1>9
  <2>2. /\ log' \in Seq(E) /\ Len(log') = Len(log) + n
        /\ \A k \in 1..(Len(log) + n) : log'[k] = IF k <= Len(log) THEN log[k] ELSE new[k - Len(log)]
    <3> HIDE DEF E
    <3> QED
      BY <1>8, <2>1, ConcatProperties
  <2>3. DOMAIN log = 1..Len(log) /\ DOMAIN log' = 1..(Len(log) + n)
    BY <2>1, <2>2
  <2>4. \A id \in DOMAIN log' \ DOMAIN log :
          id - Len(log) \in 1..n /\ id \in 1..(Len(log) + n) /\ ~(id <= Len(log))
    BY <1>9, <2>1, <2>3
  <2>5. \A k \in 1..n :
          /\ Len(log) + k \in DOMAIN log' \ DOMAIN log /\ ~(Len(log) + k <= Len(log))
          /\ Len(log) + k \in 1..(Len(log) + n) /\ (Len(log) + k) - Len(log) = k
    BY <1>9, <2>1, <2>3
  <2>6. /\ \A id \in DOMAIN log : log'[id] = log[id]
        /\ \A id \in DOMAIN log' \ DOMAIN log : log'[id] = new[id - Len(log)]
        /\ \A k \in 1..n : log'[Len(log) + k] = new[k]
    <3>1. ASSUME NEW id \in DOMAIN log PROVE log'[id] = log[id]
      <4>1. id \in 1..(Len(log) + n) /\ id <= Len(log)
        BY <1>9, <2>1, <2>3
      <4> QED
        BY <2>2, <4>1, Zenon
    <3>2. ASSUME NEW id \in DOMAIN log' \ DOMAIN log PROVE log'[id] = new[id - Len(log)]
      BY <2>2, <2>4, <3>2, Zenon
    <3>3. ASSUME NEW k \in 1..n PROVE log'[Len(log) + k] = new[k]
      <4>1. log'[Len(log) + k] = new[(Len(log) + k) - Len(log)]
        BY <2>2, <2>5, <3>3, Zenon
      <4> QED
        BY <2>5, <4>1
    <3> QED
      BY <3>1, <3>2, <3>3, Zenon
  <2> QED
    BY <2>2, <2>3, <2>4, <2>5, <2>6
<1>12. \A id \in DOMAIN log' \ DOMAIN log :
         /\ log'[id].invoice = order[id - Len(log)]
         /\ log'[id].status = changes[order[id - Len(log)]]
         /\ order[id - Len(log)] \in D
         /\ \A m \in DOMAIN log : m < id
  <2> SUFFICES ASSUME NEW id \in DOMAIN log' \ DOMAIN log
               PROVE  /\ log'[id].invoice = order[id - Len(log)]
                      /\ log'[id].status = changes[order[id - Len(log)]]
                      /\ order[id - Len(log)] \in D
                      /\ \A m \in DOMAIN log : m < id
    BY Zenon
  <2> HIDE DEF n
  <2>1. id - Len(log) \in 1..n /\ log'[id] = new[id - Len(log)]
    BY <1>11
  <2>2. \A m \in DOMAIN log : m < id
    BY <1>1, <1>9, <1>11
  <2> QED
    BY <1>6, <1>10, <2>1, <2>2
<1>13. \A i \in D : \E id \in DOMAIN log' \ DOMAIN log : log'[id].invoice = i
  <2> SUFFICES ASSUME NEW i \in D PROVE \E id \in DOMAIN log' \ DOMAIN log : log'[id].invoice = i
    OBVIOUS
  <2>1. PICK k \in 1..n : order[k] = i
    BY <1>6
  <2> QED
    BY <1>10, <1>11, <2>1
<1>14. \A id, m \in DOMAIN log' \ DOMAIN log : log'[id].invoice = log'[m].invoice => id = m
  BY <1>6, <1>9, <1>11, <1>12
<1>15. status' \in [Invoices -> {"none", "pending"} \cup Told]
  BY <1>2, <1>4 DEF GInv, LogFits
<1>16. \A i \in Invoices \ D : status'[i] = status[i]
  BY <1>4
<1>17. \A id \in DOMAIN log : id \in DOMAIN log' /\ log'[id] = log[id]
  BY <1>1, <1>9, <1>11
<1>18. \A id \in DOMAIN log' \ DOMAIN log :
         /\ log'[id].invoice \in D /\ log'[id].status = changes[log'[id].invoice]
         /\ \A m \in DOMAIN log : m < id
  BY <1>12, Zenon
<1>19. \A i \in D : /\ changes[i] \in Told /\ status[i] \notin Final \cup {"none"}
                    /\ status'[i] = changes[i]
  BY <1>2, <1>3, Zenon
<1> QED
  BY <1>1, <1>9, <1>11, <1>13, <1>14, <1>15, <1>16, <1>17, <1>18, <1>19, Zenon

-----------------------------------------------------------------------------
(* Every step keeps the invariant *)

\* The invariant holds at first.
LEMMA GInitInv == GatewayInit => GInv
<1> SUFFICES ASSUME GatewayInit PROVE GInv
  OBVIOUS
<1>1. IInv
  BY InitInv DEF GatewayInit
<1>2. log = << >> /\ rows = << >> /\ taken = {} /\ status = [i \in Invoices |-> "none"]
  BY DEF GatewayInit, Init
<1> QED
  BY <1>1, <1>2 DEF GInv, LogFits, ChangesAreTold, LastIsStatus, EarlierIsOpen

\* So it does after a commit: what was the last event of an invoice that changes told of
\* nothing final, and the new event tells the new status.
LEMMA CommitInv ==
  ASSUME GInv, NEW changes \in Polls, Commit(changes)
  PROVE  LogFits' /\ ChangesAreTold' /\ LastIsStatus' /\ EarlierIsOpen'
<1> DEFINE D == DOMAIN changes
           new == DOMAIN log' \ DOMAIN log
<1>1. /\ D \subseteq Invoices
      /\ log' \in Seq(Entries) /\ Len(log') = Len(log) + Cardinality(D) /\ Len(log) \in Nat
      /\ \A id \in DOMAIN log : id \in DOMAIN log' /\ log'[id] = log[id]
      /\ \A id \in new :
           /\ log'[id].invoice \in D /\ log'[id].status = changes[log'[id].invoice]
           /\ \A m \in DOMAIN log : m < id
      /\ \A i \in D : \E id \in new : log'[id].invoice = i
      /\ \A id, m \in new : log'[id].invoice = log'[m].invoice => id = m
      /\ \A i \in D : /\ changes[i] \in Told /\ status[i] \notin Final \cup {"none"}
                      /\ status'[i] = changes[i]
      /\ \A i \in Invoices \ D : status'[i] = status[i]
      /\ status' \in [Invoices -> {"none", "pending"} \cup Told]
  BY CommitLogs
<1>2. /\ log \in Seq(Entries) /\ Len(log) = Len(rows) /\ taken \subseteq DOMAIN rows
      /\ status \in [Invoices -> {"none", "pending"} \cup Told]
  BY DEF GInv, LogFits
<1>3. \A id \in DOMAIN log : log[id].invoice \in Invoices /\ log[id].status \in Told
  BY EntryType DEF GInv
<1> HIDE DEF D
<1>4. \A id \in DOMAIN log' : id \in new \/ id \in DOMAIN log
  OBVIOUS
<1>5. \A id, m \in DOMAIN log' : id \in Nat /\ m \in Nat
  BY <1>1
<1>6. LogFits'
  <2>1. Emit(Cardinality(D)) /\ Cardinality(D) \in Nat
    BY CommitEmits DEF D
  <2>2. [k \in 1..Cardinality(D) |-> Fresh] \in Seq({Fresh})
        /\ Len([k \in 1..Cardinality(D) |-> Fresh]) = Cardinality(D)
    BY <2>1
  <2>3. rows \in Seq(Rows)
    BY DEF GInv, IInv, TypeOK
  <2>4. Len(rows') = Len(rows) + Cardinality(D) /\ DOMAIN rows \subseteq DOMAIN rows' /\ taken' = taken
    BY <2>1, <2>2, <2>3 DEF Emit
  <2> QED
    BY <1>1, <1>2, <2>4 DEF LogFits
<1>7. ChangesAreTold'
  <2> SUFFICES ASSUME NEW i \in Invoices
               PROVE  status'[i] \in {"none", "pending"} <=>
                        \A id \in DOMAIN log' : log'[id].invoice # i
    BY DEF ChangesAreTold
  <2>1. CASE i \in D
    <3>1. status'[i] \notin {"none", "pending"}
      BY <1>1, <2>1 DEF Told, Final
    <3> QED
      BY <1>1, <2>1, <3>1
  <2>2. CASE i \notin D
    <3>1. status'[i] = status[i]
      BY <1>1, <2>2
    <3>2. (\A id \in DOMAIN log' : log'[id].invoice # i) <=> \A id \in DOMAIN log : log[id].invoice # i
      <4>1. ASSUME NEW id \in DOMAIN log', log'[id].invoice = i PROVE id \in DOMAIN log
        BY <1>1, <2>2, <4>1
      <4> QED
        BY <1>1, <4>1
    <3> QED
      BY <3>1, <3>2 DEF GInv, ChangesAreTold
  <2> QED
    BY <2>1, <2>2
<1>8. LastIsStatus'
  <2> SUFFICES ASSUME NEW id \in DOMAIN log',
                      \A m \in DOMAIN log' : id < m => log'[m].invoice # log'[id].invoice
               PROVE  log'[id].status = status'[log'[id].invoice]
    BY DEF LastIsStatus
  <2>1. CASE id \in new
    BY <1>1, <2>1
  <2>2. CASE id \in DOMAIN log
    <3>1. log'[id] = log[id] /\ log[id].invoice \in Invoices
      BY <1>1, <1>3, <2>2
    <3>2. log[id].invoice \notin D
      BY <1>1, <2>2, <3>1
    <3>3. log[id].status = status[log[id].invoice]
      BY <1>1, <2>2, <3>1 DEF GInv, LastIsStatus
    <3> QED
      BY <1>1, <3>1, <3>2, <3>3
  <2> QED
    BY <1>4, <2>1, <2>2
<1>9. \A id \in DOMAIN log : log[id].invoice \in D => log[id].status \notin Final
  <2> SUFFICES ASSUME NEW id \in DOMAIN log, log[id].invoice \in D PROVE log[id].status \notin Final
    OBVIOUS
  <2>1. CASE \A m \in DOMAIN log : id < m => log[m].invoice # log[id].invoice
    BY <1>1, <2>1 DEF GInv, LastIsStatus
  <2>2. CASE \E m \in DOMAIN log : id < m /\ log[m].invoice = log[id].invoice
    BY <2>2 DEF GInv, EarlierIsOpen
  <2> QED
    BY <2>1, <2>2
<1>10. EarlierIsOpen'
  <2> SUFFICES ASSUME NEW id \in DOMAIN log', NEW m \in DOMAIN log', id < m,
                      log'[m].invoice = log'[id].invoice
               PROVE  log'[id].status \notin Final
    BY DEF EarlierIsOpen
  <2>1. id \in DOMAIN log
    <3>1. ~(m < id) /\ id # m
      BY <1>5
    <3>2. id \in new => m \in new
      BY <1>1, <1>4, <3>1, Zenon
    <3> QED
      BY <1>1, <1>4, <3>1, <3>2, Zenon
  <2>2. CASE m \in DOMAIN log
    BY <1>1, <2>1, <2>2 DEF GInv, EarlierIsOpen
  <2>3. CASE m \in new
    BY <1>1, <1>9, <2>1, <2>3
  <2> QED
    BY <1>4, <2>2, <2>3
<1> QED
  BY <1>6, <1>7, <1>8, <1>10

\* The sender's steps leave statuses and events alone, and take only what is there.
LEMMA SenderInv ==
  ASSUME GInv, UNCHANGED <<status, log>>, Len(rows') = Len(rows), rows' \in Seq(Rows),
         taken' \subseteq DOMAIN rows
  PROVE  LogFits' /\ ChangesAreTold' /\ LastIsStatus' /\ EarlierIsOpen'
<1>1. rows \in Seq(Rows)
  BY DEF GInv, IInv, TypeOK
<1>2. DOMAIN rows' = DOMAIN rows
  BY <1>1
<1> QED
  BY <1>2 DEF GInv, LogFits, ChangesAreTold, LastIsStatus, EarlierIsOpen

\* Every step keeps the invariant.
LEMMA GNextInv == GInv /\ [GatewayNext]_gatewayVars => GInv'
<1> SUFFICES ASSUME GInv, [GatewayNext]_gatewayVars PROVE GInv'
  OBVIOUS
<1>1. IInv'
  BY OutboxStep, NextInv DEF GInv
<1>2. /\ rows \in Seq(Rows) /\ rows' \in Seq(Rows) /\ DOMAIN batch \subseteq DOMAIN rows
      /\ taken \subseteq DOMAIN rows
  BY <1>1 DEF GInv, IInv, TypeOK, LogFits
<1>3. ASSUME NEW changes \in Polls, Commit(changes) PROVE GInv'
  BY <1>1, <1>3, CommitInv DEF GInv
<1>4. ASSUME NEW i \in Invoices, Create(i) PROVE GInv'
  <2>1. status[i] = "none" /\ status' = [status EXCEPT ![i] = "pending"] /\ UNCHANGED <<log, rows, taken>>
    BY <1>4 DEF Create, Lifecycle!Create, vars
  <2>2. /\ \A j \in Invoices : j # i => status'[j] = status[j]
        /\ status'[i] = "pending"
        /\ \A id \in DOMAIN log : log[id].invoice # i /\ log[id].invoice \in Invoices
    <3>1. \A id \in DOMAIN log : log[id].invoice # i /\ log[id].invoice \in Invoices
      BY <2>1, EntryType DEF GInv, ChangesAreTold
    <3>2. status \in [Invoices -> {"none", "pending"} \cup Told]
      BY DEF GInv, LogFits
    <3> QED
      BY <2>1, <3>1, <3>2
  <2>3. LogFits'
    BY <2>1 DEF GInv, LogFits
  <2>4. ChangesAreTold'
    BY <2>1, <2>2 DEF GInv, ChangesAreTold
  <2>5. LastIsStatus' /\ EarlierIsOpen'
    BY <2>1, <2>2 DEF GInv, LastIsStatus, EarlierIsOpen
  <2> QED
    BY <1>1, <2>3, <2>4, <2>5 DEF GInv
<1>5. ASSUME UNCHANGED <<status, log>>, Len(rows') = Len(rows), taken' \subseteq DOMAIN rows PROVE GInv'
  BY <1>1, <1>2, <1>5, SenderInv DEF GInv
<1>6. CASE Sender(Elapse)
  <2>1. DOMAIN rows' = DOMAIN rows /\ taken' = taken
    BY <1>6 DEF Sender, Elapse
  <2> QED
    BY <1>2, <1>5, <1>6, <2>1 DEF Sender
<1>7. CASE Sender(Read) \/ Sender(Interrupt) \/ UNCHANGED gatewayVars
  BY <1>2, <1>5, <1>7 DEF Sender, Read, Interrupt, gatewayVars, vars
<1>8. CASE Sender(Post)
  BY <1>2, <1>5, <1>8 DEF Sender, Post
<1>9. CASE Sender(Record)
  <2>1. DOMAIN rows' = DOMAIN rows /\ taken' = taken
    BY <1>9 DEF Sender, Record
  <2> QED
    BY <1>2, <1>5, <1>9, <2>1 DEF Sender
<1>10. ASSUME NEW id \in DOMAIN rows, Sender(Straggle(id)) PROVE GInv'
  BY <1>2, <1>5, <1>10 DEF Sender, Straggle
<1> QED
  BY <1>3, <1>4, <1>6, <1>7, <1>8, <1>9, <1>10 DEF GatewayNext

\* The strengthened invariant holds.
THEOREM GatewayInvariant == GatewaySpec => []GInv
BY GInitInv, GNextInv, PTL DEF GatewaySpec

-----------------------------------------------------------------------------
(* The theorems *)

\* The outbox beside the lifecycle is the outbox: what is proved of the sender alone
\* (OutboxProofs) holds of the gateway.
THEOREM GatewayImplementsOutbox == GatewaySpec => Spec
<1>1. GatewayInit => Init
  BY DEF GatewayInit
<1> QED
  BY <1>1, OutboxStep, GatewayInvariant, PTL DEF GatewaySpec, Spec

\* An event that the merchant has not heard of a status it does not know is in the outbox,
\* and not on record as delivered.
LEMMA LagKept == GInv => LagIsOnRecord
<1> SUFFICES ASSUME GInv, NEW i \in Invoices, status[i] \notin {"none", Believed(i)}
             PROVE  \E id \in DOMAIN log :
                      log[id] = [invoice |-> i, status |-> status[i]] /\ id \notin taken /\ ~rows[id].delivered
  BY DEF LagIsOnRecord
<1> DEFINE S == {id \in DOMAIN log : log[id].invoice = i}
<1>1. log \in Seq(Entries) /\ Len(log) \in Nat /\ Len(log) = Len(rows) /\ DOMAIN log = DOMAIN rows
  BY DEF GInv, LogFits, IInv, TypeOK
<1>2. S # {}
  <2> SUFFICES ASSUME S = {} PROVE FALSE
    OBVIOUS
  <2>1. status[i] \in {"none", "pending"}
    BY DEF GInv, ChangesAreTold
  <2>2. Heard(i) = {}
    BY DEF Heard
  <2> QED
    BY <2>1, <2>2 DEF Believed
<1>3. Max(S) \in S /\ \A y \in S : y <= Max(S)
  <2>1. S \in SUBSET (1..Len(log))
    BY <1>1
  <2> HIDE DEF S
  <2> QED
    BY <1>1, <1>2, <2>1, GreatestId
<1> DEFINE last == Max(S)
<1>4. last \in DOMAIN log /\ log[last].invoice = i /\ log[last] \in Entries
  BY <1>3, EntryType DEF GInv
<1>5. log[last].status = status[i]
  <2>1. \A m \in DOMAIN log : last < m => log[m].invoice # log[last].invoice
    <3>1. \A m \in DOMAIN log : m \in Nat
      BY <1>1
    <3>2. \A m \in S : m <= last
      BY <1>3
    <3>3. \A m \in DOMAIN log : log[m].invoice = i => m \in S
      OBVIOUS
    <3> HIDE DEF S, last
    <3> QED
      BY <1>4, <3>1, <3>2, <3>3
  <2> HIDE DEF last
  <2> QED
    BY <1>4, <2>1 DEF GInv, LastIsStatus
<1>6. log[last] = [invoice |-> i, status |-> status[i]]
  <2> HIDE DEF last
  <2> QED
    BY <1>4, <1>5 DEF Entries
<1>7. last \notin taken
  <2> SUFFICES ASSUME last \in taken PROVE FALSE
    OBVIOUS
  <2>1. last \in Heard(i) /\ Heard(i) \subseteq S /\ Heard(i) \in SUBSET (1..Len(log))
    BY <1>1, <1>4 DEF Heard
  <2>2. Max(Heard(i)) \in Heard(i) /\ \A y \in Heard(i) : y <= Max(Heard(i))
    BY <1>1, <2>1, GreatestId
  <2>3. Max(Heard(i)) \in S /\ last <= Max(Heard(i)) /\ Max(Heard(i)) <= last
    BY <1>3, <2>1, <2>2
  <2>4. Max(Heard(i)) = last
    <3>1. last \in Nat /\ Max(Heard(i)) \in Nat
      BY <1>1, <1>4, <2>1, <2>2
    <3> HIDE DEF last
    <3> QED
      BY <2>3, <3>1
  <2> QED
    BY <1>5, <2>1, <2>4 DEF Believed
<1>8. ~rows[last].delivered
  BY <1>1, <1>4, <1>7 DEF GInv, IInv, DeliveredWasTaken
<1> HIDE DEF last
<1> QED
  BY <1>4, <1>6, <1>7, <1>8

\* Where merchant and gateway differ, the outbox knows of it, whatever is late, lost or
\* repeated, for any number of invoices.
THEOREM LagCorrect == GatewaySpec => []LagIsOnRecord
BY LagKept, GatewayInvariant, PTL

\* What the merchant believes confirmed or expired is so: an event of something final is the
\* last of its invoice.
LEMMA BeliefKept == GInv => BelievesOnlyTheFinal
<1> SUFFICES ASSUME GInv, NEW i \in Invoices, Believed(i) \in Final
             PROVE  status[i] = Believed(i)
  BY DEF BelievesOnlyTheFinal, Final
<1>1. log \in Seq(Entries) /\ Len(log) \in Nat
  BY DEF GInv, LogFits
<1>2. Heard(i) # {} /\ Heard(i) \in SUBSET (1..Len(log))
  BY <1>1 DEF Heard, Believed, Final
<1> DEFINE h == Max(Heard(i))
<1>3. h \in Heard(i)
  BY <1>1, <1>2, GreatestId
<1>4. h \in DOMAIN log /\ log[h].invoice = i /\ log[h].status = Believed(i)
  BY <1>2, <1>3 DEF Heard, Believed
<1> HIDE DEF h
<1>5. \A m \in DOMAIN log : h < m => log[m].invoice # log[h].invoice
  BY <1>4 DEF GInv, EarlierIsOpen
<1> QED
  BY <1>4, <1>5 DEF GInv, LastIsStatus

\* A merchant who goes by the highest id is never told something final that is not so.
THEOREM BeliefCorrect == GatewaySpec => []BelievesOnlyTheFinal
BY BeliefKept, GatewayInvariant, PTL

-----------------------------------------------------------------------------
(* The log announces the lifecycle *)

\* How many of a set's ids come no later than id.
Rank(S, id) == Cardinality({m \in S : m <= id})

\* A set of the ids up to some id is finite.
LEMMA FiniteIds ==
  ASSUME NEW N \in Nat, NEW S \in SUBSET (1..N)
  PROVE  IsFiniteSet(S)
<1>1. IsFiniteSet(1..N)
  <2>1. 1 \in Int /\ N \in Int
    OBVIOUS
  <2> QED
    BY <2>1, FS_Interval
<1> QED
  BY <1>1, FS_Subset

\* Any number of ids up to all of them come no later than one of them.
LEMMA RankIsTaken ==
  ASSUME NEW N \in Nat, NEW S \in SUBSET (1..N), NEW k \in 1..Cardinality(S)
  PROVE  \E id \in S : Rank(S, id) = k
<1> DEFINE B == {s \in SUBSET S : \E n \in 1..Cardinality(s) : \A id \in s : Rank(s, id) # n}
<1>1. ASSUME B # {} PROVE FALSE
  <2>1. PICK s \in B : IsFiniteSet(s) /\ \A x \in s : s \ {x} \notin B
    <3>1. B \in SUBSET SUBSET S /\ IsFiniteSet(S)
      BY FiniteIds
    <3> HIDE DEF B
    <3> QED
      BY <1>1, <3>1, LeastSubset
  <2>2. PICK n \in 1..Cardinality(s) : \A id \in s : Rank(s, id) # n
    OBVIOUS
  <2>3. s \in SUBSET (1..N) /\ s \in SUBSET S
    OBVIOUS
  <2>4. s # {}
    BY <2>2, FS_EmptySet
  <2>5. Max(s) \in s /\ \A y \in s : y <= Max(s)
    BY <2>3, <2>4, GreatestId
  <2>6. PICK x \in s : \A y \in s : y <= x
    BY <2>5
  <2>7. /\ IsFiniteSet(s \ {x}) /\ Cardinality(s) \in Nat \ {0}
        /\ Cardinality(s \ {x}) \in Nat /\ Cardinality(s \ {x}) = Cardinality(s) - 1
    BY <2>1, Smaller
  <2>8. Rank(s, x) = Cardinality(s)
    <3>1. {m \in s : m <= x} = s
      BY <2>6
    <3> QED
      BY <3>1 DEF Rank
  <2>9. n \in 1..Cardinality(s \ {x})
    BY <2>2, <2>7, <2>8
  <2>10. PICK id \in s \ {x} : Rank(s \ {x}, id) = n
    <3>1. s \ {x} \notin B
      BY <2>1
    <3> QED
      BY <2>3, <2>9, <3>1
  <2>11. {m \in s : m <= id} = {m \in s \ {x} : m <= id}
    <3>1. id \in Int /\ x \in Int /\ id <= x /\ id # x
      BY <2>3, <2>6, <2>10
    <3> QED
      BY <3>1
  <2> QED
    BY <2>2, <2>10, <2>11 DEF Rank
<1> QED
  BY <1>1

\* A set's id of a rank.
RankedAt(S, n) == CHOOSE id \in S : Rank(S, id) = n

\* The ids of an invoice's events in a log, and what they tell, rank by rank.
IdsIn(L, i) == {id \in DOMAIN L : L[id].invoice = i}
ToldIn(L, i) == [n \in 1..Cardinality(IdsIn(L, i)) |-> L[RankedAt(IdsIn(L, i), n)].status]

\* The events of an invoice are what the log tells rank by rank, before a step and after it.
LEMMA EventsAreRanked ==
  ASSUME NEW i \in Invoices
  PROVE  EventsOf(i) = ToldIn(log, i) /\ EventsOf(i)' = ToldIn(log', i)
BY DEF EventsOf, ToldIn, IdsIn, RankedAt, Rank

\* An id above all others comes after them and changes none of their ranks.
LEMMA RanksExtend ==
  ASSUME NEW N \in Nat, NEW S \in SUBSET (1..N), NEW x \in Nat, x > N
  PROVE  /\ Cardinality(S \cup {x}) = Cardinality(S) + 1 /\ Cardinality(S) \in Nat
         /\ RankedAt(S \cup {x}, Cardinality(S) + 1) = x
         /\ \A n \in 1..Cardinality(S) : RankedAt(S \cup {x}, n) = RankedAt(S, n) /\ RankedAt(S, n) \in S
<1> DEFINE T == S \cup {x}
<1>1. IsFiniteSet(S) /\ Cardinality(S) \in Nat
  BY FiniteIds, FS_CardinalityType
<1>2. x \notin S /\ \A id \in S : id < x /\ id \in Nat
  OBVIOUS
<1>3. Cardinality(T) = Cardinality(S) + 1
  BY <1>1, <1>2, FS_AddElement
<1>4. Rank(T, x) = Cardinality(S) + 1
  <2>1. \A m \in T : m <= x
    BY <1>2
  <2>2. {m \in T : m <= x} = T
    BY <2>1
  <2> QED
    BY <1>3, <2>2 DEF Rank
<1>5. ASSUME NEW id \in S
      PROVE  Rank(T, id) = Rank(S, id) /\ Rank(S, id) \in Nat /\ Rank(S, id) <= Cardinality(S)
  <2>1. {m \in T : m <= id} = {m \in S : m <= id}
    BY <1>2
  <2>2. {m \in S : m <= id} \subseteq S
    OBVIOUS
  <2> QED
    BY <1>1, <2>1, <2>2, FS_Subset, FS_CardinalityType DEF Rank
<1>6. ASSUME NEW n \in 1..Cardinality(S)
      PROVE  RankedAt(T, n) = RankedAt(S, n) /\ RankedAt(S, n) \in S
  <2>0. Rank(T, x) # n
    <3> HIDE DEF T
    <3> QED
      BY <1>1, <1>4
  <2>1. \A id : (id \in T /\ Rank(T, id) = n) <=> (id \in S /\ Rank(S, id) = n)
    BY <1>5, <2>0
  <2>2. RankedAt(T, n) = RankedAt(S, n)
    <3> HIDE DEF T
    <3> QED
      BY <2>1, Zenon DEF RankedAt
  <2>3. \E id \in S : Rank(S, id) = n
    BY RankIsTaken
  <2> QED
    BY <2>2, <2>3 DEF RankedAt
<1>7. RankedAt(T, Cardinality(S) + 1) = x
  <2>1. \A id \in T : Rank(T, id) = Cardinality(S) + 1 <=> id = x
    BY <1>1, <1>4, <1>5
  <2>2. x \in T
    OBVIOUS
  <2> HIDE DEF T
  <2> QED
    BY <2>1, <2>2 DEF RankedAt
<1> QED
  BY <1>1, <1>3, <1>6, <1>7

\* Every row of a log tells of a status.
LEMMA TellsStatus ==
  ASSUME NEW L \in Seq(Entries), NEW id \in DOMAIN L
  PROVE  L[id].status \in Told
<1>1. L[id] \in Entries
  OBVIOUS
<1> QED
  BY <1>1 DEF Entries

\* A log that is longer by no event of an invoice tells the same of it.
LEMMA NothingAppended ==
  ASSUME NEW L \in Seq(Entries), NEW M \in Seq(Entries), NEW i \in Invoices,
         IdsIn(M, i) = IdsIn(L, i), \A id \in DOMAIN L : M[id] = L[id]
  PROVE  ToldIn(M, i) = ToldIn(L, i)
<1> DEFINE S == IdsIn(L, i)
<1>1. S \in SUBSET (1..Len(L)) /\ Len(L) \in Nat /\ S \subseteq DOMAIN L
  BY DEF IdsIn
<1>2. ASSUME NEW n \in 1..Cardinality(S) PROVE RankedAt(S, n) \in DOMAIN L
  <2> HIDE DEF S
  <2>1. \E id \in S : Rank(S, id) = n
    BY <1>1, RankIsTaken
  <2> QED
    BY <1>1, <2>1 DEF RankedAt
<1>3. \A n \in 1..Cardinality(S) : M[RankedAt(S, n)] = L[RankedAt(S, n)]
  BY <1>2
<1> QED
  BY <1>3 DEF ToldIn

\* A log that is longer by one event of an invoice tells that one last.
LEMMA OneAppended ==
  ASSUME NEW L \in Seq(Entries), NEW M \in Seq(Entries), NEW i \in Invoices, NEW x \in DOMAIN M,
         x > Len(L), IdsIn(M, i) = IdsIn(L, i) \cup {x}, \A id \in DOMAIN L : M[id] = L[id]
  PROVE  ToldIn(M, i) = Append(ToldIn(L, i), M[x].status)
<1> DEFINE S == IdsIn(L, i)
           T == IdsIn(M, i)
           c == Cardinality(S)
<1>1. S \in SUBSET (1..Len(L)) /\ Len(L) \in Nat /\ S \subseteq DOMAIN L /\ x \in Nat
  BY DEF IdsIn
<1>2. T = S \cup {x}
  OBVIOUS
<1>3. /\ Cardinality(T) = c + 1 /\ c \in Nat
      /\ RankedAt(T, c + 1) = x
      /\ \A n \in 1..c : RankedAt(T, n) = RankedAt(S, n) /\ RankedAt(S, n) \in S
  <2> HIDE DEF S, T
  <2>1. x > Len(L)
    OBVIOUS
  <2>2. /\ Cardinality(S \cup {x}) = Cardinality(S) + 1 /\ Cardinality(S) \in Nat
        /\ RankedAt(S \cup {x}, Cardinality(S) + 1) = x
        /\ \A n \in 1..Cardinality(S) :
             RankedAt(S \cup {x}, n) = RankedAt(S, n) /\ RankedAt(S, n) \in S
    BY <1>1, <2>1, RanksExtend
  <2> QED
    BY <1>2, <2>2
<1>4. \A n \in 1..c : M[RankedAt(T, n)].status = L[RankedAt(S, n)].status
  <2> HIDE DEF S, T, c
  <2> QED
    BY <1>1, <1>3
<1>5. ToldIn(L, i) = [n \in 1..c |-> L[RankedAt(S, n)].status]
  BY DEF ToldIn
<1>6. ToldIn(M, i) = [n \in 1..(c + 1) |-> M[RankedAt(T, n)].status]
  BY <1>3 DEF ToldIn
<1>7. \A n \in 1..c : L[RankedAt(S, n)].status \in Told
  <2>1. \A id \in DOMAIN L : L[id].status \in Told
    BY TellsStatus
  <2> HIDE DEF S, T, c
  <2> QED
    BY <1>1, <1>3, <2>1
<1>8. ToldIn(L, i) \in Seq(Told) /\ Len(ToldIn(L, i)) = c /\ M[x].status \in Told
  <2>1. M[x].status \in Told
    BY TellsStatus
  <2> HIDE DEF S, T, c
  <2> QED
    BY <1>3, <1>5, <1>7, <2>1
<1> HIDE DEF S, T, c
<1>9. Append(ToldIn(L, i), M[x].status)
        = [n \in 1..(c + 1) |-> IF n <= c THEN ToldIn(L, i)[n] ELSE M[x].status]
  BY <1>3, <1>8
<1>10. \A n \in 1..(c + 1) :
         M[RankedAt(T, n)].status = IF n <= c THEN ToldIn(L, i)[n] ELSE M[x].status
  <2> SUFFICES ASSUME NEW n \in 1..(c + 1)
               PROVE  M[RankedAt(T, n)].status = IF n <= c THEN ToldIn(L, i)[n] ELSE M[x].status
    OBVIOUS
  <2>1. CASE n \in 1..c
    BY <1>3, <1>4, <1>5, <2>1
  <2>2. CASE n = c + 1
    BY <1>3, <2>2
  <2> QED
    BY <1>3, <2>1, <2>2
<1> QED
  BY <1>6, <1>9, <1>10

\* A commit announces each change by one event more of its invoice, and nothing else.
LEMMA LogAnnounces ==
  ASSUME GInv, NEW changes \in Polls, Commit(changes), NEW i \in Invoices
  PROVE  EventsOf(i)' = IF i \in DOMAIN changes THEN Append(EventsOf(i), changes[i]) ELSE EventsOf(i)
<1> DEFINE D == DOMAIN changes
           new == DOMAIN log' \ DOMAIN log
<1>1. /\ log \in Seq(Entries) /\ Len(log) \in Nat /\ log' \in Seq(Entries)
      /\ \A id \in DOMAIN log : id \in DOMAIN log' /\ log'[id] = log[id]
      /\ \A id \in new : /\ log'[id].invoice \in D /\ log'[id].status = changes[log'[id].invoice]
      /\ \A j \in D : \E id \in new : log'[id].invoice = j
      /\ \A id, m \in new : log'[id].invoice = log'[m].invoice => id = m
  BY CommitLogs DEF GInv, LogFits
<1>2. EventsOf(i) = ToldIn(log, i) /\ EventsOf(i)' = ToldIn(log', i)
  BY EventsAreRanked
<1>3. CASE i \notin D
  <2>1. IdsIn(log', i) = IdsIn(log, i)
    BY <1>1, <1>3 DEF IdsIn
  <2>2. ToldIn(log', i) = ToldIn(log, i)
    BY <1>1, <2>1, NothingAppended
  <2> QED
    BY <1>2, <1>3, <2>2
<1>4. CASE i \in D
  <2>1. PICK x \in new : log'[x].invoice = i
    BY <1>1, <1>4
  <2>2. IdsIn(log', i) = IdsIn(log, i) \cup {x}
    BY <1>1, <2>1 DEF IdsIn
  <2>3. x \in DOMAIN log' /\ x > Len(log) /\ log'[x].status = changes[i]
    BY <1>1, <2>1
  <2>4. ToldIn(log', i) = Append(ToldIn(log, i), log'[x].status)
    BY <1>1, <2>2, <2>3, OneAppended
  <2> QED
    BY <1>2, <1>4, <2>3, <2>4
<1> QED
  BY <1>3, <1>4

\* A step that writes no event leaves what the log tells of an invoice alone.
LEMMA EventsStay ==
  ASSUME UNCHANGED log, NEW i \in Invoices
  PROVE  EventsOf(i)' = EventsOf(i)
BY EventsAreRanked

\* A commit is a poll of the lifecycle.
LEMMA CommitIsPoll ==
  ASSUME GInv, NEW changes \in Polls, Commit(changes)
  PROVE  Lifecycle!Poll(changes)
<1>1. Lifecycle!Move(changes)
  BY DEF Commit
<1>2. [i \in Invoices |-> EventsOf(i)]'
        = [i \in Invoices |-> IF i \in DOMAIN changes
                              THEN Append([j \in Invoices |-> EventsOf(j)][i], changes[i])
                              ELSE [j \in Invoices |-> EventsOf(j)][i]]
  BY LogAnnounces
<1> QED
  BY <1>1, <1>2 DEF Lifecycle!Poll

\* What the outbox writes is what the lifecycle promises: the composition implements it, the
\* rows of the events table being its announcements.
THEOREM GatewayImplementsLifecycle == GatewaySpec => Lifecycle!Spec
<1>1. GatewayInit => Lifecycle!Init
  <2> SUFFICES ASSUME GatewayInit PROVE Lifecycle!Init
    OBVIOUS
  <2>1. ASSUME NEW i \in Invoices PROVE EventsOf(i) = << >>
    <3>1. IdsIn(log, i) = {}
      BY DEF GatewayInit, IdsIn
    <3>2. Cardinality(IdsIn(log, i)) = 0
      BY <3>1, FS_EmptySet
    <3>3. ToldIn(log, i) = << >>
      BY <3>2 DEF ToldIn
    <3> QED
      BY <3>3, EventsAreRanked
  <2> QED
    BY <2>1 DEF GatewayInit, Lifecycle!Init
<1>2. GInv /\ [GatewayNext]_gatewayVars => [Lifecycle!Next]_(Lifecycle!vars)
  <2> SUFFICES ASSUME GInv, [GatewayNext]_gatewayVars
               PROVE  [Lifecycle!Next]_(Lifecycle!vars)
    OBVIOUS
  <2>1. ASSUME UNCHANGED log
        PROVE  UNCHANGED [i \in Invoices |-> EventsOf(i)]
    BY <2>1, EventsStay
  <2>2. ASSUME NEW i \in Invoices, Create(i) PROVE Lifecycle!Next
    BY <2>2 DEF Create, Lifecycle!Next
  <2>3. ASSUME NEW changes \in Polls, Commit(changes) PROVE Lifecycle!Next
    <3>1. Lifecycle!Poll(changes)
      BY <2>3, CommitIsPoll
    <3>2. PICK S \in SUBSET Invoices : changes \in [S -> Lifecycle!InFlight \cup {"confirmed", "expired"}]
      BY DEF Polls
    <3> QED
      BY <3>1, <3>2 DEF Lifecycle!Next
  <2>4. ASSUME UNCHANGED <<status, log>> PROVE UNCHANGED Lifecycle!vars
    BY <2>1, <2>4 DEF Lifecycle!vars
  <2> QED
    BY <2>2, <2>3, <2>4 DEF GatewayNext, Sender, gatewayVars
<1> QED
  BY <1>1, <1>2, GatewayInvariant, PTL DEF GatewaySpec, Lifecycle!Spec
=============================================================================
