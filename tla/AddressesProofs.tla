--------------------------- MODULE AddressesProofs --------------------------
(***************************************************************************)
(* What holds of the addresses for any number of requests, any range of    *)
(* the node and of the gateway, and any keypool: the proofs.               *)
(***************************************************************************)
EXTENDS Addresses, TLAPS, WellFoundedInduction

\* Requests are served while the gateway is up, and Open runs while it is opening.
Phases ==
  /\ \A r \in Requests : pc[r] # "idle" => running = "up"
  /\ pc[Opener] # "idle" => running = "opening"

\* What a process wants the node to watch includes the index it has taken.
Goals ==
  \A p \in Processes : pc[p] \in {"read", "import", "reread"} =>
    goal[p] >= 1 /\ (p \in Requests => index[p] < goal[p])

\* Below an index that a request has taken nothing is missing.
TakenLeavesNoGap ==
  \A r \in Requests : pc[r] # "idle" =>
    \A n \in 0..(index[r] - 1) : \E l \in DOMAIN stored : stored[l].index = n

\* What holds whatever the descriptors are.
Books ==
  /\ TypeOK /\ Phases /\ Goals
  /\ AddressesDiffer /\ IndexesHaveNoGaps /\ TakenLeavesNoGap

OneDescriptor == \A d, e \in Descriptors : d = e

\* What a process has been told, or has made sure of, is true of the node.
ToldIsWatched ==
  /\ \A p \in Processes : pc[p] = "reread" => goal[p] <= watched[descriptor]
  /\ \A r \in Requests : pc[r] = "store" => index[r] <= watched[descriptor]

\* What holds of the node as long as the descriptor stays the same.
Watching == HandedOutIsWatched /\ GapEndIsWatched /\ ToldIsWatched

-----------------------------------------------------------------------------
(* Numbers *)

\* A set of numbers up to N, with something in it, has a greatest one: the least of
\* the distances from N belongs to it.
LEMMA Greatest ==
  ASSUME NEW N \in Nat, NEW S \in SUBSET (-1..N), S # {}
  PROVE  Max(S) \in S /\ \A y \in S : y <= Max(S)
<1> DEFINE T == {N - x : x \in S}
           R == OpToRel(<, Nat)
<1>0. \A x \in S : x \in Int /\ x <= N
  OBVIOUS
<1>1. T \subseteq Nat /\ T # {}
  <2>1. \A x \in S : N - x \in Nat
    BY <1>0
  <2> QED
    BY <2>1
<1>2. IsWellFoundedOn(R, Nat)
  BY NatLessThanWellFounded
<1>3. \E x \in T : \A y \in T : ~(<<y, x>> \in R)
  <2> HIDE DEF T, R
  <2> QED
    BY <1>1, <1>2, WFMin
<1>4. \A x, y \in Nat : <<y, x>> \in R <=> y < x
  BY DEF OpToRel
<1>5. PICK x \in S : \A y \in S : ~(N - y < N - x)
  <2>1. PICK x \in S : \A y \in T : ~(<<y, N - x>> \in R)
    BY <1>3
  <2>2. \A y \in S : N - y \in Nat /\ N - y \in T
    BY <1>1
  <2> QED
    <3> HIDE DEF R, T
    <3> QED
      BY <1>4, <2>1, <2>2
<1>6. \A y \in S : x >= y
  BY <1>0, <1>5
<1> QED
  BY <1>0, <1>6 DEF Max
\* The greater of two numbers.
LEMMA GreaterOfTwo ==
  ASSUME NEW a \in Int, NEW b \in Int
  PROVE  Max({a, b}) \in {a, b} /\ Max({a, b}) >= a /\ Max({a, b}) >= b
<1>1. \E x \in {a, b} : \A y \in {a, b} : x >= y
  OBVIOUS
<1> QED
  BY <1>1 DEF Max

\* The range asked for an index that is not inside the last one includes it.
LEMMA GoalAbove ==
  ASSUME gapEnd \in Nat, NEW n \in Nat, n >= gapEnd
  PROVE  Goal(n) \in Nat /\ n < Goal(n)
<1>1. Step \in Nat \ {0}
  BY RangeAssumption
<1>2. (n - gapEnd) \div Step \in Nat
  BY <1>1
<1>3. Step * (1 + (n - gapEnd) \div Step) \in Nat
  BY <1>1, <1>2
<1>4. gapEnd + Step * (1 + (n - gapEnd) \div Step) > n
  BY <1>1, SMT
<1> QED
  BY <1>3, <1>4 DEF Goal

\* The node's range end is a number.
LEMMA RangeEndType == ASSUME TypeOK PROVE ActiveRangeEnd \in Nat
BY DEF TypeOK, ActiveRangeEnd

\* A row of the table is an address.
LEMMA StoredType ==
  ASSUME TypeOK, NEW k \in DOMAIN stored
  PROVE  stored[k].index \in 0..MaxIndex /\ stored[k].descriptor \in Descriptors
<1> DEFINE A == [descriptor : Descriptors, index : 0..MaxIndex]
<1>1. stored \in Seq(A)
  BY DEF TypeOK
<1>2. stored[k] \in A
  <2> HIDE DEF A
  <2> QED
    BY <1>1
<1> QED
  BY <1>2

\* The next index is a number and everything below it is in the table.
LEMMA NextIndexType ==
  ASSUME TypeOK, IndexesHaveNoGaps
  PROVE  /\ NextIndex \in Nat
         /\ \A n \in 0..(NextIndex - 1) : \E l \in DOMAIN stored : stored[l].index = n
<1> DEFINE S == {-1} \cup {stored[k].index : k \in DOMAIN stored}
<1>1. MaxIndex \in Nat
  BY RangeAssumption
<1>2. \A k \in DOMAIN stored : stored[k].index \in 0..MaxIndex
  BY StoredType
<1>3. S \in SUBSET (-1..MaxIndex) /\ S # {}
  BY <1>1, <1>2
<1>4. Max(S) \in S
  <2> HIDE DEF S
  <2> QED
    BY <1>1, <1>3, Greatest
<1>5. CASE Max(S) = -1
  <2>1. NextIndex = 0
    BY <1>5 DEF NextIndex
  <2> QED
    BY <2>1
<1>6. CASE \E k \in DOMAIN stored : Max(S) = stored[k].index
  <2>1. PICK k \in DOMAIN stored : Max(S) = stored[k].index
    BY <1>6
  <2>2. NextIndex = stored[k].index + 1 /\ stored[k].index \in Nat
    BY <1>2, <2>1 DEF NextIndex
  <2> QED
    BY <2>2 DEF IndexesHaveNoGaps
<1> QED
  BY <1>4, <1>5, <1>6

-----------------------------------------------------------------------------
(* What holds whatever the descriptors are *)

\* The books are in order at first.
LEMMA InitBooks == Init => Books
BY NameAssumption, RangeAssumption
DEF Init, Books, TypeOK, Phases, Goals, AddressesDiffer, IndexesHaveNoGaps, TakenLeavesNoGap, Processes

\* A process that gives up leaves the books in order.
LEMMA GiveUpBooks ==
  ASSUME Books, NEW p \in Processes, pc[p] # "idle", GiveUp(p), UNCHANGED index,
         active' \in Descriptors \cup {Nobody}, watched' \in [Descriptors -> Int]
  PROVE  Books'
<1> USE NameAssumption DEF Books, GiveUp, Processes
<1>1. TypeOK'
  BY DEF TypeOK
<1>2. /\ pc'[p] = "idle"
      /\ \A q \in Processes \ {p} : pc'[q] = pc[q]
  BY DEF TypeOK
<1>3. Phases'
  BY <1>2 DEF Phases
<1>4. Goals'
  BY <1>2 DEF Goals
<1>5. AddressesDiffer' /\ IndexesHaveNoGaps' /\ TakenLeavesNoGap'
  BY <1>2 DEF AddressesDiffer, IndexesHaveNoGaps, TakenLeavesNoGap
<1> QED
  BY <1>1, <1>3, <1>4, <1>5

\* A process that is through with cover leaves the books in order.
LEMMA FinishBooks ==
  ASSUME Books, NEW p \in Processes, pc[p] # "idle", NEW end \in Nat, Finish(p, end),
         UNCHANGED <<nodeVars, index, goal, stored>>
  PROVE  Books'
<1> USE NameAssumption DEF Books, Finish, Processes, nodeVars
<1>1. TypeOK'
  BY DEF TypeOK
<1>2. /\ pc'[p] = IF p = Opener THEN "idle" ELSE "store"
      /\ \A q \in Processes \ {p} : pc'[q] = pc[q]
  BY DEF TypeOK
<1>3. Phases'
  BY <1>2 DEF Phases
<1>4. Goals'
  BY <1>2 DEF Goals
<1>5. AddressesDiffer' /\ IndexesHaveNoGaps' /\ TakenLeavesNoGap'
  BY <1>2 DEF AddressesDiffer, IndexesHaveNoGaps, TakenLeavesNoGap
<1> QED
  BY <1>1, <1>3, <1>4, <1>5

\* wallet.Open leaves the books in order.
LEMMA StartBooks == ASSUME Books, NEW d \in Descriptors, Start(d) PROVE Books'
<1> USE NameAssumption, RangeAssumption DEF Books, Start, Processes, nodeVars
<1>1. TypeOK'
  BY DEF TypeOK
<1>2. /\ pc'[Opener] = "read" /\ goal'[Opener] = Step
      /\ \A r \in Requests : pc'[r] = pc[r] /\ goal'[r] = goal[r]
  BY DEF TypeOK
<1>3. Phases' /\ Goals'
  BY <1>2 DEF Phases, Goals
<1>4. AddressesDiffer' /\ IndexesHaveNoGaps' /\ TakenLeavesNoGap'
  BY <1>2 DEF AddressesDiffer, IndexesHaveNoGaps, TakenLeavesNoGap
<1> QED
  BY <1>1, <1>3, <1>4

\* Taking an index leaves them in order: below the next one nothing is missing.
LEMMA AllocateBooks == ASSUME Books, NEW r \in Requests, Allocate(r) PROVE Books'
<1> USE NameAssumption, RangeAssumption DEF Books, Allocate, Processes, nodeVars, walletVars
<1>1. /\ NextIndex \in 0..MaxIndex
      /\ \A n \in 0..(NextIndex - 1) : \E l \in DOMAIN stored : stored[l].index = n
  BY NextIndexType
<1>2. TypeOK'
  BY <1>1 DEF TypeOK
<1>3. /\ pc'[r] = "lock" /\ index'[r] = NextIndex
      /\ \A p \in Processes \ {r} : pc'[p] = pc[p]
      /\ \A q \in Requests \ {r} : index'[q] = index[q]
  BY DEF TypeOK
<1>4. Phases' /\ Goals'
  BY <1>3 DEF Phases, Goals
<1>5. AddressesDiffer' /\ IndexesHaveNoGaps' /\ TakenLeavesNoGap'
  <2> HIDE DEF NextIndex
  <2> QED
    BY <1>1, <1>3 DEF AddressesDiffer, IndexesHaveNoGaps, TakenLeavesNoGap
<1> QED
  BY <1>2, <1>4, <1>5

\* ensureWatched leaves them in order: what it goes on to ask for includes the index.
LEMMA EnsureWatchedBooks == ASSUME Books, NEW r \in Requests, EnsureWatched(r) PROVE Books'
<1> USE NameAssumption DEF Books, EnsureWatched, Processes, nodeVars
<1>1. index[r] \in Nat /\ gapEnd \in Nat
  BY RangeAssumption DEF TypeOK
<1>2. index[r] >= gapEnd => Goal(index[r]) \in Nat /\ index[r] < Goal(index[r])
  BY <1>1, GoalAbove
<1>3. /\ \A p \in Processes \ {r} : pc'[p] = pc[p] /\ goal'[p] = goal[p]
      /\ \/ pc'[r] = "store" /\ UNCHANGED <<mu, goal>>
         \/ pc'[r] = "read" /\ goal'[r] = Goal(index[r]) /\ mu' = r /\ index[r] >= gapEnd
      /\ pc[r] # "idle" /\ UNCHANGED <<running, index, stored>>
  BY DEF TypeOK
<1>4. TypeOK'
  <2>1. goal' \in [Processes -> Nat]
    BY <1>2 DEF TypeOK
  <2>2. pc' \in [Processes -> {"idle", "lock", "read", "import", "reread", "store"}]
    BY DEF TypeOK
  <2>3. mu' \in Requests \cup {Nobody}
    BY DEF TypeOK
  <2> QED
    BY <2>1, <2>2, <2>3 DEF TypeOK
<1> HIDE DEF EnsureWatched
<1>5. Phases' /\ Goals'
  BY <1>1, <1>2, <1>3 DEF Phases, Goals
<1>6. AddressesDiffer' /\ IndexesHaveNoGaps' /\ TakenLeavesNoGap'
  BY <1>3 DEF AddressesDiffer, IndexesHaveNoGaps, TakenLeavesNoGap
<1> QED
  BY <1>4, <1>5, <1>6

\* The question how far the node watches leaves them in order.
LEMMA ReadRangeBooks == ASSUME Books, NEW p \in Processes, ReadRange(p) PROVE Books'
<1>1. CASE Covers(p) /\ Finish(p, ActiveRangeEnd)
  BY <1>1, RangeEndType, FinishBooks DEF ReadRange, Books
<1>2. CASE ~Covers(p)
  <2> USE NameAssumption DEF Books, ReadRange, Processes, nodeVars, walletVars
  <2>1. /\ pc[p] = "read" /\ pc'[p] = "import"
        /\ \A q \in Processes \ {p} : pc'[q] = pc[q]
        /\ UNCHANGED <<nodeVars, walletVars, index, goal, stored>>
    BY <1>2 DEF TypeOK
  <2>2. TypeOK'
    BY <1>2 DEF TypeOK
  <2>3. Phases' /\ Goals'
    BY <2>1 DEF Phases, Goals
  <2>4. AddressesDiffer' /\ IndexesHaveNoGaps' /\ TakenLeavesNoGap'
    BY <2>1 DEF AddressesDiffer, IndexesHaveNoGaps, TakenLeavesNoGap
  <2> QED
    BY <2>2, <2>3, <2>4
<1> QED
  BY <1>1, <1>2 DEF ReadRange

\* What an import makes of the node's range.
LEMMA ImportedRange ==
  ASSUME TypeOK, NEW p \in Processes, Import(p)
  PROVE  /\ watched' \in [Descriptors -> Int] /\ active' \in Descriptors \cup {Nobody}
         /\ goal[p] <= watched'[descriptor]
         /\ \A d \in Descriptors : watched[d] <= watched'[d]
<1>1. goal[p] \in Int /\ Keypool - 1 \in Int /\ descriptor \in Descriptors
      /\ watched \in [Descriptors -> Int]
  BY RangeAssumption DEF TypeOK
<1> DEFINE end == Max({goal[p], Keypool - 1})
<1>2. end \in Int /\ end >= goal[p]
  BY <1>1, GreaterOfTwo
<1>3. watched' = [watched EXCEPT ![descriptor] = end] /\ active' = descriptor
  BY DEF Import
<1>4. watched[descriptor] < 0 \/ watched[descriptor] <= goal[p] \/ goal[p] < 0
  BY <1>1 DEF Import, Refused, ImportFrom
<1>5. goal[p] >= 0
  BY DEF TypeOK
<1> HIDE DEF end
<1> QED
  BY <1>1, <1>2, <1>3, <1>4, <1>5

\* An import leaves them in order, whether its answer arrives or not.
LEMMA ImportBooks == ASSUME Books, NEW p \in Processes, Import(p) PROVE Books'
<1>1. watched' \in [Descriptors -> Int] /\ active' \in Descriptors \cup {Nobody}
  BY ImportedRange DEF Books
<1>2. pc[p] = "import" /\ UNCHANGED index
  BY DEF Import
<1>3. CASE GiveUp(p)
  BY <1>1, <1>2, <1>3, GiveUpBooks
<1>4. CASE pc' = [pc EXCEPT ![p] = "reread"] /\ UNCHANGED <<walletVars, goal, stored>>
  <2> USE NameAssumption DEF Books, Processes, walletVars
  <2>1. pc'[p] = "reread" /\ \A q \in Processes \ {p} : pc'[q] = pc[q]
    BY <1>4 DEF TypeOK
  <2>2. TypeOK'
    BY <1>1, <1>2, <1>4 DEF TypeOK
  <2>3. Phases' /\ Goals'
    BY <1>2, <1>4, <2>1 DEF Phases, Goals
  <2>4. AddressesDiffer' /\ IndexesHaveNoGaps' /\ TakenLeavesNoGap'
    BY <1>2, <1>4, <2>1 DEF AddressesDiffer, IndexesHaveNoGaps, TakenLeavesNoGap
  <2> QED
    BY <2>2, <2>3, <2>4
<1> QED
  BY <1>3, <1>4 DEF Import

\* A call that fails or is refused leaves them in order.
LEMMA FailBooks ==
  ASSUME Books, NEW p \in Processes, Fail(p) \/ ImportRefused(p) PROVE Books'
BY GiveUpBooks DEF Fail, ImportRefused, Books, TypeOK, nodeVars

\* The end that cover makes do with.
LEMMA RereadEnd ==
  ASSUME TypeOK, NEW p \in Processes, Reread(p)
  PROVE  \E end \in Nat : /\ Finish(p, end) /\ end \in {goal[p], ActiveRangeEnd}
                          /\ goal[p] <= end
<1>1. goal[p] \in Nat /\ ActiveRangeEnd \in Nat
  BY RangeEndType DEF TypeOK
<1>2. PICK end \in {goal[p], Max({goal[p], ActiveRangeEnd})} : Finish(p, end)
  BY DEF Reread
<1>3. end \in {goal[p], ActiveRangeEnd} /\ goal[p] <= end
  BY <1>1, <1>2, GreaterOfTwo
<1> QED
  BY <1>1, <1>2, <1>3

\* The second look at the range leaves them in order.
LEMMA RereadBooks == ASSUME Books, NEW p \in Processes, Reread(p) PROVE Books'
<1>1. PICK end \in Nat : Finish(p, end)
  BY RereadEnd DEF Books
<1> QED
  BY <1>1, FinishBooks DEF Reread

\* What the insert makes of the table.
LEMMA InsertedRow ==
  ASSUME TypeOK, NEW r \in Requests, StoreInvoice(r)
  PROVE  LET a == Addr(descriptor, index[r])
         IN  /\ stored' \in Seq([descriptor : Descriptors, index : 0..MaxIndex])
             /\ \/ IsStored(a) /\ stored' = stored
                \/ /\ ~IsStored(a)
                   /\ DOMAIN stored' = DOMAIN stored \cup {Len(stored) + 1}
                   /\ stored'[Len(stored) + 1] = a
             /\ \A k \in DOMAIN stored : k \in DOMAIN stored' /\ stored'[k] = stored[k]
<1> DEFINE a == Addr(descriptor, index[r])
           A == [descriptor : Descriptors, index : 0..MaxIndex]
<1>1. a \in A
  BY DEF TypeOK, Addr
<1>2. stored \in Seq(A) /\ stored' = IF IsStored(a) THEN stored ELSE Append(stored, a)
  BY DEF TypeOK, StoreInvoice, Inserted
<1> HIDE DEF a, A
<1>3. /\ stored' \in Seq(A)
      /\ \/ IsStored(a) /\ stored' = stored
         \/ /\ ~IsStored(a)
            /\ DOMAIN stored' = DOMAIN stored \cup {Len(stored) + 1}
            /\ stored'[Len(stored) + 1] = a
      /\ \A k \in DOMAIN stored : k \in DOMAIN stored' /\ stored'[k] = stored[k]
  BY <1>1, <1>2
<1> QED
  BY <1>3 DEF a, A

\* The insert leaves them in order: it adds an address once, and the next one of its line.
LEMMA StoreInvoiceBooks == ASSUME Books, NEW r \in Requests, StoreInvoice(r) PROVE Books'
<1> DEFINE a == Addr(descriptor, index[r])
           new == Len(stored) + 1
<1>1. /\ stored' \in Seq([descriptor : Descriptors, index : 0..MaxIndex])
      /\ \/ IsStored(a) /\ stored' = stored
         \/ /\ ~IsStored(a)
            /\ DOMAIN stored' = DOMAIN stored \cup {new}
            /\ stored'[new] = a
      /\ \A k \in DOMAIN stored : k \in DOMAIN stored' /\ stored'[k] = stored[k]
  BY InsertedRow DEF Books
<1>2. a.index = index[r] /\ index[r] \in Nat
  BY RangeAssumption DEF Addr, Books, TypeOK
<1>3. /\ pc[r] = "store" /\ pc'[r] = "idle"
      /\ \A p \in Processes \ {r} : pc'[p] = pc[p]
      /\ UNCHANGED <<nodeVars, walletVars, index, goal>>
  BY NameAssumption DEF StoreInvoice, Books, TypeOK, Processes
<1>4. TypeOK'
  BY <1>1 DEF StoreInvoice, Books, TypeOK, Processes, nodeVars, walletVars
<1>5. Phases' /\ Goals'
  BY <1>3, NameAssumption DEF Books, Phases, Goals, Processes, walletVars
<1> HIDE DEF a, new
<1>6. AddressesDiffer'
  BY <1>1 DEF Books, AddressesDiffer, IsStored
<1>7. \A n \in 0..(index[r] - 1) : \E l \in DOMAIN stored : stored[l].index = n
  BY <1>3 DEF Books, TakenLeavesNoGap
<1>8. IndexesHaveNoGaps'
  <2> SUFFICES ASSUME NEW k \in DOMAIN stored', NEW n \in 0..stored'[k].index
               PROVE  \E l \in DOMAIN stored' : stored'[l].index = n
    BY DEF IndexesHaveNoGaps
  <2>1. CASE k \in DOMAIN stored
    BY <1>1, <2>1 DEF Books, IndexesHaveNoGaps
  <2>2. CASE k = new /\ stored'[new] = a /\ n = index[r]
    BY <1>2, <2>2
  <2>3. CASE k = new /\ stored'[new] = a /\ n # index[r]
    <3>1. n \in 0..(index[r] - 1)
      BY <1>2, <2>3
    <3> QED
      BY <1>1, <1>7, <3>1
  <2> QED
    BY <1>1, <2>1, <2>2, <2>3
<1>9. TakenLeavesNoGap'
  BY <1>1, <1>3 DEF Books, TakenLeavesNoGap, Processes
<1> QED
  BY <1>4, <1>5, <1>6, <1>8, <1>9 DEF Books

\* A stop of the process leaves them in order.
LEMMA CrashBooks == ASSUME Books, Crash PROVE Books'
BY DEF Books, Crash, TypeOK, Phases, Goals, AddressesDiffer, IndexesHaveNoGaps, TakenLeavesNoGap,
       Processes, nodeVars

\* A top-up only ever widens what the node watches.
LEMMA ToppedUp ==
  ASSUME TypeOK, TopUp
  PROVE  /\ watched' \in [Descriptors -> Int]
         /\ \A d \in Descriptors : watched[d] <= watched'[d]
<1>1. active \in Descriptors /\ watched \in [Descriptors -> Int]
  BY DEF TypeOK, TopUp
<1>2. PICK n \in 0..watched[active] :
        watched[active] < n + Keypool /\ watched' = [watched EXCEPT ![active] = n + Keypool]
  BY DEF TopUp
<1>3. n + Keypool \in Int
  BY <1>1, <1>2, RangeAssumption
<1> QED
  BY <1>1, <1>2, <1>3

\* A top-up of the keypool leaves them in order.
LEMMA TopUpBooks == ASSUME Books, TopUp PROVE Books'
<1>1. watched' \in [Descriptors -> Int]
  BY ToppedUp DEF Books
<1> QED
  BY <1>1 DEF Books, TopUp, TypeOK, Phases, Goals, AddressesDiffer, IndexesHaveNoGaps, TakenLeavesNoGap,
       walletVars

\* So does every step.
LEMMA NextBooks == Books /\ [Next]_vars => Books'
<1>1. Books /\ UNCHANGED vars => Books'
  BY DEF Books, vars, nodeVars, walletVars, TypeOK, Phases, Goals, AddressesDiffer, IndexesHaveNoGaps,
         TakenLeavesNoGap
<1> QED
  BY <1>1, StartBooks, AllocateBooks, EnsureWatchedBooks, ReadRangeBooks, ImportBooks, FailBooks, RereadBooks,
     StoreInvoiceBooks, CrashBooks, TopUpBooks DEF Next

\* The strengthened invariant of the books holds.
THEOREM BooksCorrect == Spec => []Books
BY InitBooks, NextBooks, PTL DEF Spec

-----------------------------------------------------------------------------
(* What holds of the node as long as the descriptor stays the same *)

\* With one descriptor what counts is how far the node watches that one.
LEMMA OneRange ==
  ASSUME OneDescriptor, TypeOK
  PROVE  /\ descriptor' \in Descriptors => descriptor' = descriptor
         /\ active \in Descriptors => active = descriptor
         /\ \A k \in DOMAIN stored : stored[k].descriptor = descriptor
         /\ ActiveRangeEnd # 0 => ActiveRangeEnd = watched[descriptor]
BY StoredType DEF OneDescriptor, TypeOK, ActiveRangeEnd

\* The node never forgets what it watches, so it is enough to look at what a step adds.
LEMMA StillWatching ==
  ASSUME OneDescriptor, Books, Books', Watching,
         \A d \in Descriptors : watched[d] <= watched'[d],
         \A k \in DOMAIN stored' : \/ k \in DOMAIN stored /\ stored'[k] = stored[k]
                                  \/ stored'[k].index <= watched[descriptor],
         running' = "up" => gapEnd' <= watched'[descriptor],
         \A p \in Processes : pc'[p] = "reread" => goal'[p] <= watched'[descriptor],
         \A r \in Requests : pc'[r] = "store" => index'[r] <= watched'[descriptor]
  PROVE  Watching'
<1>1. descriptor' = descriptor /\ descriptor \in Descriptors
  BY OneRange DEF Books, TypeOK
<1>2. /\ watched \in [Descriptors -> Int] /\ watched' \in [Descriptors -> Int]
  BY DEF Books, TypeOK
<1>3. GapEndIsWatched' /\ ToldIsWatched'
  BY <1>1 DEF GapEndIsWatched, ToldIsWatched
<1>4. ASSUME NEW k \in DOMAIN stored'
      PROVE  stored'[k].index <= watched'[stored'[k].descriptor]
  <2>1. stored'[k].descriptor = descriptor /\ stored'[k].index \in Int
    <3> DEFINE A == [descriptor : Descriptors, index : 0..MaxIndex]
    <3>1. stored' \in Seq(A)
      BY DEF Books, TypeOK
    <3>2. stored'[k] \in A
      <4> HIDE DEF A
      <4> QED
        BY <3>1
    <3>3. stored'[k].descriptor \in Descriptors /\ stored'[k].index \in 0..MaxIndex
      BY <3>2
    <3> QED
      BY <1>1, <3>3, RangeAssumption DEF OneDescriptor
  <2>2. stored'[k].index <= watched[descriptor]
    BY <2>1, <1>4 DEF Watching, HandedOutIsWatched
  <2> QED
    BY <1>1, <1>2, <2>1, <2>2
<1> QED
  BY <1>3, <1>4 DEF Watching, HandedOutIsWatched

\* Every step keeps what the gateway believes of the node true.
LEMMA NextWatching ==
  ASSUME OneDescriptor
  PROVE  Books /\ Books' /\ Watching /\ [Next]_vars => Watching'
<1> SUFFICES ASSUME Books, Books', Watching, [Next]_vars PROVE Watching'
  OBVIOUS
<1>1. /\ TypeOK /\ Phases /\ Goals /\ HandedOutIsWatched /\ GapEndIsWatched /\ ToldIsWatched
      /\ descriptor \in Descriptors /\ watched \in [Descriptors -> Int] /\ gapEnd \in Nat
      /\ pc \in [Processes -> {"idle", "lock", "read", "import", "reread", "store"}]
      /\ index \in [Requests -> 0..MaxIndex] /\ goal \in [Processes -> Nat]
      /\ Requests \subseteq Processes /\ Opener \in Processes /\ Opener \notin Requests
  BY NameAssumption DEF Books, Watching, TypeOK, Processes
<1>2. /\ \A p \in Processes : pc[p] = "reread" => goal[p] <= watched[descriptor]
      /\ \A r \in Requests : pc[r] = "store" => index[r] <= watched[descriptor]
      /\ running = "up" => gapEnd <= watched[descriptor]
  BY <1>1 DEF ToldIsWatched, GapEndIsWatched
\* What a process that gives up leaves alone, if the node forgets nothing.
<1>3. ASSUME NEW p \in Processes, GiveUp(p), UNCHANGED index,
             watched' \in [Descriptors -> Int],
             \A d \in Descriptors : watched[d] <= watched'[d]
      PROVE  Watching'
  <2>1. /\ UNCHANGED <<gapEnd, goal, stored, index>> /\ (running' = "up" => running = "up")
        /\ \A q \in Processes : pc'[q] \in {"idle", pc[q]}
    BY <1>1, <1>3 DEF GiveUp
  <2>2. watched[descriptor] <= watched'[descriptor] /\ watched'[descriptor] \in Int
        /\ watched[descriptor] \in Int
    BY <1>1, <1>3
  <2>3. \A r \in Requests : index[r] \in Int
    BY <1>1, RangeAssumption
  <2>4. running' = "up" => gapEnd' <= watched'[descriptor]
    BY <1>1, <1>2, <2>1, <2>2
  <2>5. \A q \in Processes : pc'[q] = "reread" => goal'[q] <= watched'[descriptor]
    BY <1>1, <1>2, <2>1, <2>2
  <2>6. \A r \in Requests : pc'[r] = "store" => index'[r] <= watched'[descriptor]
    BY <1>1, <1>2, <2>1, <2>2, <2>3
  <2> QED
    BY <1>3, <2>1, <2>4, <2>5, <2>6, StillWatching
\* What cover is through with is watched, and so is the index it was for.
<1>4. ASSUME NEW p \in Processes, NEW end \in Nat, Finish(p, end), end <= watched[descriptor],
             goal[p] <= end, pc[p] \in {"read", "reread"},
             UNCHANGED <<nodeVars, index, goal, stored>>
      PROVE  Watching'
  <2>1. /\ UNCHANGED <<watched, goal, stored, index>> /\ gapEnd' = end
        /\ \A q \in Processes \ {p} : pc'[q] = pc[q]
        /\ pc'[p] \in {"idle", "store"}
    BY <1>1, <1>4 DEF Finish, nodeVars
  <2>2. p \in Requests => index[p] <= watched[descriptor]
    <3>1. p \in Requests => index[p] < goal[p] /\ index[p] \in Int
      BY <1>1, <1>4, RangeAssumption DEF Goals
    <3> QED
      BY <1>1, <1>4, <3>1
  <2>3. \A d \in Descriptors : watched[d] <= watched'[d]
    BY <1>1, <2>1
  <2>4. \A q \in Processes : pc'[q] = "reread" => goal'[q] <= watched'[descriptor]
    BY <1>2, <2>1
  <2>5. \A r \in Requests : pc'[r] = "store" => index'[r] <= watched'[descriptor]
    BY <1>1, <1>2, <2>1, <2>2
  <2> QED
    BY <1>4, <2>1, <2>3, <2>4, <2>5, StillWatching
<1>5. ASSUME NEW d \in Descriptors, Start(d) PROVE Watching'
  <2>1. /\ UNCHANGED <<watched, index, stored>> /\ running' = "opening"
        /\ pc'[Opener] = "read" /\ goal' = [goal EXCEPT ![Opener] = Step]
        /\ \A q \in Requests : pc'[q] = pc[q] /\ goal'[q] = goal[q]
    BY <1>1, <1>5 DEF Start, nodeVars
  <2>2. \A e \in Descriptors : watched[e] <= watched'[e]
    BY <1>1, <2>1
  <2>3. \A q \in Processes : pc'[q] = "reread" => goal'[q] <= watched'[descriptor]
    BY <1>1, <1>2, <2>1 DEF Processes
  <2> QED
    BY <1>1, <1>2, <2>1, <2>2, <2>3, StillWatching
<1>6. ASSUME NEW r \in Requests, Allocate(r) PROVE Watching'
  <2>1. /\ UNCHANGED <<watched, goal, stored, gapEnd, running>> /\ pc'[r] = "lock"
        /\ \A q \in Processes \ {r} : pc'[q] = pc[q]
        /\ \A q \in Requests \ {r} : index'[q] = index[q]
    BY <1>1, <1>6 DEF Allocate, nodeVars, walletVars
  <2>2. \A e \in Descriptors : watched[e] <= watched'[e]
    BY <1>1, <2>1
  <2> QED
    BY <1>1, <1>2, <2>1, <2>2, StillWatching
<1>7. ASSUME NEW r \in Requests, EnsureWatched(r) PROVE Watching'
  <2>1. /\ UNCHANGED <<watched, stored, gapEnd, running, index>>
        /\ pc'[r] \in {"store", "read"} /\ (pc'[r] = "store" => index[r] < gapEnd)
        /\ \A q \in Processes \ {r} : pc'[q] = pc[q] /\ goal'[q] = goal[q]
    BY <1>1, <1>7 DEF EnsureWatched, nodeVars
  <2>2. running = "up"
    BY <1>1, <1>7 DEF EnsureWatched, Phases
  <2>3. pc'[r] = "store" => index[r] <= watched[descriptor]
    <3>1. index[r] \in Int /\ gapEnd \in Int /\ watched[descriptor] \in Int
      BY <1>1, RangeAssumption
    <3> QED
      BY <1>2, <2>1, <2>2, <3>1
  <2>4. \A e \in Descriptors : watched[e] <= watched'[e]
    BY <1>1, <2>1
  <2>5. \A q \in Processes : pc'[q] = "reread" => goal'[q] <= watched'[descriptor]
    BY <1>2, <2>1
  <2>6. \A q \in Requests : pc'[q] = "store" => index'[q] <= watched'[descriptor]
    BY <1>1, <1>2, <2>1, <2>3
  <2> QED
    BY <1>2, <2>1, <2>4, <2>5, <2>6, StillWatching
<1>8. ASSUME NEW p \in Processes, ReadRange(p) PROVE Watching'
  <2>1. CASE Covers(p) /\ Finish(p, ActiveRangeEnd)
    <3>1. ActiveRangeEnd \in Nat /\ goal[p] <= ActiveRangeEnd /\ goal[p] >= 1 /\ goal[p] \in Nat
      BY <1>1, <1>8, <2>1, RangeEndType DEF Covers, ReadRange, Goals
    <3>2. ActiveRangeEnd = watched[descriptor]
      BY <1>1, <3>1, OneRange
    <3> QED
      BY <1>1, <1>4, <1>8, <2>1, <3>1, <3>2 DEF ReadRange
  <2>2. CASE pc' = [pc EXCEPT ![p] = "import"] /\ UNCHANGED walletVars
    <3>1. /\ UNCHANGED <<watched, goal, stored, gapEnd, running, index>>
          /\ pc'[p] = "import" /\ \A q \in Processes \ {p} : pc'[q] = pc[q]
      BY <1>1, <1>8, <2>2 DEF ReadRange, nodeVars, walletVars
    <3>2. \A e \in Descriptors : watched[e] <= watched'[e]
      BY <1>1, <3>1
    <3> QED
      BY <1>1, <1>2, <3>1, <3>2, StillWatching
  <2> QED
    BY <1>8, <2>1, <2>2 DEF ReadRange
<1>9. ASSUME NEW p \in Processes, Import(p) PROVE Watching'
  <2>1. /\ watched' \in [Descriptors -> Int] /\ goal[p] <= watched'[descriptor]
        /\ \A d \in Descriptors : watched[d] <= watched'[d]
    BY <1>1, <1>9, ImportedRange
  <2>2. CASE GiveUp(p)
    BY <1>3, <1>9, <2>1, <2>2 DEF Import
  <2>3. CASE pc' = [pc EXCEPT ![p] = "reread"] /\ UNCHANGED <<walletVars, goal, stored>>
    <3>1. /\ UNCHANGED <<goal, stored, gapEnd, running, index>>
          /\ \A q \in Processes \ {p} : pc'[q] = pc[q]
          /\ pc'[p] = "reread"
      BY <1>1, <1>9, <2>3 DEF Import, walletVars
    <3>2. watched[descriptor] <= watched'[descriptor] /\ watched'[descriptor] \in Int
          /\ watched[descriptor] \in Int
      BY <1>1, <2>1
    <3>3. \A r \in Requests : index[r] \in Int
      BY <1>1, RangeAssumption
    <3>4. running' = "up" => gapEnd' <= watched'[descriptor]
      BY <1>1, <1>2, <3>1, <3>2
    <3>5. \A q \in Processes : pc'[q] = "reread" => goal'[q] <= watched'[descriptor]
      BY <1>1, <1>2, <2>1, <3>1, <3>2
    <3>6. \A r \in Requests : pc'[r] = "store" => index'[r] <= watched'[descriptor]
      BY <1>1, <1>2, <3>1, <3>2, <3>3
    <3> QED
      BY <2>1, <3>1, <3>4, <3>5, <3>6, StillWatching
  <2> QED
    BY <1>9, <2>2, <2>3 DEF Import
<1>10. ASSUME NEW p \in Processes, Fail(p) \/ ImportRefused(p) PROVE Watching'
  BY <1>1, <1>3, <1>10 DEF Fail, ImportRefused, nodeVars
<1>11. ASSUME NEW p \in Processes, Reread(p) PROVE Watching'
  <2>1. PICK end \in Nat : /\ Finish(p, end) /\ end \in {goal[p], ActiveRangeEnd}
                           /\ goal[p] <= end
    BY <1>1, <1>11, RereadEnd
  <2>2. goal[p] <= watched[descriptor] /\ goal[p] >= 1 /\ goal[p] \in Nat
    BY <1>1, <1>2, <1>11 DEF Reread, Goals
  <2>3. end <= watched[descriptor]
    BY <1>1, <2>1, <2>2, OneRange
  <2> QED
    BY <1>4, <1>11, <2>1, <2>3 DEF Reread
<1>12. ASSUME NEW r \in Requests, StoreInvoice(r) PROVE Watching'
  <2>1. /\ pc[r] = "store" /\ UNCHANGED <<watched, gapEnd, running, goal, index>>
        /\ pc'[r] = "idle" /\ \A q \in Processes \ {r} : pc'[q] = pc[q]
    BY <1>1, <1>12 DEF StoreInvoice, nodeVars, walletVars
  <2>2. \A k \in DOMAIN stored' : \/ k \in DOMAIN stored /\ stored'[k] = stored[k]
                                  \/ stored'[k].index <= watched[descriptor]
    <3>1. Addr(descriptor, index[r]).index <= watched[descriptor]
      BY <1>2, <2>1 DEF Addr
    <3> HIDE DEF Addr
    <3> QED
      BY <1>1, <1>12, <3>1, InsertedRow
  <2>3. \A e \in Descriptors : watched[e] <= watched'[e]
    BY <1>1, <2>1
  <2> QED
    BY <1>1, <1>2, <2>1, <2>2, <2>3, StillWatching
<1>13. ASSUME Crash PROVE Watching'
  <2>1. \A e \in Descriptors : watched[e] <= watched'[e]
    BY <1>1, <1>13 DEF Crash, nodeVars
  <2> QED
    BY <1>1, <1>13, <2>1, StillWatching DEF Crash
<1>14. ASSUME TopUp PROVE Watching'
  <2>1. /\ \A d \in Descriptors : watched[d] <= watched'[d]
        /\ watched' \in [Descriptors -> Int]
    BY <1>1, <1>14, ToppedUp
  <2>2. UNCHANGED <<goal, stored, gapEnd, running, index, pc>>
    BY <1>14 DEF TopUp, walletVars
  <2>3. watched[descriptor] <= watched'[descriptor] /\ watched'[descriptor] \in Int
        /\ watched[descriptor] \in Int /\ \A r \in Requests : index[r] \in Int
    BY <1>1, <2>1, RangeAssumption
  <2>4. running' = "up" => gapEnd' <= watched'[descriptor]
    BY <1>1, <1>2, <2>2, <2>3
  <2>5. /\ \A q \in Processes : pc'[q] = "reread" => goal'[q] <= watched'[descriptor]
        /\ \A r \in Requests : pc'[r] = "store" => index'[r] <= watched'[descriptor]
    BY <1>1, <1>2, <2>2, <2>3
  <2> QED
    BY <2>1, <2>2, <2>4, <2>5, StillWatching
<1>15. CASE UNCHANGED vars
  BY <1>15 DEF vars, nodeVars, walletVars, Watching, HandedOutIsWatched, GapEndIsWatched, ToldIsWatched
<1> QED
  BY <1>5, <1>6, <1>7, <1>8, <1>9, <1>10, <1>11, <1>12, <1>13, <1>14, <1>15 DEF Next

\* At first nothing is believed and nothing is handed out.
LEMMA InitWatching == Init => Watching
BY NameAssumption
DEF Init, Watching, HandedOutIsWatched, GapEndIsWatched, ToldIsWatched, Processes

\* As long as the descriptor stays the same, the strengthened invariant of the node holds.
THEOREM WatchingCorrect == ASSUME OneDescriptor PROVE Spec => []Watching
<1>1. Books /\ Books' /\ Watching /\ [Next]_vars => Watching'
  BY NextWatching
<1> QED
  BY <1>1, InitWatching, BooksCorrect, PTL DEF Spec

-----------------------------------------------------------------------------
(* The theorems *)

\* Every variable has its shape.
THEOREM TypeCorrect == Spec => []TypeOK
<1>1. Books => TypeOK
  BY DEF Books
<1> QED
  BY <1>1, BooksCorrect, PTL

\* No address belongs to two invoices, however many requests run at once.
THEOREM DifferCorrect == Spec => []AddressesDiffer
<1>1. Books => AddressesDiffer
  BY DEF Books
<1> QED
  BY <1>1, BooksCorrect, PTL

\* No index is left out, whichever requests fail and whichever win.
THEOREM NoGapsCorrect == Spec => []IndexesHaveNoGaps
<1>1. Books => IndexesHaveNoGaps
  BY DEF Books
<1> QED
  BY <1>1, BooksCorrect, PTL

\* A gateway that keeps its descriptor hands out only addresses the node watches.
THEOREM WatchedCorrect == ASSUME OneDescriptor PROVE Spec => []HandedOutIsWatched
<1>1. Watching => HandedOutIsWatched
  BY DEF Watching
<1> QED
  BY <1>1, WatchingCorrect, PTL

\* A gateway that keeps its descriptor never believes more to be watched than is.
THEOREM GapEndCorrect == ASSUME OneDescriptor PROVE Spec => []GapEndIsWatched
<1>1. Watching => GapEndIsWatched
  BY DEF Watching
<1> QED
  BY <1>1, WatchingCorrect, PTL
=============================================================================
