--------------------------- MODULE ProcessProofs ----------------------------
(***************************************************************************)
(* What holds of the process for any number of requests to either handler, *)
(* any listeners and any deadline of the shutdown: the proofs.             *)
(***************************************************************************)
EXTENDS Process, TLAPS

\* Only a request to POST /invoices holds the mutex, and only during its call of the node.
MutexHeld == mutex # Nobody => mutex \in Posts /\ work[mutex] \in {5, 6}

\* A loop ends only after the context has; before run's select is over the context ends
\* only by a signal; and after it a clean exit needs one.
EndsAreAsked ==
  /\ "canceled" \in ended => ctx = "done"
  /\ main.at = "select" /\ ctx = "done" => asked
  /\ main.at # "select" /\ main.code = 0 => asked

\* The context of a post that was cut off has ended, and the sender does nothing after it.
CutIsOver == cut => ctx = "done" /\ conn # "sender"

IInv == TypeOK /\ MutexHeld /\ EndsAreAsked /\ CutIsOver

-----------------------------------------------------------------------------
(* Programs *)

\* What a program looks like: it gives the connection back in the step after the one that
\* takes it, and only POST /invoices locks, for the two steps after.
Shape(p, w) ==
  /\ Len(p) \in 1..9
  /\ \A n \in 1..Len(p) :
       /\ p[n] = "take" => n + 1 <= Len(p) /\ p[n + 1] = "give"
       /\ p[n] = "lock" => n = 4 /\ n + 2 <= Len(p) /\ w \in Posts
       /\ w \in Posts => /\ n = 5 => p[n] = "node"
                         /\ n = 6 => p[n] = "unlock"
                         /\ p[n] = "unlock" => n = 6

\* Every program is like that.
LEMMA ProgramShape == ASSUME NEW w \in Workers PROVE Shape(Program(w), w)
<1> USE ProcessAssumption DEF Workers, Requests, Loops
<1>1. CASE w = "monitor"
  <2>1. w \notin Posts /\ Program(w) = MonitorProgram /\ Len(MonitorProgram) = 7
    BY <1>1 DEF Program, MonitorProgram
  <2>2. \A n \in 1..7 : n \in {1, 2, 3, 4, 5, 6, 7}
    OBVIOUS
  <2> QED
    BY <2>1, <2>2 DEF MonitorProgram, Shape
<1>2. CASE w = "sender"
  <2>1. w \notin Posts /\ Program(w) = SenderProgram /\ Len(SenderProgram) = 5
    BY <1>2 DEF Program, SenderProgram
  <2>2. \A n \in 1..5 : n \in {1, 2, 3, 4, 5}
    OBVIOUS
  <2> QED
    BY <2>1, <2>2 DEF SenderProgram, Shape
<1>3. CASE w \in Posts
  <2>1. Program(w) = PostProgram /\ Len(PostProgram) = 9
    BY <1>3 DEF Program, PostProgram
  <2>2. \A n \in 1..9 : n \in {1, 2, 3, 4, 5, 6, 7, 8, 9}
    OBVIOUS
  <2> QED
    BY <1>3, <2>1, <2>2 DEF PostProgram, Shape
<1>4. CASE w \in Gets
  <2>1. w \notin Posts /\ Program(w) = GetProgram /\ Len(GetProgram) = 4
    BY <1>4 DEF Program, GetProgram
  <2>2. \A n \in 1..4 : n \in {1, 2, 3, 4}
    OBVIOUS
  <2> QED
    BY <2>1, <2>2 DEF GetProgram, Shape
<1> QED
  BY <1>1, <1>2, <1>3, <1>4

\* A worker goes on to the next step of its program, and no other worker moves.
LEMMA Advance ==
  ASSUME TypeOK, NEW w \in Workers, work[w] # 0, work' = Advanced(w)
  PROVE  /\ work' \in [Workers -> 0..9] /\ \A v \in Workers : work'[v] <= Len(Program(v))
         /\ work'[w] = IF work[w] = Len(Program(w)) THEN 0 ELSE work[w] + 1
         /\ \A v \in Workers : v # w => work'[v] = work[v] /\ At(v)' = At(v)
         /\ work[w] \in 1..Len(Program(w))
<1>1. \A v \in Workers : Len(Program(v)) \in 1..9 /\ work[v] \in 0..Len(Program(v))
  BY ProgramShape DEF Shape, TypeOK
<1>2. work' = [work EXCEPT ![w] = IF @ = Len(Program(w)) THEN 0 ELSE @ + 1] /\ work \in [Workers -> 0..9]
  BY DEF Advanced, TypeOK
<1>3. work'[w] = IF work[w] = Len(Program(w)) THEN 0 ELSE work[w] + 1
  BY <1>2
<1>4. \A v \in Workers : v # w => work'[v] = work[v]
  BY <1>2
<1>5. work'[w] \in 0..9 /\ work'[w] <= Len(Program(w)) /\ work[w] \in 1..Len(Program(w))
  <2> DEFINE L == Len(Program(w))
  <2>1. L \in 1..9 /\ work[w] \in 0..L /\ work[w] # 0 /\ work'[w] = IF work[w] = L THEN 0 ELSE work[w] + 1
    BY <1>1, <1>3
  <2> HIDE DEF L
  <2>2. work'[w] \in 0..9 /\ work'[w] <= L /\ work[w] \in 1..L
    BY <2>1
  <2> QED
    BY <2>2 DEF L
<1>6. work' \in [Workers -> 0..9]
  BY <1>2, <1>5
<1>7. \A v \in Workers : v # w => At(v)' = At(v)
  BY <1>4 DEF At, Program
<1> QED
  BY <1>1, <1>3, <1>4, <1>5, <1>6, <1>7

\* A worker that stops or has stopped is idle, and no other worker moves.
LEMMA Halt ==
  ASSUME TypeOK, NEW w \in Workers, NEW n \in {0, 1}, work' = [work EXCEPT ![w] = n]
  PROVE  /\ work' \in [Workers -> 0..9] /\ \A v \in Workers : work'[v] <= Len(Program(v))
         /\ work'[w] = n
         /\ \A v \in Workers : v # w => work'[v] = work[v] /\ At(v)' = At(v)
<1>1. Len(Program(w)) \in 1..9
  BY ProgramShape DEF Shape
<1>2. work \in [Workers -> 0..9] /\ \A v \in Workers : work[v] <= Len(Program(v))
  BY DEF TypeOK
<1>3. work'[w] = n /\ \A v \in Workers : v # w => work'[v] = work[v]
  BY <1>2
<1>4. \A v \in Workers : v # w => At(v)' = At(v)
  BY <1>3 DEF At, Program
<1>5. work' \in [Workers -> 0..9]
  BY <1>2, <1>3
<1>6. work'[w] <= Len(Program(w))
  <2> DEFINE L == Len(Program(w))
  <2>1. L \in 1..9 /\ work'[w] \in {0, 1}
    BY <1>1, <1>3
  <2> HIDE DEF L
  <2>2. work'[w] <= L
    BY <2>1
  <2> QED
    BY <2>2 DEF L
<1> QED
  BY <1>2, <1>3, <1>4, <1>5, <1>6

-----------------------------------------------------------------------------
(* Every step keeps the invariant *)

\* The parts of TypeOK that a worker's step can disturb.
WorkType == work \in [Workers -> 0..9] /\ \A w \in Workers : work[w] <= Len(Program(w))
HoldersType ==
  /\ conn \in Workers \cup {Nobody} /\ mutex \in Requests \cup {Nobody}
  /\ conn # Nobody => At(conn) = "give"
  /\ mutex # Nobody => At(mutex) \in {"node", "unlock"}
FlagsType ==
  /\ asked \in BOOLEAN /\ cut \in BOOLEAN /\ ctx \in {"live", "done"}
  /\ ended \subseteq {"canceled", "failed"} /\ serving \subseteq Servers
  /\ main \in [at : {"select", "drain", "exit"}, code : {0, 1}, left : 0..Grace]

\* TypeOK in parts.
LEMMA TypeParts == TypeOK <=> WorkType /\ HoldersType /\ FlagsType
BY DEF TypeOK, WorkType, HoldersType, FlagsType

\* Where a step leaves the holders: those that are not the worker stay where they are.
LEMMA HoldersKept ==
  ASSUME IInv, NEW w \in Workers, WorkType',
         \A v \in Workers : v # w => work'[v] = work[v] /\ At(v)' = At(v),
         conn' = conn \/ conn' = Nobody \/ (conn' = w /\ At(w)' = "give"),
         mutex' = mutex \/ mutex' = Nobody \/ (mutex' = w /\ w \in Posts /\ work'[w] \in {5, 6}),
         conn' = conn => conn # w,
         mutex' = mutex => mutex # w \/ work'[w] \in {5, 6}
  PROVE  HoldersType' /\ MutexHeld'
<1> USE DEF IInv
<1>1. conn \in Workers \cup {Nobody} /\ (conn # Nobody => At(conn) = "give")
  BY DEF TypeOK
<1>2. conn' \in Workers \cup {Nobody}
  BY <1>1
<1>3. conn' # Nobody => At(conn)' = "give"
  <2>1. CASE conn' = conn
    <3> SUFFICES ASSUME conn # Nobody PROVE At(conn)' = "give"
      BY <2>1
    <3> DEFINE c == conn
    <3>1. c \in Workers /\ c # w /\ At(c) = "give"
      BY <1>1, <2>1
    <3>2. work'[c] = work[c]
      BY <3>1
    <3> QED
      BY <2>1, <3>1, <3>2 DEF At, Program
  <2>2. CASE conn' = w /\ At(w)' = "give"
    BY <2>2 DEF At, Program
  <2>3. CASE conn' = Nobody
    BY <2>3
  <2> QED
    BY <2>1, <2>2, <2>3
<1>4. (mutex # Nobody => mutex \in Posts /\ work[mutex] \in {5, 6})'
  <2>1. CASE mutex' = mutex
    <3>1. mutex # Nobody => mutex \in Posts /\ mutex \in Workers /\ work[mutex] \in {5, 6}
      BY DEF MutexHeld, Workers, Requests
    <3>2. mutex # Nobody => work'[mutex] \in {5, 6}
      BY <2>1, <3>1
    <3> QED
      BY <2>1, <3>1, <3>2
  <2> QED
    BY <2>1
<1>5. MutexHeld'
  BY <1>4 DEF MutexHeld
<1>6. mutex' # Nobody => At(mutex)' \in {"node", "unlock"}
  <2> SUFFICES ASSUME NEW w2 \in Posts, work'[w2] \in {5, 6} PROVE At(w2)' \in {"node", "unlock"}
    BY <1>4 DEF At, Program
  <2>1. w2 \in Workers
    BY DEF Workers, Requests
  <2>2. Shape(Program(w2), w2) /\ work'[w2] \in 1..Len(Program(w2))
    <3>1. Shape(Program(w2), w2)
      BY <2>1, ProgramShape
    <3>2. work'[w2] \in 0..9 /\ work'[w2] <= Len(Program(w2)) /\ Len(Program(w2)) \in 1..9
      BY <2>1, <3>1 DEF WorkType, Shape, Program
    <3> QED
      BY <3>1, <3>2
  <2>3. At(w2)' = Program(w2)[work'[w2]]
    BY DEF At, Program
  <2> QED
    BY <2>2, <2>3 DEF Shape
<1>7. mutex' \in Requests \cup {Nobody}
  BY <1>4 DEF Requests
<1> QED
  BY <1>2, <1>3, <1>5, <1>6, <1>7 DEF HoldersType

\* A step of a worker that leaves the flags alone keeps the invariant, once it keeps the
\* holders: only the sender's hold on the connection may not begin after a cut.
LEMMA WorkerKept ==
  ASSUME IInv, WorkType', HoldersType', MutexHeld', UNCHANGED <<asked, ctx, serving, main>>,
         ended' = ended \/ (ended' = ended \cup {"canceled"} /\ ctx = "done"),
         cut' \in BOOLEAN,
         cut' => ctx = "done" /\ conn' # "sender"
  PROVE  IInv'
<1>1. FlagsType'
  BY DEF IInv, TypeOK, FlagsType
<1>2. EndsAreAsked'
  BY DEF IInv, EndsAreAsked
<1>3. CutIsOver'
  BY DEF CutIsOver
<1>4. TypeOK'
  BY <1>1 DEF TypeOK, WorkType, HoldersType, FlagsType
<1> QED
  BY <1>2, <1>3, <1>4 DEF IInv

\* The invariant holds at first.
LEMMA InitInv == Init => IInv
<1> SUFFICES ASSUME Init PROVE IInv
  OBVIOUS
<1>1. WorkType
  <2>1. \A w \in Workers : work[w] = 0 /\ Len(Program(w)) \in 1..9
    BY ProgramShape DEF Init, Shape
  <2> QED
    BY <2>1 DEF Init, WorkType
<1>2. FlagsType
  <2>1. [at |-> "select", code |-> 0, left |-> Grace]
          \in [at : {"select", "drain", "exit"}, code : {0, 1}, left : 0..Grace]
    <3>1. Grace \in 0..Grace
      BY ProcessAssumption
    <3> QED
      BY <3>1
  <2> QED
    BY <2>1 DEF Init, FlagsType
<1> QED
  BY <1>1, <1>2 DEF Init, IInv, TypeOK, WorkType, FlagsType, MutexHeld, EndsAreAsked, CutIsOver

\* A worker that begins holds nothing.
LEMMA BeginInv == ASSUME IInv, NEW w \in Workers, Begin(w) PROVE IInv'
<1>1. work' = [work EXCEPT ![w] = 1] /\ work[w] = 0 /\ UNCHANGED <<conn, mutex, asked, ctx, ended, serving, main, cut>>
  BY DEF Begin
<1>2. WorkType' /\ \A v \in Workers : v # w => work'[v] = work[v] /\ At(v)' = At(v)
  BY <1>1, Halt DEF IInv, WorkType, Program
<1>3. w # conn /\ w # mutex
  BY <1>1, ProcessAssumption DEF IInv, TypeOK, At, MutexHeld
<1>4. HoldersType' /\ MutexHeld'
  BY <1>1, <1>2, <1>3, HoldersKept
<1> QED
  BY <1>1, <1>2, <1>4, WorkerKept DEF IInv, CutIsOver, TypeOK

\* The connection is taken by whoever gives it back next.
LEMMA TakeInv == ASSUME IInv, NEW w \in Workers, Take(w) PROVE IInv'
<1>1. /\ conn = Nobody /\ conn' = w /\ work' = Advanced(w) /\ At(w) = "take"
      /\ UNCHANGED <<mutex, asked, ctx, ended, serving, main, cut>>
      /\ w = "sender" => ctx = "live"
  BY DEF Take, MayGoOn, Loops
<1>2. work[w] # 0 /\ Program(w)[work[w]] = "take"
  BY <1>1 DEF At
<1>3. /\ WorkType' /\ work[w] \in 1..Len(Program(w))
      /\ work'[w] = IF work[w] = Len(Program(w)) THEN 0 ELSE work[w] + 1
      /\ \A v \in Workers : v # w => work'[v] = work[v] /\ At(v)' = At(v)
  BY <1>1, <1>2, Advance DEF IInv, WorkType, Program
<1>4. work[w] + 1 <= Len(Program(w)) /\ Program(w)[work[w] + 1] = "give" /\ Len(Program(w)) \in 1..9
  BY <1>2, <1>3, ProgramShape DEF Shape
<1>5. At(w)' = "give"
  <2>1. work'[w] = work[w] + 1 /\ work'[w] # 0
    BY <1>3, <1>4
  <2> QED
    BY <1>4, <2>1 DEF At, Program
<1>6. w # mutex
  BY <1>1, ProcessAssumption DEF IInv, TypeOK
<1>7. conn' # conn
  BY <1>1, ProcessAssumption
<1>8. HoldersType' /\ MutexHeld'
  BY <1>1, <1>3, <1>5, <1>6, <1>7, HoldersKept
<1> QED
  BY <1>1, <1>3, <1>8, WorkerKept DEF IInv, CutIsOver, TypeOK

\* The connection is given back by whoever holds it.
LEMMA GiveInv == ASSUME IInv, NEW w \in Workers, Give(w) PROVE IInv'
<1>1. /\ conn = w /\ conn' = Nobody /\ work' = Advanced(w) /\ At(w) = "give" /\ work[w] # 0
      /\ UNCHANGED <<mutex, asked, ctx, ended, serving, main, cut>>
  BY DEF Give, At
<1>2. /\ WorkType'
      /\ \A v \in Workers : v # w => work'[v] = work[v] /\ At(v)' = At(v)
  BY <1>1, Advance DEF IInv, WorkType, Program
<1>3. w # mutex
  BY <1>1, ProcessAssumption DEF IInv, TypeOK
<1>4. conn' # conn /\ conn' # "sender"
  BY <1>1, ProcessAssumption DEF Workers, Loops
<1>5. HoldersType' /\ MutexHeld'
  BY <1>1, <1>2, <1>3, <1>4, HoldersKept
<1> QED
  BY <1>1, <1>2, <1>4, <1>5, WorkerKept DEF IInv, CutIsOver, TypeOK

\* A worker that is not about to give the connection back does not hold it.
LEMMA NotHolding == ASSUME IInv, NEW w \in Workers, At(w) # "give" PROVE conn # w
BY ProcessAssumption DEF IInv, TypeOK

\* Only POST /invoices locks, and calls the node next.
LEMMA LockInv == ASSUME IInv, NEW w \in Workers, Lock(w) PROVE IInv'
<1>1. /\ mutex = Nobody /\ mutex' = w /\ work' = Advanced(w) /\ At(w) = "lock"
      /\ UNCHANGED <<conn, asked, ctx, ended, serving, main, cut>>
  BY DEF Lock
<1>2. work[w] # 0 /\ Program(w)[work[w]] = "lock"
  BY <1>1 DEF At
<1>3. /\ WorkType' /\ work[w] \in 1..Len(Program(w))
      /\ work'[w] = IF work[w] = Len(Program(w)) THEN 0 ELSE work[w] + 1
      /\ \A v \in Workers : v # w => work'[v] = work[v] /\ At(v)' = At(v)
  BY <1>1, <1>2, Advance DEF IInv, WorkType, Program
<1>4. work[w] = 4 /\ 6 <= Len(Program(w)) /\ w \in Posts /\ Len(Program(w)) \in 1..9
  <2>1. Shape(Program(w), w)
    BY ProgramShape
  <2>2. work[w] = 4 /\ work[w] + 2 <= Len(Program(w)) /\ w \in Posts
    BY <1>2, <1>3, <2>1 DEF Shape
  <2> QED
    BY <2>1, <2>2 DEF Shape
<1>5. work'[w] = 5
  <2>1. work[w] # Len(Program(w))
    <3> DEFINE L == Len(Program(w))
    <3>1. 6 <= L /\ L \in 1..9 /\ work[w] = 4
      BY <1>4
    <3> HIDE DEF L
    <3>2. work[w] # L
      BY <3>1
    <3> QED
      BY <3>2 DEF L
  <2> QED
    BY <1>3, <1>4, <2>1
<1>6. w # conn /\ mutex' # mutex
  BY <1>1, NotHolding, ProcessAssumption
<1>7. HoldersType' /\ MutexHeld'
  BY <1>1, <1>3, <1>4, <1>5, <1>6, HoldersKept
<1> QED
  BY <1>1, <1>3, <1>7, WorkerKept DEF IInv, CutIsOver, TypeOK

\* The mutex is given back by whoever holds it.
LEMMA UnlockInv == ASSUME IInv, NEW w \in Workers, Unlock(w) PROVE IInv'
<1>1. /\ mutex = w /\ mutex' = Nobody /\ work' = Advanced(w) /\ At(w) = "unlock" /\ work[w] # 0
      /\ UNCHANGED <<conn, asked, ctx, ended, serving, main, cut>>
  BY DEF Unlock, At
<1>2. /\ WorkType'
      /\ \A v \in Workers : v # w => work'[v] = work[v] /\ At(v)' = At(v)
  BY <1>1, Advance DEF IInv, WorkType, Program
<1>3. w # conn /\ mutex' # mutex
  BY <1>1, NotHolding, ProcessAssumption
<1>4. HoldersType' /\ MutexHeld'
  BY <1>1, <1>2, <1>3, HoldersKept
<1> QED
  BY <1>1, <1>2, <1>4, WorkerKept DEF IInv, CutIsOver, TypeOK

\* A request that has the mutex has it for the call of the node and no longer.
LEMMA MutexGoesOn ==
  ASSUME IInv, NEW w \in Workers, At(w) \in {"node", "post", "body"}, work' = Advanced(w), mutex = w
  PROVE  work'[w] \in {5, 6}
<1>1. w \in Posts /\ work[w] \in {5, 6}
  BY ProcessAssumption DEF IInv, MutexHeld
<1>2. /\ work[w] \in 1..Len(Program(w))
      /\ work'[w] = IF work[w] = Len(Program(w)) THEN 0 ELSE work[w] + 1
  BY <1>1, Advance DEF IInv
<1>3. Shape(Program(w), w) /\ Program(w)[work[w]] # "unlock" /\ Len(Program(w)) = 9
  <2>1. Program(w) = PostProgram
    BY <1>1, ProcessAssumption DEF Program, Requests, Loops
  <2> QED
    BY <1>1, <2>1, ProgramShape DEF At, PostProgram
<1>4. work[w] = 5
  BY <1>1, <1>2, <1>3 DEF Shape
<1> QED
  BY <1>2, <1>3, <1>4

\* Calls hold nothing but the mutex, and those that are cut off end in an ended context.
LEMMA CalledInv == ASSUME IInv, NEW w \in Workers, Called(w) \/ Received(w) PROVE IInv'
<1>1. /\ work' = Advanced(w) /\ At(w) \in {"node", "post", "body"} /\ work[w] # 0
      /\ UNCHANGED <<conn, mutex, asked, ctx, ended, serving, main>>
      /\ cut' = cut \/ cut' = (cut \/ (At(w) = "post" /\ ctx = "done"))
  BY DEF Called, Received, At
<1>2. /\ WorkType'
      /\ \A v \in Workers : v # w => work'[v] = work[v] /\ At(v)' = At(v)
  BY <1>1, Advance DEF IInv, WorkType, Program
<1>3. w # conn
  BY <1>1, NotHolding
<1>4. HoldersType' /\ MutexHeld'
  BY <1>1, <1>2, <1>3, MutexGoesOn, HoldersKept
<1>5. cut' \in BOOLEAN /\ (cut' => cut \/ (At(w) = "post" /\ ctx = "done"))
  <2>1. cut \in BOOLEAN
    BY DEF IInv, TypeOK
  <2>2. CASE cut' = cut
    BY <2>1, <2>2, Zenon
  <2>3. CASE cut' = (cut \/ (At(w) = "post" /\ ctx = "done"))
    BY <2>3, Zenon
  <2> QED
    BY <1>1, <2>2, <2>3, Zenon
<1>6. At(w) = "post" => w = "sender"
  <2> SUFFICES ASSUME w # "sender", At(w) = "post" PROVE FALSE
    OBVIOUS
  <2>1. /\ Program(w)[work[w]] = "post" /\ work[w] \in 1..Len(Program(w))
        /\ Program(w) \in {MonitorProgram, PostProgram, GetProgram}
    BY <1>1, Advance DEF IInv, At, Program
  <2>2. /\ Len(MonitorProgram) = 7 /\ Len(PostProgram) = 9 /\ Len(GetProgram) = 4
        /\ \A n \in 1..7 : MonitorProgram[n] # "post"
        /\ \A n \in 1..9 : PostProgram[n] # "post"
        /\ \A n \in 1..4 : GetProgram[n] # "post"
    BY DEF MonitorProgram, PostProgram, GetProgram
  <2> QED
    BY <2>1, <2>2
<1>7. cut' => ctx = "done" /\ conn' # "sender"
  BY <1>1, <1>3, <1>5, <1>6 DEF IInv, CutIsOver
<1> QED
  BY <1>1, <1>2, <1>4, <1>5, <1>7, WorkerKept

\* An error gives back what was held, and so does the end of a loop.
LEMMA FailInv == ASSUME IInv, NEW w \in Workers, Fail(w) \/ Return(w) PROVE IInv'
<1>1. /\ work' = [work EXCEPT ![w] = 0]
      /\ conn' = Without(conn, w)
      /\ mutex' = Without(mutex, w) \/ (mutex' = mutex /\ w \in Loops)
      /\ UNCHANGED <<asked, ctx, serving, main, cut>>
      /\ ended' = ended \/ (ended' = ended \cup {"canceled"} /\ ctx = "done")
  BY DEF Fail, Return
<1>2. WorkType' /\ \A v \in Workers : v # w => work'[v] = work[v] /\ At(v)' = At(v)
  BY <1>1, Halt DEF IInv, WorkType, Program
<1>3. /\ conn' = conn \/ conn' = Nobody
      /\ conn' = conn => conn # w
  BY <1>1, ProcessAssumption DEF Without
<1>4. /\ mutex' = mutex \/ mutex' = Nobody
      /\ mutex' = mutex => mutex # w
  BY <1>1, ProcessAssumption DEF Without, IInv, TypeOK
<1>5. HoldersType' /\ MutexHeld'
  BY <1>2, <1>3, <1>4, HoldersKept
<1>6. cut' => ctx = "done" /\ conn' # "sender"
  BY <1>1, <1>3, ProcessAssumption DEF IInv, CutIsOver, Workers, Loops
<1> QED
  BY <1>1, <1>2, <1>5, <1>6, WorkerKept DEF IInv, TypeOK

\* What main does moves no worker.
LEMMA MainKept ==
  ASSUME IInv, UNCHANGED <<work, conn, mutex, cut>>, FlagsType', EndsAreAsked',
         ctx = "done" => ctx' = "done"
  PROVE  IInv'
<1>1. \A w : At(w)' = At(w)
  BY DEF At, Program
<1>2. WorkType' /\ HoldersType' /\ MutexHeld'
  BY <1>1 DEF IInv, TypeOK, WorkType, HoldersType, MutexHeld, At, Program
<1>3. CutIsOver'
  BY DEF IInv, CutIsOver
<1>4. TypeOK'
  BY <1>2 DEF TypeOK, WorkType, HoldersType, FlagsType
<1> QED
  BY <1>2, <1>3, <1>4 DEF IInv

\* A record of main with another field.
LEMMA MainRecord ==
  ASSUME FlagsType
  PROVE  /\ main = [at |-> main.at, code |-> main.code, left |-> main.left]
         /\ main.at \in {"select", "drain", "exit"} /\ main.code \in {0, 1} /\ main.left \in 0..Grace
BY DEF FlagsType

\* A signal, a listener that fails, the select and what follows it keep the invariant.
LEMMA MainInv ==
  ASSUME IInv, Signal \/ (\E s \in Servers : ListenerFails(s)) \/ Select \/ Tick \/ Exit
  PROVE  IInv'
<1>0. FlagsType
  BY TypeParts DEF IInv
<1> DEFINE Main == [at : {"select", "drain", "exit"}, code : {0, 1}, left : 0..Grace]
<1>1. CASE Signal
  <2>1. FlagsType' /\ EndsAreAsked'
    BY <1>0, <1>1 DEF Signal, FlagsType, EndsAreAsked
  <2> QED
    BY <1>1, <2>1, MainKept DEF Signal
<1>2. CASE \E s \in Servers : ListenerFails(s)
  <2>1. FlagsType' /\ EndsAreAsked'
    BY <1>0, <1>2 DEF ListenerFails, FlagsType, EndsAreAsked, IInv
  <2> QED
    BY <1>2, <2>1, MainKept DEF ListenerFails
<1>3. CASE Select
  <2>1. /\ main.at = "select" /\ UNCHANGED <<work, conn, mutex, asked, ended, cut>>
        /\ serving' \subseteq serving
        /\ \/ /\ ctx = "done" \/ "canceled" \in ended
              /\ main' = [main EXCEPT !.at = "drain"] /\ ctx' = ctx
           \/ main' = [main EXCEPT !.at = "drain", !.code = 1] /\ ctx' = "done"
    BY <1>3 DEF Select
  <2>2. \/ main' = [at |-> "drain", code |-> main.code, left |-> main.left]
        \/ main' = [at |-> "drain", code |-> 1, left |-> main.left]
    BY <1>0, <2>1, MainRecord
  <2>3. main' \in Main /\ main'.at = "drain"
    BY <1>0, <2>2, MainRecord
  <2>4. FlagsType'
    BY <1>0, <2>1, <2>3 DEF FlagsType
  <2>5. EndsAreAsked'
    <3>1. CASE main' = [main EXCEPT !.at = "drain"] /\ ctx' = ctx /\ (ctx = "done" \/ "canceled" \in ended)
      BY <2>1, <2>3, <3>1 DEF EndsAreAsked, IInv
    <3>2. CASE main' = [main EXCEPT !.at = "drain", !.code = 1] /\ ctx' = "done"
      <4>1. main'.code = 1
        BY <1>0, <3>2, MainRecord
      <4> QED
        BY <2>1, <2>3, <3>2, <4>1 DEF EndsAreAsked, IInv
    <3> QED
      BY <2>1, <3>1, <3>2
  <2> QED
    BY <2>1, <2>4, <2>5, MainKept
<1>4. CASE Tick
  <2>1. /\ main.at = "drain" /\ main.left > 0 /\ main' = [main EXCEPT !.left = main.left - 1]
        /\ UNCHANGED <<work, conn, mutex, asked, ctx, ended, serving, cut>>
    BY <1>4 DEF Tick
  <2>2. main' = [at |-> "drain", code |-> main.code, left |-> main.left - 1] /\ main.left - 1 \in 0..Grace
    BY <1>0, <2>1, MainRecord, ProcessAssumption
  <2>3. main' \in Main /\ main'.at = "drain" /\ main'.code = main.code
    BY <1>0, <2>2, MainRecord
  <2>4. FlagsType' /\ EndsAreAsked'
    BY <1>0, <2>1, <2>3 DEF FlagsType, EndsAreAsked, IInv
  <2> QED
    BY <2>1, <2>4, MainKept
<1>5. CASE Exit
  <2>1. /\ main.at = "drain" /\ main' = [main EXCEPT !.at = "exit"] /\ serving' = {}
        /\ UNCHANGED <<work, conn, mutex, asked, ctx, ended, cut>>
    BY <1>5 DEF Exit
  <2>2. main' = [at |-> "exit", code |-> main.code, left |-> main.left]
    BY <1>0, <2>1, MainRecord
  <2>3. main' \in Main /\ main'.at = "exit" /\ main'.code = main.code
    BY <1>0, <2>2, MainRecord
  <2>4. FlagsType' /\ EndsAreAsked'
    BY <1>0, <2>1, <2>3 DEF FlagsType, EndsAreAsked, IInv
  <2> QED
    BY <2>1, <2>4, MainKept
<1> QED
  BY <1>1, <1>2, <1>3, <1>4, <1>5

\* So does every step.
LEMMA NextInv == IInv /\ [Next]_vars => IInv'
<1> SUFFICES ASSUME IInv, [Next]_vars PROVE IInv'
  OBVIOUS
<1>1. ASSUME UNCHANGED vars PROVE IInv'
  <2>1. FlagsType
    BY TypeParts DEF IInv
  <2>2. FlagsType' /\ EndsAreAsked'
    BY <1>1, <2>1 DEF vars, FlagsType, EndsAreAsked, IInv
  <2> QED
    BY <1>1, <2>2, MainKept DEF vars
<1> QED
  BY <1>1, BeginInv, TakeInv, GiveInv, LockInv, UnlockInv, CalledInv, FailInv, MainInv DEF Next, Step

\* The strengthened invariant holds.
THEOREM Invariant == Spec => []IInv
BY InitInv, NextInv, PTL DEF Spec

-----------------------------------------------------------------------------
(* The theorems *)

\* Every variable has its shape, and the connection and the mutex are held by workers that
\* give them back, for any number of requests.
THEOREM TypeCorrect == Spec => []TypeOK
<1>1. IInv => TypeOK
  BY DEF IInv
<1> QED
  BY <1>1, Invariant, PTL

\* The process exits with success only if it was told to stop.
THEOREM CleanExitCorrect == Spec => []CleanExitWasAsked
<1>1. IInv => CleanExitWasAsked
  BY DEF IInv, EndsAreAsked, CleanExitWasAsked
<1> QED
  BY <1>1, Invariant, PTL

\* Stopping the gateway costs no event an attempt.
THEOREM StopCorrect == Spec => []StopCostsNoAttempt
<1>1. IInv => StopCostsNoAttempt
  BY DEF IInv, CutIsOver, StopCostsNoAttempt
<1> QED
  BY <1>1, Invariant, PTL
=============================================================================
