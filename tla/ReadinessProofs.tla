-------------------------- MODULE ReadinessProofs ---------------------------
(***************************************************************************)
(* What the gateway says of itself, for any poll interval, any timeout, any*)
(* age that is allowed and any troubles: the proofs.                       *)
(***************************************************************************)
EXTENDS Readiness, TLAPS

NodeType == [up : BOOLEAN, busy : BOOLEAN, loaded : BOOLEAN, startup : BOOLEAN,
             exists : BOOLEAN, openable : BOOLEAN]
HealthType == [loaded : BOOLEAN, age : 0..(MaxAge + 1) \cup {NoSuccess}]
TickerType == [left : 1..Interval, due : BOOLEAN]
PollType == [at : {"idle", "asked", "answered"}, lasted : 0..Timeout, err : {0, 1, -18}]
SeenType == [read : 0..(MaxAge + 1), gone : 0..(Interval + 1), hand : BOOLEAN]

\* A success is no older than the last time the wallet was read, and one that is not yet
\* reported was read just now.
SuccessWasRead ==
  Running =>
    /\ health.age # NoSuccess => seen.read <= health.age
    /\ poll.at = "answered" /\ poll.err = 0 => seen.read = 0

\* A wallet that was missing at the last tick still is.  It has been reported, or a poll that
\* will find out is under way or due, or will be before an interval has passed.
GoneIsFound ==
  Running /\ seen.gone > 0 =>
    /\ Missing
    /\ poll.at = "answered" => poll.err = -18
    /\ health.loaded =>
         \/ (poll.at # "idle" \/ ticker.due) /\ seen.gone <= Interval
         \/ seen.gone + ticker.left <= Interval

\* Unless somebody loads wallets by hand, what is loaded is on the startup list, and a start
\* gets no further than loadwallet without.
StartupIsSet ==
  ~seen.hand =>
    /\ node.loaded => node.startup
    /\ phase \in {"cover", "run"} => node.startup

IInv == TypeOK /\ SuccessWasRead /\ GoneIsFound /\ StartupIsSet

-----------------------------------------------------------------------------
(* Calls *)

\* What a call can come to, by the node and the code it has for it.
LEMMA CallOutcome ==
  ASSUME NEW code \in {0, -4, -18, -35}, NEW reply \in Replies(code)
  PROVE  /\ Call(reply) \in {1, code}
         /\ Call(reply) # 1 => node.up /\ ~node.busy /\ reply = Reply(code) /\ Call(reply) = code
         /\ node.up /\ ~node.busy => reply = Reply(code) /\ Call(reply) = code
<1>1. Call(Refused) = 1 /\ Call(Overloaded) = 1
  BY DEF Call, Refused, Overloaded
<1>2. Call(Reply(code)) = code
  <2>1. Reply(code).came = TRUE /\ Reply(code).json = TRUE /\ Reply(code).code = code
    BY DEF Reply
  <2> QED
    BY <2>1, Zenon DEF Call
<1>3. IF node.up /\ ~node.busy THEN reply = Reply(code) ELSE reply \in {Refused, Overloaded}
  BY DEF Replies
<1>4. code # 1
  OBVIOUS
<1> QED
  BY <1>1, <1>2, <1>3, <1>4, Zenon

-----------------------------------------------------------------------------
(* Types *)

\* TypeOK in parts.
LEMMA TypeParts ==
  TypeOK <=> /\ phase \in {"load", "cover", "run"} => node.exists
             /\ node \in NodeType /\ disk \in BOOLEAN
             /\ phase \in {"down", "greet", "create", "load", "cover", "run"}
             /\ health \in HealthType /\ ticker \in TickerType
             /\ poll \in PollType /\ seen \in SeenType
BY Zenon DEF TypeOK, NodeType, HealthType, TickerType, PollType, SeenType

\* A node with other fields is a node.
LEMMA NodeKept ==
  ASSUME NEW n \in NodeType, NEW a \in BOOLEAN, NEW b \in BOOLEAN, NEW c \in BOOLEAN
  PROVE  /\ [n EXCEPT !.up = a, !.busy = b, !.loaded = c] \in NodeType
         /\ [n EXCEPT !.up = a, !.loaded = b] \in NodeType
         /\ [n EXCEPT !.busy = a] \in NodeType
         /\ [n EXCEPT !.loaded = a] \in NodeType
         /\ [n EXCEPT !.exists = a, !.loaded = b, !.startup = c] \in NodeType
         /\ [n EXCEPT !.loaded = a, !.startup = b] \in NodeType
         /\ [n EXCEPT !.openable = a] \in NodeType
BY Zenon DEF NodeType

\* Lesser is one of two numbers.
LEMMA LesserType == ASSUME NEW m \in Int, NEW n \in Int
                    PROVE  Lesser(m, n) \in {m, n} /\ Lesser(m, n) <= m /\ Lesser(m, n) <= n
BY DEF Lesser

\* What was seen, with other numbers.
LEMMA SeenKept ==
  ASSUME NEW s \in SeenType, NEW m \in 0..(MaxAge + 1), NEW g \in 0..(Interval + 1)
  PROVE  /\ [s EXCEPT !.gone = g] \in SeenType
         /\ [s EXCEPT !.read = m] \in SeenType
         /\ [s EXCEPT !.read = m, !.gone = g] \in SeenType
         /\ [s EXCEPT !.hand = TRUE, !.gone = g] \in SeenType
<1> DEFINE M == 0..(MaxAge + 1)
           G == 0..(Interval + 1)
<1>1. s \in [read : M, gone : G, hand : BOOLEAN] /\ m \in M /\ g \in G
  BY DEF SeenType
<1> HIDE DEF M, G
<1>2. /\ [s EXCEPT !.gone = g] \in [read : M, gone : G, hand : BOOLEAN]
      /\ [s EXCEPT !.read = m] \in [read : M, gone : G, hand : BOOLEAN]
      /\ [s EXCEPT !.read = m, !.gone = g] \in [read : M, gone : G, hand : BOOLEAN]
      /\ [s EXCEPT !.hand = TRUE, !.gone = g] \in [read : M, gone : G, hand : BOOLEAN]
  BY <1>1, Zenon
<1> QED
  BY <1>2 DEF SeenType, M, G

\* A record of health has the fields it says.
LEMMA HealthKept ==
  ASSUME NEW h \in HealthType, NEW a \in 0..(MaxAge + 1) \cup {NoSuccess}, NEW b \in BOOLEAN
  PROVE  /\ [h EXCEPT !.age = a, !.loaded = b] \in HealthType
         /\ [h EXCEPT !.age = a] \in HealthType
         /\ [h EXCEPT !.loaded = b] \in HealthType
         /\ [loaded |-> b, age |-> a] \in HealthType
<1> DEFINE A == 0..(MaxAge + 1) \cup {NoSuccess}
<1>1. h \in [loaded : BOOLEAN, age : A] /\ a \in A
  BY DEF HealthType
<1> HIDE DEF A
<1>2. /\ [h EXCEPT !.age = a, !.loaded = b] \in [loaded : BOOLEAN, age : A]
      /\ [h EXCEPT !.age = a] \in [loaded : BOOLEAN, age : A]
      /\ [h EXCEPT !.loaded = b] \in [loaded : BOOLEAN, age : A]
      /\ [loaded |-> b, age |-> a] \in [loaded : BOOLEAN, age : A]
  BY <1>1, Zenon
<1> QED
  BY <1>2 DEF HealthType, A

\* A ticker has the fields it says.
LEMMA TickerKept ==
  ASSUME NEW t \in TickerType, NEW n \in 1..Interval, NEW b \in BOOLEAN
  PROVE  [t EXCEPT !.due = b] \in TickerType /\ [left |-> n, due |-> b] \in TickerType
<1> DEFINE L == 1..Interval
<1>1. t \in [left : L, due : BOOLEAN] /\ n \in L
  BY DEF TickerType
<1> HIDE DEF L
<1>2. [t EXCEPT !.due = b] \in [left : L, due : BOOLEAN] /\ [left |-> n, due |-> b] \in [left : L, due : BOOLEAN]
  BY <1>1, Zenon
<1> QED
  BY <1>2 DEF TickerType, L

\* A poll has the fields it says.
LEMMA PollKept ==
  ASSUME NEW q \in PollType, NEW a \in {"idle", "asked", "answered"}, NEW n \in 0..Timeout,
         NEW e \in {0, 1, -18}
  PROVE  /\ [at |-> a, lasted |-> n, err |-> e] \in PollType
         /\ [q EXCEPT !.at = a, !.err = e] \in PollType
         /\ [q EXCEPT !.lasted = n] \in PollType
<1> DEFINE L == 0..Timeout
           E == {0, 1, -18}
<1>1. q \in [at : {"idle", "asked", "answered"}, lasted : L, err : E] /\ n \in L /\ e \in E
  BY DEF PollType
<1> HIDE DEF L, E
<1>2. /\ [at |-> a, lasted |-> n, err |-> e] \in [at : {"idle", "asked", "answered"}, lasted : L, err : E]
      /\ [q EXCEPT !.at = a, !.err = e] \in [at : {"idle", "asked", "answered"}, lasted : L, err : E]
      /\ [q EXCEPT !.lasted = n] \in [at : {"idle", "asked", "answered"}, lasted : L, err : E]
  BY <1>1, Zenon
<1> QED
  BY <1>2 DEF PollType, L, E

\* The fields of the variables.
LEMMA Fields ==
  ASSUME TypeOK
  PROVE  /\ node.up \in BOOLEAN /\ node.busy \in BOOLEAN /\ node.loaded \in BOOLEAN
         /\ node.startup \in BOOLEAN /\ node.exists \in BOOLEAN /\ node.openable \in BOOLEAN
         /\ health.loaded \in BOOLEAN /\ health.age \in 0..(MaxAge + 1) \cup {NoSuccess}
         /\ ticker.left \in 1..Interval /\ ticker.due \in BOOLEAN
         /\ poll.at \in {"idle", "asked", "answered"} /\ poll.lasted \in 0..Timeout /\ poll.err \in {0, 1, -18}
         /\ seen.read \in 0..(MaxAge + 1) /\ seen.gone \in 0..(Interval + 1) /\ seen.hand \in BOOLEAN
<1> USE DEF NodeType, HealthType, TickerType, PollType, SeenType
<1>1. node \in NodeType /\ health \in HealthType /\ ticker \in TickerType /\ poll \in PollType /\ seen \in SeenType
  BY TypeParts
<1>2. /\ node.up \in BOOLEAN /\ node.busy \in BOOLEAN /\ node.loaded \in BOOLEAN
      /\ node.startup \in BOOLEAN /\ node.exists \in BOOLEAN /\ node.openable \in BOOLEAN
  BY <1>1, Zenon
<1>3. health.loaded \in BOOLEAN /\ health.age \in 0..(MaxAge + 1) \cup {NoSuccess}
  BY <1>1, Zenon
<1>4. ticker.left \in 1..Interval /\ ticker.due \in BOOLEAN
  BY <1>1, Zenon
<1>5. poll.at \in {"idle", "asked", "answered"} /\ poll.lasted \in 0..Timeout /\ poll.err \in {0, 1, -18}
  BY <1>1, Zenon
<1>6. seen.read \in 0..(MaxAge + 1) /\ seen.gone \in 0..(Interval + 1) /\ seen.hand \in BOOLEAN
  BY <1>1, Zenon
<1> QED
  BY <1>2, <1>3, <1>4, <1>5, <1>6, Zenon

\* The numbers that a tick writes are in their ranges.
LEMMA TickNumbers ==
  ASSUME TypeOK
  PROVE  /\ Lesser(seen.read + 1, MaxAge + 1) \in 0..(MaxAge + 1)
         /\ Lesser(seen.gone + 1, Interval + 1) \in 0..(Interval + 1)
         /\ 0 \in 0..(MaxAge + 1) /\ 0 \in 0..(Interval + 1) /\ 0 \in 0..Timeout /\ Interval \in 1..Interval
         /\ health.age # NoSuccess => Lesser(health.age + 1, MaxAge + 1) \in 0..(MaxAge + 1)
         /\ ticker.left # 1 => ticker.left - 1 \in 1..Interval
         /\ poll.lasted < Timeout => poll.lasted + 1 \in 0..Timeout
BY Fields, DurationAssumption DEF Lesser

-----------------------------------------------------------------------------
(* TypeOK is kept *)

\* What happens to the node and the disk keeps TypeOK.
LEMMA WorldType ==
  ASSUME TypeOK, NodeStops \/ NodeStarts \/ NodeBusy \/ Unload \/ LoadByHand \/ Damage \/ DiskTurns
  PROVE  TypeOK'
<1>0. /\ phase \in {"load", "cover", "run"} => node.exists
      /\ node \in NodeType /\ disk \in BOOLEAN /\ seen \in SeenType
  BY TypeParts
<1>1. /\ node' \in NodeType /\ node'.exists = node.exists /\ disk' \in BOOLEAN
      /\ UNCHANGED <<phase, health, ticker, poll>>
  <2>1. CASE NodeStops \/ NodeStarts \/ NodeBusy \/ Unload \/ LoadByHand \/ Damage
    <3>1. \/ node' = [node EXCEPT !.up = FALSE, !.busy = FALSE, !.loaded = FALSE]
          \/ node' = [node EXCEPT !.up = TRUE, !.loaded = node.startup /\ node.openable]
          \/ node' = [node EXCEPT !.busy = ~node.busy]
          \/ node' = [node EXCEPT !.loaded = FALSE]
          \/ node' = [node EXCEPT !.loaded = TRUE]
          \/ node' = [node EXCEPT !.openable = ~node.openable]
      BY <2>1, Zenon DEF NodeStops, NodeStarts, NodeBusy, Unload, LoadByHand, Damage
    <3>2. /\ (node.startup /\ node.openable) \in BOOLEAN /\ (~node.busy) \in BOOLEAN
          /\ (~node.openable) \in BOOLEAN /\ TRUE \in BOOLEAN /\ FALSE \in BOOLEAN
      BY Fields, Zenon
    <3>3. node' \in NodeType
      BY <1>0, <3>1, <3>2, NodeKept, Zenon
    <3>4. node'.exists = node.exists
      BY <1>0, <3>1 DEF NodeType
    <3>5. UNCHANGED <<disk, phase, health, ticker, poll>>
      BY <2>1 DEF NodeStops, NodeStarts, NodeBusy, Unload, LoadByHand, Damage
    <3> QED
      BY <1>0, <3>3, <3>4, <3>5
  <2>2. CASE DiskTurns
    BY <1>0, <2>2, Zenon DEF DiskTurns
  <2> QED
    BY <2>1, <2>2
<1>2. seen' \in SeenType
  <2>1. \/ seen' = seen \/ seen' = [seen EXCEPT !.gone = 0] \/ seen' = [seen EXCEPT !.hand = TRUE, !.gone = 0]
    BY DEF NodeStops, NodeStarts, NodeBusy, Unload, LoadByHand, Damage, DiskTurns
  <2> QED
    BY <1>0, <2>1, SeenKept, TickNumbers, Zenon
<1> QED
  BY <1>0, <1>1, <1>2, TypeParts DEF TypeOK, NodeType, SeenType

\* What a call of the start leaves of the node, if it is not the node as it was.
LEMMA StartType ==
  ASSUME TypeOK, Start \/ Greet \/ CreateWallet \/ LoadWallet \/ Crash
  PROVE  TypeOK'
<1>0. phase \in {"load", "cover", "run"} => node.exists
  BY TypeParts
<1>1. /\ UNCHANGED <<disk, health, ticker, poll, seen>>
      /\ phase' \in {"down", "greet", "create", "load", "cover", "run"}
      /\ \/ node' = node
         \/ node' = [node EXCEPT !.exists = TRUE, !.loaded = TRUE, !.startup = TRUE]
         \/ node' = [node EXCEPT !.loaded = TRUE, !.startup = TRUE]
  BY DEF Start, Greet, CreateWallet, LoadWallet, Crash
<1>2. node \in NodeType /\ node.exists \in BOOLEAN
  BY TypeParts, Fields
<1>3. node' \in NodeType
  BY <1>1, <1>2, NodeKept
<1>4. node.exists => node'.exists
  BY <1>1, <1>2 DEF NodeType
<1>5. phase' \in {"load", "cover", "run"} => node'.exists
  <2>1. CASE CreateWallet
    <3>1. PICK reply \in Replies(CreateCode) :
            phase' = IF Call(reply) = 0 THEN "cover"
                     ELSE IF IsAlreadyExists(Call(reply)) THEN "load" ELSE "down"
      BY <2>1 DEF CreateWallet
    <3>2. CASE node.exists
      BY <1>4, <3>2
    <3>3. CASE ~node.exists
      <4>1. Call(reply) # 1 => node.up /\ ~node.busy
        BY <3>3, CallOutcome DEF CreateCode
      <4>2. Call(reply) \in {1, 0}
        BY <3>3, CallOutcome DEF CreateCode
      <4>3. Call(reply) = 1 => phase' = "down"
        BY <3>1 DEF IsAlreadyExists
      <4>4. node.up /\ ~node.busy => node' = [node EXCEPT !.exists = TRUE, !.loaded = TRUE, !.startup = TRUE]
        BY <2>1, <3>3 DEF CreateWallet
      <4> QED
        BY <1>2, <4>1, <4>2, <4>3, <4>4 DEF NodeType
    <3> QED
      BY <3>2, <3>3
  <2>2. CASE LoadWallet
    BY <1>0, <1>4, <2>2 DEF LoadWallet
  <2>3. CASE Start \/ Greet \/ Crash
    BY <2>3 DEF Start, Greet, Crash
  <2> QED
    BY <2>1, <2>2, <2>3
<1> QED
  BY <1>1, <1>3, <1>5, TypeParts DEF TypeOK, NodeType

\* The last step of a start, and the steps of a poll.
LEMMA RunType ==
  ASSUME TypeOK, Cover \/ BeginPoll \/ Answer \/ EndPoll
  PROVE  TypeOK'
<1>0. /\ phase \in {"load", "cover", "run"} => node.exists
      /\ node \in NodeType /\ disk \in BOOLEAN
      /\ phase \in {"down", "greet", "create", "load", "cover", "run"}
      /\ health \in HealthType /\ ticker \in TickerType
      /\ poll \in PollType /\ seen \in SeenType
  BY TypeParts
<1>1. UNCHANGED <<node, disk>> /\ (phase' = phase \/ (phase = "cover" /\ phase' \in {"run", "down"}))
  BY DEF Cover, BeginPoll, Answer, EndPoll
<1>2. WalletCode \in {0, -18}
  BY DEF WalletCode
<1>3. health' \in HealthType
  <2>1. CASE EndPoll
    <3>1. health' = PollSucceeded(health) \/ \E err \in {0, 1, -18} : health' = PollFailed(health, err)
      BY <2>1, Fields DEF EndPoll
    <3>2. health' \in {health, [health EXCEPT !.age = 0, !.loaded = TRUE], [health EXCEPT !.loaded = FALSE]}
      BY <3>1 DEF PollSucceeded, PollFailed
    <3>3. 0 \in 0..(MaxAge + 1) \cup {NoSuccess}
      BY TickNumbers
    <3> QED
      BY <1>0, <3>2, <3>3, HealthKept
  <2>2. CASE Cover
    <3>1. health' \in {health, NewHealth}
      BY <2>2 DEF Cover
    <3>2. NewHealth \in HealthType
      BY <1>0, HealthKept DEF NewHealth
    <3> QED
      BY <1>0, <3>1, <3>2
  <2> QED
    BY <1>0, <2>1, <2>2 DEF BeginPoll, Answer
<1>4. ticker' \in TickerType
  <2>1. \/ ticker' = ticker \/ ticker' = [ticker EXCEPT !.due = FALSE]
        \/ ticker' = [left |-> Interval, due |-> TRUE]
    BY DEF Cover, BeginPoll, Answer, EndPoll
  <2> QED
    BY <1>0, <2>1, TickerKept, TickNumbers, Zenon
<1>5. poll' \in PollType
  <2>1. CASE Answer
    <3>1. PICK reply \in Replies(WalletCode) : poll' = [poll EXCEPT !.at = "answered", !.err = Call(reply)]
      BY <2>1, Zenon DEF Answer
    <3>2. Call(reply) \in {0, 1, -18}
      BY <1>2, CallOutcome
    <3>3. 0 \in 0..Timeout
      BY TickNumbers
    <3> QED
      BY <1>0, <3>1, <3>2, <3>3, PollKept
  <2>2. CASE ~Answer
    <3>1. poll' \in {poll, [at |-> "asked", lasted |-> 0, err |-> 0], [at |-> "answered", lasted |-> 0, err |-> 1],
                     [at |-> "idle", lasted |-> 0, err |-> 0], [poll EXCEPT !.at = "idle", !.err = 0]}
      BY <2>2 DEF Cover, BeginPoll, EndPoll
    <3>2. 0 \in 0..Timeout
      BY TickNumbers
    <3> QED
      BY <1>0, <3>1, <3>2, PollKept
  <2> QED
    BY <2>1, <2>2
<1>6. seen' \in SeenType
  <2>1. \/ seen' = seen \/ seen' = [seen EXCEPT !.gone = 0] \/ seen' = [seen EXCEPT !.read = 0]
    BY DEF Cover, BeginPoll, Answer, EndPoll
  <2> QED
    BY <1>0, <2>1, SeenKept, TickNumbers, Zenon
<1>7. phase' \in {"load", "cover", "run"} => node'.exists
  BY <1>0, <1>1
<1>8. phase' \in {"down", "greet", "create", "load", "cover", "run"}
  BY <1>0, <1>1
<1> QED
  BY <1>0, <1>1, <1>3, <1>4, <1>5, <1>6, <1>7, <1>8, TypeParts
     DEF TypeOK, NodeType, HealthType, TickerType, PollType, SeenType

\* What a tick does.
LEMMA TickDoes ==
  ASSUME TypeOK, Tick
  PROVE  /\ Quiet /\ UNCHANGED <<node, disk, phase>>
         /\ seen' = [seen EXCEPT !.read = Lesser(seen.read + 1, MaxAge + 1),
                                 !.gone = IF Missing THEN Lesser(seen.gone + 1, Interval + 1) ELSE 0]
         /\ ~Running => UNCHANGED <<health, ticker, poll>>
         /\ Running =>
              /\ health' = [health EXCEPT !.age = IF health.age = NoSuccess THEN health.age
                                                  ELSE Lesser(health.age + 1, MaxAge + 1)]
              /\ ticker' = [left |-> IF ticker.left = 1 THEN Interval ELSE ticker.left - 1,
                            due  |-> ticker.due \/ ticker.left = 1]
              /\ poll' = IF poll.at = "asked" THEN [poll EXCEPT !.lasted = poll.lasted + 1] ELSE poll
BY Zenon DEF Tick

\* A tick keeps TypeOK.
LEMMA TickType == ASSUME TypeOK, Tick PROVE TypeOK'
<1>0. /\ phase \in {"load", "cover", "run"} => node.exists
      /\ node \in NodeType /\ disk \in BOOLEAN
      /\ phase \in {"down", "greet", "create", "load", "cover", "run"}
      /\ health \in HealthType /\ ticker \in TickerType
      /\ poll \in PollType /\ seen \in SeenType
  BY TypeParts
<1>1. health' \in HealthType
  <2>1. CASE Running
    <3> DEFINE a == IF health.age = NoSuccess THEN health.age ELSE Lesser(health.age + 1, MaxAge + 1)
    <3>1. a \in 0..(MaxAge + 1) \cup {NoSuccess}
      BY TickNumbers
    <3>2. health' = [health EXCEPT !.age = a]
      BY <2>1, TickDoes
    <3> HIDE DEF a
    <3> QED
      BY <1>0, <3>1, <3>2, HealthKept
  <2> QED
    BY <1>0, <2>1, TickDoes
<1>2. ticker' \in TickerType
  <2>1. CASE Running
    <3> DEFINE n == IF ticker.left = 1 THEN Interval ELSE ticker.left - 1
               b == ticker.due \/ ticker.left = 1
    <3>1. n \in 1..Interval /\ b \in BOOLEAN
      BY TickNumbers
    <3>2. ticker' = [left |-> n, due |-> b]
      BY <2>1, TickDoes
    <3> HIDE DEF n, b
    <3> QED
      BY <1>0, <3>1, <3>2, TickerKept
  <2> QED
    BY <1>0, <2>1, TickDoes
<1>3. poll' \in PollType
  <2>1. CASE Running /\ poll.at = "asked"
    <3>1. poll.lasted < Timeout
      BY <2>1, TickDoes DEF Quiet
    <3>2. poll' = [poll EXCEPT !.lasted = poll.lasted + 1] /\ poll.lasted + 1 \in 0..Timeout
      BY <2>1, <3>1, TickDoes, TickNumbers
    <3> QED
      BY <1>0, <3>2, PollKept
  <2>2. CASE ~(Running /\ poll.at = "asked")
    <3>1. poll' = poll
      BY <2>2, TickDoes, Zenon
    <3> QED
      BY <1>0, <3>1
  <2> QED
    BY <2>1, <2>2
<1>4. seen' \in SeenType
  <2> DEFINE m == Lesser(seen.read + 1, MaxAge + 1)
             g == IF Missing THEN Lesser(seen.gone + 1, Interval + 1) ELSE 0
  <2>1. m \in 0..(MaxAge + 1) /\ g \in 0..(Interval + 1)
    BY TickNumbers
  <2>2. seen' = [seen EXCEPT !.read = m, !.gone = g]
    BY TickDoes
  <2> HIDE DEF m, g
  <2> QED
    BY <1>0, <2>1, <2>2, SeenKept
<1> QED
  BY <1>0, <1>1, <1>2, <1>3, <1>4, TickDoes, TypeParts
     DEF TypeOK, NodeType, HealthType, TickerType, PollType, SeenType

\* Every step keeps TypeOK.
LEMMA TypeKept == TypeOK /\ [Next]_vars => TypeOK'
<1>1. ASSUME TypeOK, UNCHANGED vars PROVE TypeOK'
  <2>1. UNCHANGED <<node, disk, phase, health, ticker, poll, seen>>
    BY <1>1, Zenon DEF vars
  <2>2. TypeOK' <=> /\ phase' \in {"load", "cover", "run"} => node'.exists
                    /\ node' \in NodeType /\ disk' \in BOOLEAN
                    /\ phase' \in {"down", "greet", "create", "load", "cover", "run"}
                    /\ health' \in HealthType /\ ticker' \in TickerType
                    /\ poll' \in PollType /\ seen' \in SeenType
    BY Zenon DEF TypeOK, NodeType, HealthType, TickerType, PollType, SeenType
  <2> QED
    BY <1>1, <2>1, <2>2, TypeParts, Zenon
<1> QED
  BY <1>1, WorldType, StartType, RunType, TickType DEF Next

-----------------------------------------------------------------------------
(* The other parts of the invariant are kept *)

\* The records that the proofs below look into.
LEMMA Shapes ==
  ASSUME TypeOK
  PROVE  node \in NodeType /\ health \in HealthType /\ ticker \in TickerType /\ poll \in PollType /\ seen \in SeenType
BY TypeParts

\* What happens to the node and the disk leaves SuccessWasRead alone.
LEMMA ReadKeptByWorld ==
  ASSUME TypeOK, SuccessWasRead, NodeStops \/ NodeStarts \/ NodeBusy \/ Unload \/ LoadByHand \/ Damage \/ DiskTurns
  PROVE  SuccessWasRead'
<1>1. UNCHANGED <<phase, health, ticker, poll>>
  BY Zenon DEF NodeStops, NodeStarts, NodeBusy, Unload, LoadByHand, Damage, DiskTurns
<1>2. seen'.read = seen.read
  <2>1. \/ seen' = seen \/ seen' = [seen EXCEPT !.gone = 0] \/ seen' = [seen EXCEPT !.hand = TRUE, !.gone = 0]
    BY DEF NodeStops, NodeStarts, NodeBusy, Unload, LoadByHand, Damage, DiskTurns
  <2> QED
    BY <2>1, Shapes DEF SeenType
<1> QED
  BY <1>1, <1>2 DEF SuccessWasRead, Running

\* A poll is a success only if it has just read the wallet.
LEMMA ReadKeptByPolls ==
  ASSUME TypeOK, SuccessWasRead, Cover \/ BeginPoll \/ Answer \/ EndPoll
  PROVE  SuccessWasRead'
<1>1. CASE Cover
  <2>1. phase' = "run" => health' = NewHealth /\ poll' = [at |-> "idle", lasted |-> 0, err |-> 0]
    BY <1>1 DEF Cover
  <2> QED
    BY <2>1 DEF SuccessWasRead, Running, NewHealth
<1>2. CASE BeginPoll
  <2>1. UNCHANGED <<phase, health, seen>> /\ (poll'.at = "answered" => poll'.err = 1)
    BY <1>2 DEF BeginPoll
  <2> QED
    BY <2>1 DEF SuccessWasRead, Running
<1>3. CASE Answer
  <2>1. PICK reply \in Replies(WalletCode) :
          /\ poll' = [poll EXCEPT !.at = "answered", !.err = Call(reply)]
          /\ seen' = IF reply = Reply(0) THEN [seen EXCEPT !.read = 0] ELSE seen
    BY <1>3, Zenon DEF Answer
  <2>2. UNCHANGED <<phase, health>>
    BY <1>3 DEF Answer
  <2>3. poll'.err = Call(reply)
    BY <2>1, Shapes DEF PollType
  <2>4. Call(reply) = 0 => reply = Reply(0)
    BY CallOutcome DEF WalletCode
  <2>5. seen'.read \in {0, seen.read} /\ (reply = Reply(0) => seen'.read = 0)
    BY <2>1, Shapes DEF SeenType
  <2>6. health.age # NoSuccess => health.age >= 0
    BY Fields, DurationAssumption
  <2> QED
    BY <2>2, <2>3, <2>4, <2>5, <2>6 DEF SuccessWasRead, Running
<1>4. CASE EndPoll
  <2>1. UNCHANGED <<phase, seen>> /\ poll'.at = "idle"
    BY <1>4, Shapes DEF EndPoll, PollType
  <2>2. \/ health'.age = 0 /\ poll.at = "answered" /\ poll.err = 0
        \/ health'.age = health.age
    BY <1>4, Shapes DEF EndPoll, PollSucceeded, PollFailed, HealthType
  <2> QED
    BY <2>1, <2>2 DEF SuccessWasRead, Running
<1> QED
  BY <1>1, <1>2, <1>3, <1>4

\* Time goes on for both.
LEMMA ReadKeptByTick == ASSUME TypeOK, SuccessWasRead, Tick PROVE SuccessWasRead'
<1>1. UNCHANGED phase /\ Quiet
  BY TickDoes
<1>2. CASE Running
  <2>1. poll'.at # "answered"
    <3>1. poll.at # "answered"
      BY <1>1, <1>2 DEF Quiet
    <3> QED
      BY <1>2, <3>1, TickDoes, Shapes DEF PollType
  <2>2. seen'.read = Lesser(seen.read + 1, MaxAge + 1)
    BY TickDoes, Shapes DEF SeenType
  <2>3. health'.age = IF health.age = NoSuccess THEN health.age ELSE Lesser(health.age + 1, MaxAge + 1)
    BY <1>2, TickDoes, Shapes DEF HealthType
  <2>4. health.age # NoSuccess => Lesser(seen.read + 1, MaxAge + 1) <= Lesser(health.age + 1, MaxAge + 1)
    BY <1>2, Fields, DurationAssumption DEF SuccessWasRead, Lesser
  <2> QED
    BY <2>1, <2>2, <2>3, <2>4 DEF SuccessWasRead
<1> QED
  BY <1>1, <1>2 DEF SuccessWasRead, Running

\* Every step keeps SuccessWasRead.
LEMMA ReadKept == TypeOK /\ SuccessWasRead /\ [Next]_vars => SuccessWasRead'
<1>1. ASSUME SuccessWasRead, UNCHANGED vars PROVE SuccessWasRead'
  BY <1>1 DEF SuccessWasRead, Running, vars
<1>2. ASSUME Start \/ Greet \/ CreateWallet \/ LoadWallet \/ Crash PROVE SuccessWasRead'
  <2>1. phase' # "run"
    BY <1>2 DEF Start, Greet, CreateWallet, LoadWallet, Crash
  <2> QED
    BY <2>1 DEF SuccessWasRead, Running
<1> QED
  BY <1>1, <1>2, ReadKeptByWorld, ReadKeptByPolls, ReadKeptByTick DEF Next

\* What happens to the node and the disk: only a wallet that comes back, and only if it is
\* seen to, ends its absence.
LEMMA GoneKeptByWorld ==
  ASSUME TypeOK, GoneIsFound, NodeStops \/ NodeStarts \/ NodeBusy \/ Unload \/ LoadByHand \/ Damage \/ DiskTurns
  PROVE  GoneIsFound'
<1>1. CASE NodeStops \/ NodeBusy \/ LoadByHand \/ DiskTurns
  <2>1. seen' = [seen EXCEPT !.gone = 0] \/ seen' = [seen EXCEPT !.hand = TRUE, !.gone = 0]
    BY <1>1 DEF NodeStops, NodeBusy, LoadByHand, DiskTurns
  <2>2. seen'.gone = 0
    BY <2>1, Shapes DEF SeenType
  <2> QED
    BY <2>2 DEF GoneIsFound
<1>2. CASE NodeStarts \/ Unload
  <2>1. ~(Missing /\ Running)
    BY <1>2 DEF NodeStarts, Unload, Missing
  <2>2. UNCHANGED <<phase, seen>>
    BY <1>2 DEF NodeStarts, Unload
  <2>3. Running' => ~(seen'.gone > 0)
    BY <2>1, <2>2 DEF GoneIsFound, Running
  <2> QED
    BY <2>3 DEF GoneIsFound
<1>3. CASE Damage
  <2>1. UNCHANGED <<disk, phase, health, ticker, poll, seen>>
    BY <1>3 DEF Damage
  <2>2. node'.up = node.up /\ node'.busy = node.busy /\ node'.loaded = node.loaded
    BY <1>3, Shapes DEF Damage, NodeType
  <2> QED
    BY <2>1, <2>2 DEF GoneIsFound, Missing, Running
<1> QED
  BY <1>1, <1>2, <1>3

\* A poll that asks while the wallet is missing is told so, and says so.
LEMMA GoneKeptByPolls ==
  ASSUME TypeOK, GoneIsFound, Cover \/ BeginPoll \/ Answer \/ EndPoll
  PROVE  GoneIsFound'
<1>1. CASE Cover
  <2>1. phase' = "run" => seen' = [seen EXCEPT !.gone = 0]
    BY <1>1 DEF Cover
  <2>2. phase' = "run" => seen'.gone = 0
    BY <2>1, Shapes DEF SeenType
  <2> QED
    BY <2>2 DEF GoneIsFound, Running
<1>2. CASE BeginPoll
  <2>1. UNCHANGED <<node, disk, phase, health, seen>> /\ ticker.due /\ (disk => poll'.at = "asked")
    BY <1>2 DEF BeginPoll
  <2>2. ticker'.left = ticker.left
    BY <1>2, Shapes DEF BeginPoll, TickerType
  <2>3. SUFFICES ASSUME Running, seen.gone > 0
                 PROVE  /\ Missing' /\ poll'.at = "asked"
                        /\ health.loaded => seen.gone <= Interval
    BY <2>1 DEF GoneIsFound, Running
  <2>4. Missing
    BY <2>3 DEF GoneIsFound
  <2>5. poll'.at = "asked" /\ Missing'
    BY <2>1, <2>4 DEF Missing, Running
  <2>6. health.loaded => seen.gone <= Interval
    BY <2>3, Fields, DurationAssumption DEF GoneIsFound
  <2> QED
    BY <2>5, <2>6
<1>3. CASE Answer
  <2>1. PICK reply \in Replies(WalletCode) :
          /\ poll' = [poll EXCEPT !.at = "answered", !.err = Call(reply)]
          /\ seen' = IF reply = Reply(0) THEN [seen EXCEPT !.read = 0] ELSE seen
    BY <1>3, Zenon DEF Answer
  <2>2. UNCHANGED <<node, disk, phase, health, ticker>>
    BY <1>3 DEF Answer
  <2>3. seen'.gone = seen.gone
    BY <2>1, Shapes DEF SeenType
  <2>4. poll'.at = "answered" /\ poll'.err = Call(reply)
    BY <2>1, Shapes DEF PollType
  <2>5. Missing => Call(reply) = -18 /\ Missing'
    <3>1. Missing => WalletCode = -18 /\ node.up /\ ~node.busy
      BY DEF Missing, WalletCode
    <3>2. Missing => Call(reply) = -18
      BY <3>1, CallOutcome
    <3> QED
      BY <2>2, <3>2 DEF Missing, Running
  <2>6. SUFFICES ASSUME Running, seen.gone > 0
                 PROVE  Missing /\ (health.loaded => seen.gone <= Interval)
    BY <2>2, <2>3, <2>4, <2>5 DEF GoneIsFound, Running
  <2> QED
    BY <2>6, Fields, DurationAssumption DEF GoneIsFound
<1>4. CASE EndPoll
  <2>1. UNCHANGED <<node, disk, phase, ticker, seen>> /\ poll'.at = "idle" /\ poll.at = "answered"
    BY <1>4, Shapes DEF EndPoll, PollType
  <2>2. poll.err = -18 => health'.loaded = FALSE
    <3>1. poll.err = -18 => health' = [health EXCEPT !.loaded = FALSE]
      BY <1>4 DEF EndPoll, PollFailed, IsWalletNotLoaded
    <3> QED
      BY <3>1, Shapes DEF HealthType
  <2>3. SUFFICES ASSUME Running, seen.gone > 0
                 PROVE  Missing' /\ health'.loaded = FALSE
    BY <2>1 DEF GoneIsFound, Running
  <2>4. Missing /\ poll.err = -18
    BY <2>1, <2>3 DEF GoneIsFound
  <2> QED
    BY <2>1, <2>2, <2>4 DEF Missing, Running
<1> QED
  BY <1>1, <1>2, <1>3, <1>4

\* A tick that sees the wallet missing sees no poll that could have found out.
LEMMA GoneKeptByTick == ASSUME TypeOK, GoneIsFound, Tick PROVE GoneIsFound'
<1>1. Quiet /\ UNCHANGED <<node, disk, phase>>
  BY TickDoes
<1>2. seen'.gone = IF Missing THEN Lesser(seen.gone + 1, Interval + 1) ELSE 0
  BY TickDoes, Shapes DEF SeenType
<1>3. CASE Missing
  <2>1. Running /\ Missing'
    BY <1>1, <1>3 DEF Missing, Running
  <2>2. poll.at = "idle" /\ ~ticker.due
    BY <1>1, <1>3, Fields DEF Quiet, Missing
  <2>3. poll' = poll
    BY <2>1, <2>2, TickDoes
  <2>4. /\ ticker'.left = IF ticker.left = 1 THEN Interval ELSE ticker.left - 1
        /\ ticker.left = 1 => ticker'.due
    <3> DEFINE n == IF ticker.left = 1 THEN Interval ELSE ticker.left - 1
               b == ticker.due \/ ticker.left = 1
    <3>1. ticker' = [left |-> n, due |-> b]
      BY <2>1, TickDoes
    <3> HIDE DEF n, b
    <3>2. ticker'.left = n /\ ticker'.due = b
      BY <3>1
    <3> QED
      BY <3>2 DEF n, b
  <2>5. health'.loaded = health.loaded
    BY <2>1, TickDoes, Shapes DEF HealthType
  <2>6. health.loaded => seen.gone + ticker.left <= Interval
    BY <2>1, <2>2, Fields, DurationAssumption DEF GoneIsFound
  <2>7. health.loaded => /\ seen'.gone <= seen.gone + 1
                         /\ \/ ticker'.due /\ seen'.gone <= Interval
                            \/ seen'.gone + ticker'.left <= Interval
    BY <1>2, <1>3, <2>4, <2>6, Fields, DurationAssumption DEF Lesser
  <2> QED
    BY <2>1, <2>2, <2>3, <2>5, <2>7 DEF GoneIsFound
<1>4. CASE ~Missing
  BY <1>2, <1>4 DEF GoneIsFound
<1> QED
  BY <1>3, <1>4

\* Every step keeps GoneIsFound.
LEMMA GoneKept == TypeOK /\ GoneIsFound /\ [Next]_vars => GoneIsFound'
<1>1. ASSUME GoneIsFound, UNCHANGED vars PROVE GoneIsFound'
  BY <1>1 DEF GoneIsFound, Missing, Running, vars
<1>2. ASSUME Start \/ Greet \/ CreateWallet \/ LoadWallet \/ Crash PROVE GoneIsFound'
  <2>1. phase' # "run"
    BY <1>2 DEF Start, Greet, CreateWallet, LoadWallet, Crash
  <2> QED
    BY <2>1 DEF GoneIsFound, Running
<1> QED
  BY <1>1, <1>2, GoneKeptByWorld, GoneKeptByPolls, GoneKeptByTick DEF Next

\* Only a hand puts a wallet into a node that is not on its startup list, and the last steps of
\* a start are reached with a wallet that is.
LEMMA StartupKept == TypeOK /\ StartupIsSet /\ [Next]_vars => StartupIsSet'
<1> SUFFICES ASSUME TypeOK, StartupIsSet, [Next]_vars PROVE StartupIsSet'
  OBVIOUS
<1>1. CASE UNCHANGED vars
  BY <1>1 DEF StartupIsSet, vars
<1>2. CASE NodeStops \/ NodeStarts \/ NodeBusy \/ Unload \/ Damage
  <2>1. /\ phase' = phase
        /\ seen' = seen \/ seen' = [seen EXCEPT !.gone = 0]
        /\ \/ node' = [node EXCEPT !.up = FALSE, !.busy = FALSE, !.loaded = FALSE]
           \/ node' = [node EXCEPT !.up = TRUE, !.loaded = node.startup /\ node.openable]
           \/ node' = [node EXCEPT !.busy = ~node.busy]
           \/ node' = [node EXCEPT !.loaded = FALSE]
           \/ node' = [node EXCEPT !.openable = ~node.openable]
    BY <1>2 DEF NodeStops, NodeStarts, NodeBusy, Unload, Damage
  <2>2. seen'.hand = seen.hand
    BY <2>1, Shapes DEF SeenType
  <2>3. node'.startup = node.startup
    BY <2>1, Shapes DEF NodeType
  <2>4. node'.loaded => node.loaded \/ node.startup
    BY <2>1, Shapes DEF NodeType
  <2> QED
    BY <2>1, <2>2, <2>3, <2>4 DEF StartupIsSet
<1>3. CASE LoadByHand
  <2>1. seen'.hand = TRUE
    BY <1>3, Shapes DEF LoadByHand, SeenType
  <2> QED
    BY <2>1 DEF StartupIsSet
<1>4. CASE DiskTurns \/ BeginPoll \/ Answer \/ EndPoll \/ Tick
  <2>1. node' = node /\ phase' = phase
    BY <1>4 DEF DiskTurns, BeginPoll, Answer, EndPoll, Tick
  <2>2. seen'.hand = seen.hand
    <3>1. CASE Tick
      BY <3>1, TickDoes, Shapes DEF SeenType
    <3>2. CASE DiskTurns \/ BeginPoll \/ Answer \/ EndPoll
      <4>1. seen' = seen \/ seen' = [seen EXCEPT !.gone = 0] \/ seen' = [seen EXCEPT !.read = 0]
        BY <3>2 DEF DiskTurns, BeginPoll, Answer, EndPoll
      <4> QED
        BY <4>1, Shapes DEF SeenType
    <3> QED
      BY <1>4, <3>1, <3>2
  <2> QED
    BY <2>1, <2>2 DEF StartupIsSet
<1>5. CASE Start \/ Greet \/ Crash
  <2>1. node' = node /\ seen' = seen /\ phase' \notin {"cover", "run"}
    BY <1>5 DEF Start, Greet, Crash
  <2> QED
    BY <2>1 DEF StartupIsSet
<1>6. CASE CreateWallet
  <2>1. PICK reply \in Replies(CreateCode) :
          phase' = IF Call(reply) = 0 THEN "cover" ELSE IF IsAlreadyExists(Call(reply)) THEN "load" ELSE "down"
    BY <1>6 DEF CreateWallet
  <2>2. seen' = seen /\ (node' = node \/ node' = [node EXCEPT !.exists = TRUE, !.loaded = TRUE, !.startup = TRUE])
    BY <1>6 DEF CreateWallet
  <2>3. node' = node \/ node'.startup = TRUE
    BY <2>2, Shapes DEF NodeType
  <2>4. phase' = "cover" => node'.startup = TRUE
    <3>1. phase' = "cover" => Call(reply) = 0
      BY <2>1
    <3>2. Call(reply) = 0 => node.up /\ ~node.busy /\ ~node.exists
      BY CallOutcome DEF CreateCode
    <3>3. ~node.exists /\ ~node.busy /\ node.up => node' = [node EXCEPT !.exists = TRUE, !.loaded = TRUE, !.startup = TRUE]
      BY <1>6 DEF CreateWallet
    <3> QED
      BY <3>1, <3>2, <3>3, Shapes DEF NodeType
  <2>5. phase' # "run"
    BY <2>1
  <2> QED
    BY <2>2, <2>3, <2>4, <2>5 DEF StartupIsSet
<1>7. CASE LoadWallet
  <2>1. PICK reply \in Replies(LoadCode) :
          phase' = IF Call(reply) = 0 \/ IsAlreadyLoaded(Call(reply)) THEN "cover" ELSE "down"
    BY <1>7 DEF LoadWallet
  <2>2. seen' = seen /\ (node' = node \/ node' = [node EXCEPT !.loaded = TRUE, !.startup = TRUE])
    BY <1>7 DEF LoadWallet
  <2>3. node' = node \/ node'.startup = TRUE
    BY <2>2, Shapes DEF NodeType
  <2>4. phase' = "cover" => node'.startup = TRUE \/ (node' = node /\ node.loaded)
    <3>1. phase' = "cover" => Call(reply) \in {0, -35}
      BY <2>1 DEF IsAlreadyLoaded
    <3>2. Call(reply) \in {0, -35} => node.up /\ ~node.busy /\ (node.loaded \/ node.openable)
      BY CallOutcome DEF LoadCode
    <3>3. ~node.loaded /\ node.openable /\ ~node.busy /\ node.up => node' = [node EXCEPT !.loaded = TRUE, !.startup = TRUE]
      BY <1>7 DEF LoadWallet
    <3>4. node.loaded => node' = node
      BY <1>7 DEF LoadWallet
    <3> QED
      BY <3>1, <3>2, <3>3, <3>4, Shapes DEF NodeType
  <2>5. phase' # "run"
    BY <2>1
  <2> QED
    BY <2>2, <2>3, <2>4, <2>5 DEF StartupIsSet
<1>8. CASE Cover
  <2>1. node' = node /\ phase = "cover" /\ (seen' = seen \/ seen' = [seen EXCEPT !.gone = 0])
    BY <1>8 DEF Cover
  <2>2. seen'.hand = seen.hand
    BY <2>1, Shapes DEF SeenType
  <2> QED
    BY <2>1, <2>2 DEF StartupIsSet
<1> QED
  BY <1>1, <1>2, <1>3, <1>4, <1>5, <1>6, <1>7, <1>8 DEF Next

-----------------------------------------------------------------------------
(* The theorems *)

\* It all holds at the start.
LEMMA InitInv == Init => IInv
<1> SUFFICES ASSUME Init PROVE IInv
  OBVIOUS
<1>1. /\ node \in NodeType /\ disk \in BOOLEAN /\ phase = "down"
      /\ node.loaded => node.startup
  <2>1. PICK n \in [up : BOOLEAN, busy : {FALSE}, loaded : BOOLEAN, startup : BOOLEAN,
                    exists : BOOLEAN, openable : {TRUE}] :
          node = n /\ (n.loaded <=> n.up /\ n.startup)
    BY DEF Init
  <2> QED
    BY <2>1 DEF Init, NodeType
<1>2. health \in HealthType /\ health.age = NoSuccess
  BY DEF Init, NewHealth, HealthType
<1>3. ticker \in TickerType /\ poll \in PollType /\ seen \in SeenType
  <2>1. /\ ticker = [left |-> Interval, due |-> TRUE]
        /\ poll = [at |-> "idle", lasted |-> 0, err |-> 0]
        /\ seen = [read |-> MaxAge + 1, gone |-> 0, hand |-> FALSE]
    BY DEF Init
  <2>2. /\ Interval \in 1..Interval /\ 0 \in 0..Timeout
        /\ MaxAge + 1 \in 0..(MaxAge + 1) /\ 0 \in 0..(Interval + 1)
    BY DurationAssumption
  <2> QED
    BY <2>1, <2>2 DEF TickerType, PollType, SeenType
<1>4. TypeOK
  BY <1>1, <1>2, <1>3, TypeParts
<1> QED
  BY <1>1, <1>4 DEF IInv, SuccessWasRead, GoneIsFound, StartupIsSet, Running

\* Every step keeps it all.
LEMMA NextInv == IInv /\ [Next]_vars => IInv'
BY TypeKept, ReadKept, GoneKept, StartupKept DEF IInv

\* The inductive invariant: a success is as old as what was read, a missing wallet is found by the
\* poll that is coming, and what is loaded is on the startup list.
THEOREM Invariant == Spec => []IInv
BY InitInv, NextInv, PTL DEF Spec

\* Every variable has its shape, and no start gets past createwallet without a wallet.
THEOREM TypeCorrect == Spec => []TypeOK
<1>1. IInv => TypeOK
  BY DEF IInv
<1> QED
  BY <1>1, Invariant, PTL

\* 200 from /healthz says that the wallet was read at most MaxAge ago (health.go, Report).
THEOREM HealthyCorrect == Spec => []HealthyCouldRead
<1>1. IInv => HealthyCouldRead
  <2> SUFFICES ASSUME IInv, Running, Healthz = 200 PROVE seen.read <= MaxAge
    BY DEF HealthyCouldRead
  <2>1. TypeOK /\ SuccessWasRead
    BY DEF IInv
  <2>2. health.age # NoSuccess /\ health.age <= MaxAge
    <3>1. Report.ok
      BY DEF Healthz
    <3> QED
      BY <3>1 DEF Report
  <2>3. seen.read <= health.age
    BY <2>1, <2>2 DEF SuccessWasRead
  <2> QED
    BY <2>1, <2>2, <2>3, Fields, DurationAssumption
<1> QED
  BY <1>1, Invariant, PTL

\* A wallet that is gone for more than a poll interval is reported (health.go, PollFailed).
THEOREM GoneCorrect == Spec => []GoneIsReported
<1>1. IInv => GoneIsReported
  <2> SUFFICES ASSUME IInv, seen.gone > Interval, Missing
               PROVE  Healthz = 503 /\ WalletLoadedGauge = 0
    BY DEF GoneIsReported
  <2>1. TypeOK /\ GoneIsFound /\ Running
    BY DEF IInv, Missing
  <2>2. ~health.loaded
    BY <2>1, Fields, DurationAssumption DEF GoneIsFound
  <2>3. ~Report.ok /\ ~Report.loaded
    BY <2>2 DEF Report
  <2> QED
    BY <2>3 DEF Healthz, WalletLoadedGauge
<1> QED
  BY <1>1, Invariant, PTL

\* A node that restarts under a running gateway comes back with the wallet loaded, unless the
\* wallet was once loaded by hand or cannot be opened (calls.go, CreateWatchOnlyWallet).
THEOREM BringsBackCorrect == Spec => NodeBringsItBack
<1>1. IInv /\ [Next]_vars => [NodeStarts /\ Running /\ node.openable /\ ~seen.hand => node'.loaded]_vars
  <2> SUFFICES ASSUME IInv, NodeStarts, Running, node.openable, ~seen.hand PROVE node'.loaded
    OBVIOUS
  <2>1. node.startup
    BY DEF IInv, StartupIsSet, Running
  <2>2. node'.loaded = (node.startup /\ node.openable)
    <3>1. node \in NodeType
      BY Shapes DEF IInv
    <3> QED
      BY <3>1 DEF NodeStarts, NodeType
  <2> QED
    BY <2>1, <2>2
<1> QED
  BY <1>1, Invariant, PTL DEF Spec, NodeBringsItBack
=============================================================================
