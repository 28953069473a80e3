----------------------------- MODULE Readiness ------------------------------
(***************************************************************************)
(* Whether the gateway says of itself that it can see payments, and        *)
(* whether it can: the start in cmd/paygate (rpc.CreateWatchOnlyWallet     *)
(* above all), the ticker and the polls of internal/monitor as far as      *)
(* internal/health hears of them, the classification of replies in         *)
(* internal/rpc/client.go, and /healthz and /metrics.                      *)
(*                                                                         *)
(* The node (external) stops and starts, is too busy to answer, and has    *)
(* the gateway's wallet loaded or not; a wallet on disk may be one that it *)
(* cannot open.  Time passes in units that the three durations are         *)
(* multiples of; what takes no time in the code (a tick that is due, a     *)
(* call that the node answers, a commit) happens before time goes on.      *)
(*                                                                         *)
(* A definition marked "Fault" is a way the next one could have been       *)
(* written wrong: a run with the fault in its place must fail.             *)
(***************************************************************************)
EXTENDS Integers, FiniteSets

CONSTANTS
  Interval,     \* POLL_INTERVAL
  MaxAge,       \* HEALTH_MAX_POLL_AGE
  Timeout,      \* the RPC client's timeout
  Troubles,     \* what may happen to the gateway, of AllTroubles
  NoSuccess     \* lastSuccess of a process whose polls all failed

\* Nothing in the code sees to it that polls are more frequent than the age allowed.
ASSUME DurationAssumption ==
  /\ Interval \in Nat \ {0} /\ Timeout \in Nat \ {0} /\ MaxAge \in Nat /\ Interval <= MaxAge
  /\ NoSuccess \notin Int

VARIABLES
  node,    \* [up, busy, loaded, startup, exists, openable]: the process, and the wallet in it
  disk,    \* whether the gateway's database can be read and written
  phase,   \* of the gateway: "down", what a start does next, "run"
  health,  \* health.State: [loaded |-> walletLoaded, age |-> time since lastSuccess]
  ticker,  \* [left |-> time to the next tick, due |-> a tick waits in the channel]
  poll,    \* [at |-> "idle" | "asked" | "answered", lasted, err]
  seen     \* history: [read |-> time since the wallet was last read, gone |-> time for which
           \* the wallet was seen to be missing, hand |-> somebody has loaded the wallet by hand]

vars == <<node, disk, phase, health, ticker, poll, seen>>

AllTroubles == {"stop", "busy", "unload", "load by hand", "damage", "disk", "crash"}

Lesser(m, n) == IF m < n THEN m ELSE n

-----------------------------------------------------------------------------
(* Calls *)

\* An error is 0 (none), 1 (one without a code) or bitcoind's own, negative code.
Refused == [came |-> FALSE, http |-> 0, json |-> FALSE, code |-> 0]
Overloaded == [came |-> TRUE, http |-> 503, json |-> FALSE, code |-> 0]
Reply(code) == [came |-> TRUE, http |-> IF code = 0 THEN 200 ELSE 500, json |-> TRUE, code |-> code]

\* What the node makes of a call for which it has that code.
Replies(code) ==
  IF ~node.up THEN {Refused}
  ELSE IF node.busy THEN {Refused, Overloaded}
  ELSE {Reply(code)}

\* Fault: the HTTP status is looked at first, and core's errors come with a 500.
CallByStatus(reply) == IF reply.came /\ reply.http = 200 /\ reply.json THEN reply.code ELSE 1

\* Client.Call: what is JSON says itself what it is; the rest is an error without a code.
Call(reply) == IF reply.came /\ reply.json THEN reply.code ELSE 1

\* Fault: a wallet that is loaded already is an error like any other.
IsNeverLoaded(err) == FALSE

\* Fault: whatever createwallet says, the wallet is taken to be there.
IsAnyError(err) == TRUE

IsAlreadyExists(err) == err = -4
IsAlreadyLoaded(err) == err = -35
IsWalletNotLoaded(err) == err = -18

\* createwallet of a wallet on disk; loadwallet, whose -4 is a wallet on disk that the node
\* cannot open; any call of the wallet.
CreateCode == IF node.exists THEN -4 ELSE 0
LoadCode == IF node.loaded THEN -35 ELSE IF node.openable THEN 0 ELSE -4
WalletCode == IF node.loaded THEN 0 ELSE -18

-----------------------------------------------------------------------------
(* The node *)

NodeStops ==
  /\ "stop" \in Troubles /\ node.up
  /\ node' = [node EXCEPT !.up = FALSE, !.busy = FALSE, !.loaded = FALSE]
  /\ seen' = [seen EXCEPT !.gone = 0]
  /\ UNCHANGED <<disk, phase, health, ticker, poll>>

\* A node that starts loads the wallets of its startup list that it can open.
NodeStarts ==
  /\ ~node.up
  /\ node' = [node EXCEPT !.up = TRUE, !.loaded = node.startup /\ node.openable]
  /\ UNCHANGED <<disk, phase, health, ticker, poll, seen>>

NodeBusy ==
  /\ "busy" \in Troubles /\ node.up
  /\ node' = [node EXCEPT !.busy = ~@]
  /\ seen' = [seen EXCEPT !.gone = 0]
  /\ UNCHANGED <<disk, phase, health, ticker, poll>>

\* Somebody unloads the wallet, at any time.
Unload ==
  /\ "unload" \in Troubles /\ node.loaded
  /\ node' = [node EXCEPT !.loaded = FALSE]
  /\ UNCHANGED <<disk, phase, health, ticker, poll, seen>>

\* Somebody loads it by hand, which leaves the startup list alone.
LoadByHand ==
  /\ "load by hand" \in Troubles
  /\ node.up /\ node.exists /\ node.openable /\ ~node.loaded
  /\ node' = [node EXCEPT !.loaded = TRUE]
  /\ seen' = [seen EXCEPT !.hand = TRUE, !.gone = 0]
  /\ UNCHANGED <<disk, phase, health, ticker, poll>>

\* The wallet on disk becomes one that cannot be opened (a node that has pruned what it
\* would have to read), or is repaired.  A wallet that is loaded stays so.
Damage ==
  /\ "damage" \in Troubles /\ node.exists
  /\ node' = [node EXCEPT !.openable = ~@]
  /\ UNCHANGED <<disk, phase, health, ticker, poll, seen>>

\* The disk under the database fails, and works again.
DiskTurns ==
  /\ "disk" \in Troubles
  /\ disk' = ~disk
  /\ seen' = [seen EXCEPT !.gone = 0]
  /\ UNCHANGED <<node, phase, health, ticker, poll>>

-----------------------------------------------------------------------------
(* The start *)

Start ==
  /\ phase = "down"
  /\ phase' = "greet"
  /\ UNCHANGED <<node, disk, health, ticker, poll, seen>>

\* GetBlockchainInfo: a gateway whose node does not answer stops at once.
Greet ==
  /\ phase = "greet"
  /\ \E reply \in Replies(0) : phase' = IF Call(reply) = 0 THEN "create" ELSE "down"
  /\ UNCHANGED <<node, disk, health, ticker, poll, seen>>

\* createwallet, with load_on_startup.  A busy node may do it and not say so.
CreateWallet ==
  /\ phase = "create"
  /\ \E reply \in Replies(CreateCode) :
       phase' = IF Call(reply) = 0 THEN "cover"
                ELSE IF IsAlreadyExists(Call(reply)) THEN "load" ELSE "down"
  /\ \/ /\ node.up /\ ~node.exists
        /\ node' = [node EXCEPT !.exists = TRUE, !.loaded = TRUE, !.startup = TRUE]
     \/ (~node.up \/ node.exists \/ node.busy) /\ UNCHANGED node
  /\ UNCHANGED <<disk, health, ticker, poll, seen>>

\* Fault: load_on_startup is left to createwallet.
LoadWalletOnce ==
  /\ phase = "load"
  /\ \E reply \in Replies(LoadCode) :
       phase' = IF Call(reply) = 0 \/ IsAlreadyLoaded(Call(reply)) THEN "cover" ELSE "down"
  /\ \/ /\ node.up /\ ~node.loaded /\ node.openable
        /\ node' = [node EXCEPT !.loaded = TRUE]
     \/ (~node.up \/ node.loaded \/ ~node.openable \/ node.busy) /\ UNCHANGED node
  /\ UNCHANGED <<disk, health, ticker, poll, seen>>

\* loadwallet, with load_on_startup.  A node that has it loaded says so, and leaves its
\* startup list alone; one that cannot open it says that, and the start is over.
LoadWallet ==
  /\ phase = "load"
  /\ \E reply \in Replies(LoadCode) :
       phase' = IF Call(reply) = 0 \/ IsAlreadyLoaded(Call(reply)) THEN "cover" ELSE "down"
  /\ \/ /\ node.up /\ ~node.loaded /\ node.openable
        /\ node' = [node EXCEPT !.loaded = TRUE, !.startup = TRUE]
     \/ (~node.up \/ node.loaded \/ ~node.openable \/ node.busy) /\ UNCHANGED node
  /\ UNCHANGED <<disk, health, ticker, poll, seen>>

\* Fault: a process that has just started counts as one that has just polled.
NewHealthFresh == [loaded |-> TRUE, age |-> 0]

NewHealth == [loaded |-> TRUE, age |-> NoSuccess]

\* The rest of wallet.Open, the database, and the three loops: the first poll does not
\* wait for a tick.
Cover ==
  /\ phase = "cover"
  /\ \E reply \in Replies(WalletCode) :
       IF Call(reply) = 0 /\ disk
         THEN /\ phase' = "run"
              /\ health' = NewHealth
              /\ ticker' = [left |-> Interval, due |-> TRUE]
              /\ poll' = [at |-> "idle", lasted |-> 0, err |-> 0]
              /\ seen' = [seen EXCEPT !.gone = 0]
         ELSE phase' = "down" /\ UNCHANGED <<health, ticker, poll, seen>>
  /\ UNCHANGED <<node, disk>>

\* The process stops, wherever it is.
Crash ==
  /\ "crash" \in Troubles /\ phase # "down"
  /\ phase' = "down"
  /\ UNCHANGED <<node, disk, health, ticker, poll, seen>>

-----------------------------------------------------------------------------
(* Polls *)

\* The cursor is read, and if it can be the node is asked.
BeginPoll ==
  /\ phase = "run" /\ poll.at = "idle" /\ ticker.due
  /\ ticker' = [ticker EXCEPT !.due = FALSE]
  /\ poll' = IF disk THEN [at |-> "asked", lasted |-> 0, err |-> 0]
                     ELSE [at |-> "answered", lasted |-> 0, err |-> 1]
  /\ UNCHANGED <<node, disk, phase, health, seen>>

\* The node answers, or the call times out; a node that is up and busy takes its time.
Answer ==
  /\ phase = "run" /\ poll.at = "asked"
  /\ \E reply \in Replies(WalletCode) :
       /\ reply = Refused /\ node.up => poll.lasted = Timeout
       /\ poll' = [poll EXCEPT !.at = "answered", !.err = Call(reply)]
       /\ seen' = IF reply = Reply(0) THEN [seen EXCEPT !.read = 0] ELSE seen
  /\ UNCHANGED <<node, disk, phase, health, ticker>>

\* Fault: success does not take back what a failure said of the wallet.
PollSucceededOnly(h) == [h EXCEPT !.age = 0]

PollSucceeded(h) == [h EXCEPT !.age = 0, !.loaded = TRUE]

PollFailed(h, err) == IF IsWalletNotLoaded(err) THEN [h EXCEPT !.loaded = FALSE] ELSE h

\* What was learnt is committed, and the outcome of the poll is reported.
EndPoll ==
  /\ phase = "run" /\ poll.at = "answered"
  /\ IF poll.err = 0 /\ disk
       THEN health' = PollSucceeded(health)
       ELSE health' = PollFailed(health, IF poll.err = 0 THEN 1 ELSE poll.err)
  /\ poll' = [poll EXCEPT !.at = "idle", !.err = 0]
  /\ UNCHANGED <<node, disk, phase, ticker, seen>>

Running == phase = "run"

\* Nothing is left to do before time goes on.
Quiet ==
  Running => /\ poll.at = "idle" => ~ticker.due
             /\ poll.at = "asked" => node.up /\ node.busy /\ poll.lasted < Timeout
             /\ poll.at # "answered"

\* The wallet is missing, and a poll would find out.
Missing == Running /\ disk /\ node.up /\ ~node.busy /\ ~node.loaded

Tick ==
  /\ Quiet
  /\ IF Running
       THEN /\ health' = [health EXCEPT !.age = IF @ = NoSuccess THEN @ ELSE Lesser(@ + 1, MaxAge + 1)]
            /\ ticker' = [left |-> IF ticker.left = 1 THEN Interval ELSE ticker.left - 1,
                          due  |-> ticker.due \/ ticker.left = 1]
            /\ poll' = IF poll.at = "asked" THEN [poll EXCEPT !.lasted = @ + 1] ELSE poll
       ELSE UNCHANGED <<health, ticker, poll>>
  /\ seen' = [seen EXCEPT !.read = Lesser(@ + 1, MaxAge + 1),
                          !.gone = IF Missing THEN Lesser(@ + 1, Interval + 1) ELSE 0]
  /\ UNCHANGED <<node, disk, phase>>

-----------------------------------------------------------------------------
Init ==
  /\ node \in {n \in [up : BOOLEAN, busy : {FALSE}, loaded : BOOLEAN, startup : BOOLEAN,
                      exists : BOOLEAN, openable : {TRUE}] :
                 /\ n.startup => n.exists
                 /\ n.loaded <=> n.up /\ n.startup}
  /\ disk = TRUE
  /\ phase = "down"
  /\ health = NewHealth
  /\ ticker = [left |-> Interval, due |-> TRUE]
  /\ poll = [at |-> "idle", lasted |-> 0, err |-> 0]
  /\ seen = [read |-> MaxAge + 1, gone |-> 0, hand |-> FALSE]

Next ==
  \/ NodeStops \/ NodeStarts \/ NodeBusy \/ Unload \/ LoadByHand \/ Damage
  \/ DiskTurns
  \/ Start \/ Greet \/ CreateWallet \/ LoadWallet \/ Cover \/ Crash
  \/ BeginPoll \/ Answer \/ EndPoll \/ Tick

Spec == Init /\ [][Next]_vars

\* Time passes, the container is started again whenever it has stopped, and the process
\* goes on with what it can do; a start may be broken off again and again, not always.
FairSpec ==
  /\ Spec
  /\ WF_vars(Tick) /\ WF_vars(BeginPoll) /\ WF_vars(Answer) /\ WF_vars(EndPoll)
  /\ WF_vars(Start)
  /\ SF_vars(Greet) /\ SF_vars(CreateWallet) /\ SF_vars(LoadWallet) /\ SF_vars(Cover)

-----------------------------------------------------------------------------
(* What others see *)

\* State.Report.
Report ==
  [ok |-> health.loaded /\ health.age # NoSuccess /\ health.age <= MaxAge,
   loaded |-> health.loaded]

\* /healthz, and the gauge of /metrics.
Healthz == IF Report.ok THEN 200 ELSE 503
WalletLoadedGauge == IF Report.loaded THEN 1 ELSE 0

(* Properties *)

\* Every variable has its shape, and a start gets past createwallet only if there is
\* a wallet.
TypeOK ==
  /\ phase \in {"load", "cover", "run"} => node.exists
  /\ node \in [up : BOOLEAN, busy : BOOLEAN, loaded : BOOLEAN, startup : BOOLEAN,
               exists : BOOLEAN, openable : BOOLEAN]
  /\ disk \in BOOLEAN
  /\ phase \in {"down", "greet", "create", "load", "cover", "run"}
  /\ health \in [loaded : BOOLEAN, age : 0..(MaxAge + 1) \cup {NoSuccess}]
  /\ ticker \in [left : 1..Interval, due : BOOLEAN]
  /\ poll \in [at : {"idle", "asked", "answered"}, lasted : 0..Timeout, err : {0, 1, -18}]
  /\ seen \in [read : 0..(MaxAge + 1), gone : 0..(Interval + 1), hand : BOOLEAN]

\* A gateway that calls itself healthy has read the wallet at most MaxAge ago, across
\* restarts, failing disks and nodes that come and go.
HealthyCouldRead == Running /\ Healthz = 200 => seen.read <= MaxAge

\* A wallet that is gone is reported within one interval, without waiting out MaxAge: by
\* /healthz and by the gauge.
GoneIsReported ==
  seen.gone > Interval /\ Missing => Healthz = 503 /\ WalletLoadedGauge = 0

\* A node that restarts while the gateway runs comes back with the wallet loaded, after
\* whatever starts and crashes there were, unless the wallet was once loaded by hand or
\* cannot be opened.
NodeBringsItBack ==
  [][NodeStarts /\ Running /\ node.openable /\ ~seen.hand => node'.loaded]_vars

\* calls.go:56: load_on_startup "is what makes the node recover on its own".  Here: a
\* node that restarts while the gateway runs comes back with the wallet loaded, if it can
\* open it.
NodeRecoversAlone == [][NodeStarts /\ Running /\ node.openable => node'.loaded]_vars

\* A gateway that can read the wallet again says so in the end, and goes on saying so.
RecoversInTheEnd ==
  <>[](Running /\ disk /\ node.up /\ ~node.busy /\ node.loaded) => <>[](Healthz = 200)

\* Nothing stands in the way of a start: not the node, which has the wallet loaded, can
\* open it or has none yet, and not the disk.
CanStart == disk /\ node.up /\ ~node.busy /\ (node.openable \/ node.loaded)

\* A node that answers lets the gateway start, whatever an earlier start or the node's
\* startup list has made of the wallet; but for a wallet on disk that cannot be opened,
\* which has to stop the gateway (calls.go, isAlreadyLoaded), and as long as nobody unloads
\* the wallet under one start after the other.
StartsInTheEnd == <>[]CanStart /\ <>[][~Unload]_vars => []<>Running
=============================================================================
