# A specification of btcpay-gate

TLA+ models of btcpay-gate, a payment gateway on top of bitcoin core: invoices, the loop that reads
the chain, the database transaction in which everything it learns becomes durable, the webhooks and
what a merchant can learn from them, the addresses invoices are given, what the gateway says of its own
health, and the process with everything that waits for something in it. TLC checks the models on small
instances and TLAPS proves their safety properties for all.

Contents: [the system](#the-system) · [modules](#modules) · [how the models correspond to the code](#how-the-models-correspond-to-the-code)
· [runs](#runs) · [what the runs found](#what-the-runs-found) · [proofs](#proofs) · [not modelled](#not-modelled) · [plan](#plan)

## The system

One process (`cmd/paygate/main.go`) opens the wallet, then the database, and then runs three things
side by side: the chain monitor, the webhook sender and the HTTP server. They share the database (one
connection, so statements and transactions of all three take turns) and a small health state. A fourth
party, bitcoin core, is reached by RPC; a fifth, the merchant's endpoint, by HTTP.

| component | state | operations | correct if |
|---|---|---|---|
| state machine, `payments/state.go` | none | `Decide`, `Paid`, `MinConfirmations` | an invoice is confirmed only for money that is deep enough, expires only unpaid, and never leaves confirmed and expired |
| store, `payments/store.go` | tables invoices, observations, cursor, events | `CreateInvoice`, `Apply` (one transaction), `NextDerivIndex`, reads | observations, statuses, events and the cursor move together; writing the same again changes nothing |
| chain monitor, `monitor/monitor.go` | none of its own: the cursor is in the store | `Run` → `Poll`: read the cursor, ask the node, map transactions to invoices, `Apply` | no payment is passed by, whatever fails; what is counted is in the chain |
| webhook sender, `webhook/webhook.go` | rows of events: delivered, attempts, next_try_at | `Run` → `DeliverDue`: read what is due, post, record | every event is delivered or given up after `MaxTries`; what is recorded happened |
| wallet, `wallet/wallet.go` | `gapEnd`, under a mutex | `Open`, `AddressAt` (`ensureWatched`, `cover`) | an address that is handed out is watched by the node |
| API, `api/api.go` | none | POST /invoices, GET /invoices/{id}, /healthz, /metrics | no address belongs to two invoices |
| health, `health/health.go` | last success, wallet loaded, under a mutex | `PollSucceeded`, `PollFailed`, `Report` | a gateway that cannot read the chain says so soon |
| RPC, `rpc/*.go` | none | one method per call; `Call` tells an answer, an error with a code and an error without one apart | a wallet that is missing is not taken for a node that is down, nor the other way round |
| process, `cmd/paygate/main.go` | the context, what has returned | the start, `run`'s select over four goroutines, the shutdown | nobody waits for ever, and no failure passes for a clean exit |
| bitcoin core (external) | chain, mempool, the wallet: whether it exists, is loaded, is on the startup list, its transactions and ranges | blocks, reorgs, `listsinceblock`, `importdescriptors`, `createwallet`, `loadwallet` | |

What is hard in this system, and what the properties are about (PROJECT.json has all of it, line by line):

* **The node's answer is old when it is used.** A poll asks, looks things up and commits; blocks, reorgs,
  payments and deadlines come in between.
* **The chain goes back.** A payment leaves the chain, returns in another block, or loses its coin to another
  transaction. The node says so in several ways: `removed[]`, `walletconflicts`, a negative count, or a zero
  count where there was a higher one.
* **The cursor moves on.** What it has passed is never reported again, so it has to lag; and it must not
  move without the observations it stands for.
* **Steps fail half-way.** The process stops, the database refuses, the node's answer is lost, the endpoint took
  an event and nobody heard.
* **Things must happen in the end.** Confirmation, expiry, delivery, and the next invoice after a restart.
* **Requests race.** The next index is read outside any lock, and an answer is made of two statements that a poll can come
  between.
* **Events arrive late, twice and out of order**, and a post that timed out may still arrive.
* **What is said is as old as the last poll.** And a poll lasts as long as its slowest call, while the ticker drops ticks.
* **The wallet's state outlives the process.** Created, loaded and on the startup list are three things, and what a
  start does to them depends on all the starts, crashes and operators before it.
* **One connection.** Everybody waits for it: whoever keeps it during a slow call, or takes it twice, stops the gateway.

## Modules

| module | models | composed of |
|---|---|---|
| `InvoiceRules` | `payments/state.go`: pure operators | |
| `InvoiceLifecycle` | what a merchant may rely on: the abstract specification of statuses and events | |
| `ChainNode` | bitcoin core's chain, wallet transactions and `listsinceblock` (external) | |
| `Monitor` | the monitor and the store's transaction | `ChainNode`, `InvoiceRules`; implements `InvoiceLifecycle` |
| `Lookup` | GET /invoices/{id} beside the monitor | `Monitor` |
| `Delivery` | what the outbox promises of an event: queued, taken, settled once: the abstract specification | |
| `Outbox` | the webhook sender and the events table | implements `Delivery` |
| `Gateway` | statuses and events in one database, the sender, and a merchant who goes by the highest id | `InvoiceLifecycle`, `Outbox` |
| `Addresses` | POST /invoices, the wallet, the node's watched ranges | |
| `Readiness` | the start, polls as the health state hears of them, the classification of RPC replies, /healthz, /metrics | |
| `Process` | the goroutines, what they wait for, the supervision and the shutdown | |
| `MonitorProofs`, `LookupProofs`, `OutboxProofs`, `GatewayProofs`, `AddressesProofs`, `ReadinessProofs`, `ProcessProofs` | theorems | the module each is named after; `LookupProofs` also `MonitorProofs`, `GatewayProofs` also `OutboxProofs` |
| `Sums` | sums over finite sets, which `Paid` is one of, and the lemmas on them | |
| `MCMonitor`, `MCLookup`, `MCOutbox`, `MCGateway`, `MCAddresses`, `MCReadiness`, `MCProcess` | constants for TLC | the module each is named after |

The parts are joined where they share something. `Monitor` implements `InvoiceLifecycle`, and `Gateway` puts `InvoiceLifecycle` in the
monitor's place beside `Outbox`: what is shown there holds of the monitor and the sender together, without multiplying the states of a chain
with those of an outbox. `Lookup` extends `Monitor` itself, because what it says is about the rows a poll writes.

In every module a definition marked *Fault* is a wrong version of the one that follows it, close to a bug the code could
have (some it once had). No specification uses it. Putting it in place of the right one must make a run fail: this is
how we know that a property says something about the code.

## How the models correspond to the code

PROJECT.json's `map` names the lines of each definition. The choices behind it:

**Chain and node (`ChainNode`).** A block is the set of transactions in it and a branch number; a block hash is the prefix
of the chain that the block tops, since a hash commits to all that is below. The genesis block is left out, so the empty prefix is its hash;
a cursor that was never set is the empty prefix as well, since `listsinceblock` starts at the beginning for both. A transaction has
one output, spends one coin and pays an invoice or somebody outside. `Rewind` is `invalidateblock`: what the blocks held is
unconfirmed again, as the regression tests expect. `ListSinceBlock` answers

* in `transactions[]` with what is mined above the last block common to the cursor's chain and the active one, with what
  those blocks conflicted away (as a conflict if the wallet knows the winner, as a negative count if not), and with everything
  unconfirmed;
* in `removed[]` with what the cursor's chain holds and the active one does not (the comment at `calls.go:238-245`): only
  reorgs deeper than the window reach it, shallower ones show as zero confirmations. Such a transaction is in `transactions[]` too, as unconfirmed, and the
  code lets `removed[]` have the last word;
* in `lastblock` with the block `Window` back, the tip counting as one back, and the genesis block if the chain is too short. It is never empty, so the
  branch of `store.go:281` that keeps the old cursor for an empty one is never taken, and `Apply` always sets the cursor.

`walletconflicts` is taken to be what `calls.go:228` says: set once a conflicting transaction is mined.

**A poll (`Monitor`).** `Ask` is `poll` up to the node's answer (`monitor.go:142-154`), which is kept as the snapshot of the
node it was computed from; `Apply` is the rest with the whole of `Store.Apply`, one transaction. The look-ups of addresses
between them read rows that are written once, and an address is known to nobody before its row is stored, so when they happen
makes no difference. `Abandon` is every way to fail in between: an RPC error, a look-up error, a rolled back transaction, a
stop of the process. Nothing of a poll survives outside the database. What `Apply` does is split as the code splits it:
`RowsFor` and `Observation` (the monitor's mapping, `removed[]` after `transactions[]`), `Upserted`, `Recomputed` (every
open invoice), `Announced` (the inserted events), the cursor.

**Time (`Monitor`).** The code compares `expires_at` with a clock and nothing else, so time is one step per invoice,
`Deadline`. It remembers whether a payment was on its way then (`met` or `lapsed`), which no action reads: only
`PaidInTimeNeverExpires` and `ExpiresInTheEnd` do.

**Webhooks (`Outbox`).** `Read`, `Post`, `Record` are one pass of `DeliverDue`, `Interrupt` is its end by a failed update, a
cancelled context or a stop of the process, `Emit` the insert in `Store.Apply`. `Straggle` is a post the gateway no longer waits for
that arrives after all. A unit of time is the first backoff, ten
seconds. `taken` and `failures` are history: nothing reads them but properties. With no URL configured a pass does nothing, which
is `Read` never happening.

**Reads (`Lookup`).** `ReadInvoice` and `ReadObservations` are the two statements of `getInvoice`, everything of `Monitor` may happen
between them, and the answer is kept until it is looked at. `paid_sat` and `confirmations` are computed from the rows as the handler does it
(`Paid`, `MinConfirmations`), and the status is what the first statement read. `alone` records whether a transaction committed in between.

**The merchant (`Gateway`).** `Commit` is `Store.Apply` seen from outside: the statuses some poll changes, an event for each in any
order, one transaction. The log is what the rows of `events` say; their order is the order of their ids, which the payload carries. The merchant is
external and the simplest that copes with disorder: of the events of an invoice that have arrived, the highest id counts.

**Health (`Readiness`).** `Greet`, `CreateWallet`, `LoadWallet` and `Cover` are the calls of a start in their order; any of them may
be refused, and a node that is busy may do what it was asked and not say so. `BeginPoll`, `Answer`, `EndPoll` are a poll as far as its outcome
matters: the cursor, the call, the commit with the report. `Call` is the classification in `client.go`: what is JSON speaks for itself
whatever the status, the rest is an error without a code. Time is a `Tick` that happens only when nothing else is due; a call to a busy node is answered
(with a 503) or times out, and a tick that comes while a poll lasts waits in the channel, one at most. `seen` is history. "By hand" is an operator's
`loadwallet`, which leaves the node's startup list alone. A wallet on disk may become one that the node cannot open (`Damage`: a node that has pruned what it would have to read,
say), and be repaired. Then `loadwallet` answers -4, which is an error like any other (`isAlreadyLoaded`, `calls.go:79-82`): the start is over, and the node is as it was. A node
that starts does not load such a wallet, though it is on its list. The wallet may be unloaded at any time, also in the middle of a start.

**The process (`Process`).** What a goroutine does is reduced to the order in which it takes and gives back the connection and the mutex, and calls
others: `MonitorProgram`, `SenderProgram`, `PostProgram`, `GetProgram`, one word per step of the code. A transaction is one take and one give: its
statements are on the one connection. An error at any step ends the pass or the request and gives back what it holds (`Fail`: the deferred `rows.Close`,
`tx.Rollback`, `mu.Unlock`). The number of look-ups and posts in a pass is one, since each repeats the same two or three steps. `Select` is `run`'s select with its
nondeterminism, `Exit` the end of `Shutdown` or of its deadline.

**Addresses (`Addresses`).** The steps of `createInvoice` are the ones between which another request can run: the index
(`Allocate`), the check under the mutex (`EnsureWatched`), `cover`'s calls to the node (`ReadRange`, `Import`, `Reread`) and
the insert (`StoreInvoice`, with the derivation, which reads nothing that changes). `Opener` is `wallet.Open` at a start,
before any request. An import may take effect and its answer be lost. The node refuses an import that does not start at 0 or
ends below what it watches, and widens a range to `Keypool` beyond the last address used, at an import and when an address is
paid. ADDRESS_GAP is `Step`; zero or less is 1000 in the code, so it is positive here. `ActiveRangeEnd` takes the greatest end of all active receiving descriptors; the
model has at most one that is active, as a wallet has whose descriptors are all of one type: to import another active one puts it in the place of the one before.

## Runs

| run | bounds | checks |
|---|---|---|
| `monitor` | one invoice of 1 with threshold 3, two payments of 1, a stranger's transaction that spends the coin of the second; window 3, chains of up to 3 blocks, one reorg of any depth | the monitor's books, below |
| `monitor_live` | one invoice, one payment and a stranger's rival for its coin, window 2, threshold 2, 3 blocks, one reorg | `SettlesInTheEnd`, `ExpiresInTheEnd` |
| `monitor_freeze` | one invoice, one payment, threshold 3 above a window of 2, no reorg | a violation |
| `monitor_race` | one invoice, one payment, threshold 1, window 2, no reorg | a violation |
| `lookup` | two invoices, of 2 and of 1, and a payment of 1 to each with the same coin; window 2, threshold 2, 2 blocks, one reorg; one request at a time | `FiguresExplainStatus`, `ConfirmedAnswerShowsMoney`, and for two invoices `CountsOnlyChainMoney`, `ReplayIsHarmless`, `ImplementsLifecycle` |
| `outbox` | 3 events, passes of 2, 3 tries, backoff capped at 1 | delivery: safety, refinement, liveness |
| `gateway` | 2 invoices, 2 events, passes of 2, 2 tries, cap 2 | what a merchant knows |
| `addresses` | 2 requests at once, indexes 0 to 2, step 1, keypool 3 | watched, unique, without gaps, handed out in the end |
| `addresses_switch` | two descriptors, step 2, keypool 0 | a violation |
| `readiness` | interval 2, age 3, timeout 2, every trouble | health: safety, action property, liveness |
| `readiness_manual` | interval 1, age 2, timeout 2, no busy node, no failing disk, no wallet that cannot be opened | a violation |
| `process` | both loops, two requests to POST /invoices, one listener, a grace of 1 | waiting, exit codes, the end |

The properties:

* `TypeOK` — shapes, in each of the modules. In `Monitor` it also says that no negative count is stored, in `Outbox` that no wait exceeds the
  cap and no row is tried more than `MaxTries` times, in `Process` that only who is between taking and giving back holds the connection or the mutex (so no
  error leaks either, and nobody keeps the connection during a call of the node or a post to the endpoint), in
  `Readiness` that no start gets past `createwallet` without a wallet.
* `PassesNoPaymentBy` — a payment below the cursor is on record, counts, and was last counted at `Window` confirmations or more.
  It is why the window makes failures harmless and why the threshold has to be within it.
* `LedgerAgrees` — the node, the answer of a poll under way and the database fit together: the invariant the proofs rest on.
* `CountsOnlyChainMoney` — after a commit a row that counts has the depth its transaction has in the chain the poll was shown, zero if that chain does
  not hold it, or `Window` or more if the cursor had passed it; the old rows as well as the new ones; and nothing counts that has been conflicted away, or that a reorg has
  taken from under the cursor. In `monitor` the conflicts are with a stranger's transaction and show as a negative count; in `lookup` they are between the wallet's own
  and show as `walletconflicts`.
* `ConfirmedIsReal` — an invoice becomes confirmed only if that chain holds all its amount, each payment at the threshold now, or below the cursor and
  so at the threshold before.
* `WeakestGoverns` — and only if no payment on its way to it is still shallower, unless it was replaced or a reorg has just taken it back.
* `ExpiresOnlyUnpaid` — it expires only if no payment that stands was known when the node was asked.
* `ReplayIsHarmless` — the same answer applied again changes nothing.
* `ImplementsLifecycle` — refinement of `InvoiceLifecycle`: expiry only out of pending, no way back to pending, confirmed and
  expired final, exactly one event per change.
* `OnePollIsEnough` — whatever an invoice has been through, the first commit that finds it settled confirms it, if its threshold is within the window, and the first one
  that finds it unpaid past its expiry ends it.
* `SettlesInTheEnd`, `ExpiresInTheEnd` — what the polls are for, under fairness.
* `FiguresExplainStatus` — an answer of GET /invoices/{id} with no commit in between adds up: its status is what its amount and its confirmations say.
* `ConfirmedAnswerShowsMoney` — one that says confirmed shows the whole amount, also with a commit in between, as long as no block was ever taken back. (After
  a reorg an invoice stays confirmed while its amount may go, on purpose.)
* `BatchIsCurrent` — what a pass has read is still true when it is written back, so the sender may write without looking.
* `GivenUpWasTried`, `ImplementsDelivery`, `EveryEventSettles` — at-least-once delivery up to `MaxTries`; the refinement says that an event is
  settled once, and as delivered only if it was taken.
* `BelievesOnlyTheFinal` — a merchant who goes by the highest id and ships or cancels is never contradicted later.
* `LagIsOnRecord` — where merchant and gateway differ, the event of the last change has not arrived and is not recorded as delivered.
* `MerchantLearns` — so the merchant ends with the last status, or its event was given up.
* `HandedOutIsWatched`, `GapEndIsWatched` — against "an invoice that can be paid and will never be seen".
* `AddressesDiffer`, `IndexesHaveNoGaps` — racing requests neither share an address nor leave an index out.
* `EveryIndexIsHandedOut` — no range the node has can lock the gateway out.
* `HealthyCouldRead` — a 200 of /healthz means that the wallet was read at most HEALTH_MAX_POLL_AGE ago, also after restarts and while a poll hangs.
* `GoneIsReported` — a wallet that is missing for more than one poll interval is reported, without waiting for that age.
* `NodeBringsItBack` — a node that restarts under a running gateway loads the wallet itself, whatever starts and crashes there were, unless somebody loaded it by hand
  or it cannot be opened.
* `RecoversInTheEnd` — a gateway that can read the wallet says so in the end, and goes on saying so.
* `StartsInTheEnd` — a node that answers lets the gateway start, whatever came before, with two exceptions. A wallet on disk that cannot be opened keeps it stopped, on purpose
  (`calls.go:79-82`, `TestUnloadableWalletStillFails`); that no start goes round it needs no property, since `wallet.Open` reads the wallet's descriptors next and a wallet that is
  not loaded fails it there. And an operator who unloads the wallet under one start after the other is stronger than the starts. TLC finds the property violated without either of the two.
* `CleanExitWasAsked` — exit code 0 only after a signal, whatever fails at the same time: the container is restarted otherwise.
* `StopCostsNoAttempt` — a post cut off by the gateway's own stop is not recorded as a failure.
* `EveryoneGetsThrough`, `StopsInTheEnd` — no pass and no request waits for ever, but for a client that never sends its body; and the process stops
  when it is told to, that client or not.

**Bounds.** Three blocks with a window of three, or two with one of two, are enough for the cursor to leave the empty chain, to move past a
payment, and for a reorg to go above, to and below it; the rewinds are bounded because each gives blocks a new branch. Three transactions are a payment, a
second one of the same invoice, and a rival for its coin; two invoices that share a coin are in `lookup`, where a reorg gives the money to the other. The
two runs have 0.6 and 2.1 million states; one block or one reorg more does not finish in minutes. Three tries with a cap of one pass through the first backoff, the
capped one and the giving up; passes of two leave one of three events behind. Two invoices and two events are the smallest instance in which an event of one invoice
follows another of the same one, or of the other; two tries with a cap of two let the later one arrive first. Indexes up to 2 with a step of 1 and a keypool of 3 extend the range at every way there is: by the wallet, by the
node's own widening, after which an import can be refused, and after a restart. An interval of 2, an age of 3 and a timeout of 2 make a poll that hangs longer than an interval and a success that grows too old between two polls.
Two requests to POST /invoices are rivals for the mutex and, with the loops, four for the connection; requests to GET /invoices/{id} take and
give back the connection as the monitor does, and are in the proofs, not in the run. All bounds are guards (`MaxHeight`, `MaxRewinds`, `MaxEvents`, `MaxIndex`) or constants.

**Fairness.** `Monitor`: weak for `Ask` (the ticker, and the poll at the start of `Run`), strong for `Apply` (a poll may fail any number of times, but
not every time from some point on; if it does nothing can be promised). `Outbox` and `Gateway`: weak for the ticker and for time, strong for posting
and recording (passes may break off again and again). `Addresses`: weak for a restart (the container is restarted), strong
for each step of a request (calls may fail again and again, not always), and requests keep being made. `Readiness`: weak for time, for the steps of a poll, which have timeouts, and for a
restart; strong for the steps of a start, which crashes may break off. `Process`: strong for each worker's next step, because calls have timeouts and the connection and the
mutex are given to those who wait in turn (`database/sql` queues, `sync.Mutex` does not starve); weak for `run`, for its deadline and for a loop noticing the end of its context. No fairness is asked
of miners, payers, the merchant's endpoint, clients, operators, signals, errors or reorgs.

**Deadlock** is checked in every run but those of `Outbox`, `Gateway` and `Process`: all events of a bounded table may be settled, and a process may have
exited.

## What the runs found

Each is a counterexample TLC finds in the run named, stated as something the repository itself says.

1. `monitor_freeze`. `monitor.go:57` asks that the window exceed every `required_conf`; nothing sees to it. An
   invoice that asks for 13 confirmations, which POST /invoices accepts, stays confirming for ever.
2. `monitor_race`. `state.go:70-72` calls expiring a paid invoice the worst outcome. The clock is read after the node was asked, so
   a payment that arrives in between, before the expiry, is too late for that poll and the expiry is not.
3. `addresses_switch`. Another WALLET_DESCRIPTOR on the same WALLET_NAME is never imported, because the old one's range is
   taken for its own; its addresses are handed out and never seen paid.
4. `readiness_manual`. `calls.go:54-56` says that load_on_startup makes the node recover on its own. A wallet that an operator loads by hand is not on the
   node's startup list, the gateway's next start is told -35 and leaves it so, and the node's next restart comes up without it.

Also seen while modelling, without a run of their own because each is one line of arithmetic or a single case:

* A threshold of 0, which the API accepts and `api_test.go:141` tests, is treated as 1: `Decide` answers `seen` for an unconfirmed payment before it looks
  at the threshold (`state.go:113`), though `state.go:23` has "at or above the threshold".
* A count can be too high after the chain was cut back: a payment that the cursor has passed is not in the answer while its block is still in the chain, so the row keeps
  the depth it had (`store.go:264` reads it) and an invoice can be confirmed on it at that moment. This is why `ConfirmedIsReal` says "now or before".
* `next_try_at` of a row that was given up is `MaxInt32` (`webhook.go:139`): on the 19th of January 2038 it comes due, at every pass.
* The waits between twelve tries add up to 12310 s, 3 h 25 min, where the comment says "up to a day" (`webhook.go:57`).
* The age that `health.go:25-28` allows is said to be thirty failed polls; with a node that hangs, each takes the 30 s of
  the client's timeout (`client.go:40`), and it is ten.
* `ttl_seconds` above 9223372036 overflows when it is made a duration (`api.go:194`).
* REQUIRED_CONFIRMATIONS=0 is taken for unset and becomes 2 (`api.go:53`), while 0 in a request is kept.

## Proofs

`MonitorProofs` proves about `Monitor`, for every finite set of transactions, any invoices, every window, threshold and bound
(the assumptions are the `ASSUME`s of `ChainNode` and `Monitor`: the window is positive, the bounds are numbers, the
stranger is no invoice, amounts and thresholds are numbers, no invoice is of nothing (`api.go:175`), and there are finitely many transactions, as in any database and any wallet):

| theorem | states |
|---|---|
| `TypeCorrect` | `Spec => []TypeOK` |
| `LedgerCorrect` | `Spec => []LedgerAgrees` |
| `CursorCorrect` | `Spec => []PassesNoPaymentBy` |
| `ChainMoneyCorrect` | `Spec => CountsOnlyChainMoney` |
| `ConfirmedCorrect` | `Spec => ConfirmedIsReal` |
| `WeakestCorrect` | `Spec => WeakestGoverns` |
| `ExpiryCorrect` | `Spec => ExpiresOnlyUnpaid` |
| `OnePollCorrect` | `Spec => OnePollIsEnough` |
| `ReplayCorrect` | `Spec => ReplayIsHarmless` |
| `MonitorImplementsLifecycle` | `Spec => ImplementsLifecycle` |

In `MonitorProofs` the inductive invariant is `IInv == TypeOK /\ LedgerAgrees /\ PassesNoPaymentBy`; each of its parts is an invariant of the run
`monitor`. `PassesNoPaymentBy` alone is not inductive: whether `Apply` keeps it depends on what the answer says of a
payment that the new cursor has passed and the old one had not. Either the answer lists it, at the depth it has (which is `Window` or more
below `lastblock`), or the old cursor's chain shares its block, and then it was on record already and nothing the answer says
takes it back. That needs: a chain holds a transaction once and spends a coin once, the wallet knows what it is paid, and an
answer was true of the node when it was given (`NodeAgrees`, `PollAgrees`). `CountsOnlyChainMoney` needs of the rows that the
answer does not touch that the old cursor's chain did not conflict them away (`RowsAgree`). The refinement needs that an invoice past
pending has an observation, for `Decide` to never send it back (`StatusesAgree`). The operators of `InvoiceRules` are used through lemmas
(`DecideInFlight`, `DecidePending`, `DecideTerminal`, `DecideIdempotent`), those of `ChainNode` through lemmas on heights and shared
prefixes. `ConfirmedIsReal` and `WeakestGoverns` come from one lemma, `ApplyConfirms`: the rows that count for an invoice that becomes confirmed are exactly the payments
in `CountedFor`, so the two sums are over the same set with the same amounts (`PaidIsSum`; no induction is needed, for the sums are equal
whatever a sum is).

`CountsOnlyChainMoney` says of every row what its depth may be: a row the answer touches has the depth of its transaction, and one it does not touch
is of a payment that the cursor has passed, for which `PassesNoPaymentBy` gives `Window` or more (`ApplyIsFresh`). What the chain has lost from under the cursor is in `removed[]`,
which is written last, so it counts for nothing (`RowsOfUnconfirmed`).

`OnePollIsEnough` is what liveness rests on, without liveness: a commit that finds an invoice settled has rows that count for exactly the payments that settle it
(`ApplySettles`), each as deep as the chain says or `Window` deep, and the threshold is within the window; so nothing an invoice has been through, a reorg, a replacement or a
cursor that went on, keeps it open. With a threshold above the window it is false, which `monitor_freeze` shows. What is left to TLC is only that polls keep committing.

`LookupProofs` proves about `Lookup`, from the same assumptions:

| theorem | states |
|---|---|
| `LookupImplementsMonitor` | `LookupSpec => Spec`: with requests beside it the monitor does what it does alone |
| `FiguresCorrect` | `NoEmptyPayments` implies `LookupSpec => []FiguresExplainStatus` |
| `ConfirmedAnswerCorrect` | `LookupSpec => []ConfirmedAnswerShowsMoney` |
| `WaitingCorrect` | `Spec => []WaitsForNews` |

`NoEmptyPayments` says that no payment is of zero satoshis: an invoice that has been paid nothing at all, by a transaction, is shown as seen with an amount of zero, and
the figures alone do not tell it from one that was not paid. The inductive invariant `LInv` adds to the monitor's `BooksAddUp`, which relates the status of every invoice to the
figures of its rows and holds because one transaction writes both; `MoneyStays`, that what is on record as mined is in the chain, and in the chain a poll under
way was shown, as long as no block was taken back, and that it makes up a confirmed invoice's amount; and `RequestAgrees`, that what a request has read is still so
if nothing committed since. `confirmed` is final, so a status that was read stays true, and the sum that is read after it can only have grown.

What `Paid` comes to is a fold over a set, and the proofs need that such a sum is zero over no rows, positive over one that is, and no smaller over
more of them. `Sums` proves this without an induction theorem: of the subsets of a finite set for which a claim fails one is least (`LeastSubset`, from
the well-foundedness of the naturals), and it is contradicted by taking one element away.

`WaitsForNews` is no run's property: an invoice that is seen, or confirming towards a threshold within the window, has a payment that counts and that the
cursor has not passed. The next poll reports that payment again, so no such invoice waits for news that will not come. It is the other side of what `monitor_freeze`
shows, where a threshold above the window makes an invoice wait for a payment that is never reported again.

`OutboxProofs` proves about `Outbox`, for any number of events, any `MaxTries`, `BatchLimit` and `BackoffCap` above zero (`LimitAssumption`):

| theorem | states |
|---|---|
| `TypeCorrect` | `Spec => []TypeOK` |
| `BatchCorrect` | `Spec => []BatchIsCurrent` |
| `DeliveredCorrect` | `Spec => []DeliveredWasTaken` |
| `GivenUpCorrect` | `Spec => []GivenUpWasTried` |
| `TriesCorrect` | `Spec => []TriesAreBounded` |
| `SettledCorrect` | `Spec => SettledIsFinal` |
| `OutboxImplementsDelivery` | `Spec => ImplementsDelivery` |

`DeliveredWasTaken` (a row marked delivered was taken), `SettledIsFinal` (no step touches a row that was delivered or given up) and `TriesAreBounded` (no pass picks up a row
that has had all its attempts) are proved and listed in no run: what a merchant sees of the first two is in `ImplementsDelivery`, the third follows from the fields of `TypeOK`.

Its inductive invariant adds three facts. `HeardWasTaken`: a 2xx that waits to be recorded was a taken event.
`FailuresCount`: an open row has no more attempts on record than posts of it failed, fewer than `MaxTries`, and one less still while
a failure waits to be recorded; a pass that breaks off only widens the gap, which is why giving up never comes too early.
`DeliveredDoesNotWait`: a delivered row is never one that was given up, nor one that time moves. `BatchIsCurrent` carries the rest: what
is written back at the end of a post was read before it, and is right only because nothing else touches a row of the batch.

`AddressesProofs` proves about `Addresses`, for any requests, any `Step` above zero, any `Keypool` and any `MaxIndex`
(`NameAssumption`, `RangeAssumption`):

| theorem | states |
|---|---|
| `TypeCorrect` | `Spec => []TypeOK` |
| `DifferCorrect` | `Spec => []AddressesDiffer` |
| `NoGapsCorrect` | `Spec => []IndexesHaveNoGaps` |
| `WatchedCorrect` | `OneDescriptor` implies `Spec => []HandedOutIsWatched` |
| `GapEndCorrect` | `OneDescriptor` implies `Spec => []GapEndIsWatched` |

The last two need `OneDescriptor`, that the gateway is always started with the same descriptor: without it they are false, which is what
`addresses_switch` shows. The first three need `Books`: besides the properties, that nothing is missing below an index a request has
taken (`TakenLeavesNoGap`), that what a process asks for includes its index (`Goals`), and that requests run only while the gateway is up
(`Phases`). The last two need that what a process has made sure of is true of the node (`ToldIsWatched`), and rest on the node never
watching less than before (`ImportedRange`, `ToppedUp`): with that `gapEnd` may be out of date but never wrong. The next index is the greatest of a set,
which exists because the order of the naturals is well-founded (`Greatest`).

`GatewayProofs` proves about `Gateway`, for any finite set of invoices (`InvoicesAssumption`) and the limits of `Outbox`:

| theorem | states |
|---|---|
| `GatewayInvariant` | `GatewaySpec => []GInv` |
| `GatewayImplementsOutbox` | `GatewaySpec => Spec`: composed, the outbox does what it does alone |
| `GatewayImplementsLifecycle` | `GatewaySpec => Lifecycle!Spec`: the events table announces what `InvoiceLifecycle` promises |
| `LagCorrect` | `GatewaySpec => []LagIsOnRecord` |
| `BeliefCorrect` | `GatewaySpec => []BelievesOnlyTheFinal` |

`GInv` joins the invariant of `Outbox`, taken over with its lemmas, with four facts about the log: it has a row for each row of the outbox and only such are taken (`LogFits`);
an invoice has events if and only if it is past pending (`ChangesAreTold`); the last of them tells its status (`LastIsStatus`); and no earlier one tells of something
final (`EarlierIsOpen`). The merchant's highest id may be any of an invoice's, but if it tells of something final it is the last. If it is not the last, the last has
not arrived, and then `DeliveredWasTaken` says that it is not on record as delivered. One commit appends one event per invoice it changes, in an unknown order: that the appended
part names each of them once is what `CommitInv` spends its steps on.

The refinement of `InvoiceLifecycle` maps its `events` to what the log tells of each invoice in the order of the ids (`EventsOf`): a step of the composition is a poll that
appends one announcement per change, or leaves what is told alone. `Gateway` takes from `InvoiceLifecycle` which statuses change (`Move`) and writes the events by itself, so
that this is something to prove: the ids of an invoice are counted by their ranks, every rank is taken once (`RankIsTaken`), and a new id above all others takes the next rank
and changes no other (`RanksExtend`).

`ReadinessProofs` proves about `Readiness`, for any durations with an interval no longer than the age (`DurationAssumption`) and any set of troubles:

| theorem | states |
|---|---|
| `TypeCorrect` | `Spec => []TypeOK` |
| `HealthyCorrect` | `Spec => []HealthyCouldRead` |
| `GoneCorrect` | `Spec => []GoneIsReported` |
| `BringsBackCorrect` | `Spec => NodeBringsItBack` |

`SuccessWasRead`: a success is no older than the last time the wallet was read, and one that is not yet reported was read just now, since no time passes between an answer and
its report. `GoneIsFound`: as long as a wallet that is missing is not reported, a poll that will find out is under way or due, or the ticker has less left than the interval has.
`StartupIsSet`: unless somebody loaded wallets by hand, a loaded wallet is on the startup list, so that an "already loaded" (-35) is as good as a load; and the phases after it are
only reached with a wallet on the list.

`ProcessProofs` proves about `Process`, for any requests of both kinds, any listeners and any deadline (`ProcessAssumption`):

| theorem | states |
|---|---|
| `TypeCorrect` | `Spec => []TypeOK` |
| `CleanExitCorrect` | `Spec => []CleanExitWasAsked` |
| `StopCorrect` | `Spec => []StopCostsNoAttempt` |

Its invariant adds where the mutex is held (`MutexHeld`), that before run's select is over the context ends only by a signal (`EndsAreAsked`: a loop that returns "canceled" is never a
failure mistaken for a stop), and that the sender takes no connection after its post was cut off (`CutIsOver`). The programs enter through one lemma, `ProgramShape`:
what is taken is given back in the next step, and only POST /invoices locks, for the two steps after.

Only model-checked: liveness (`SettlesInTheEnd`, `ExpiresInTheEnd`, `EveryEventSettles`, `MerchantLearns`, `EveryIndexIsHandedOut`, `RecoversInTheEnd`, `StartsInTheEnd`,
`EveryoneGetsThrough`, `StopsInTheEnd`): the proof system has no rules for fairness and ENABLED here. Every safety invariant, action property and refinement that a run of TLC
checks is proved.

## Not modelled

* HTTP, JSON, SQL text, logging, and the SQLite driver: calls end with an answer, an error, or an error though they took effect; a statement succeeds or
  fails as a whole.
* `Sign` and `Verify`, `btcToSat`: functions of bytes and floats, with nothing about order or state in them.
* The configuration (`loadConfig` and its helpers): its values are the constants of the modules. What it does to single values is under "also seen", above.
* The wallet of the node being lost, rebuilt or rescanned; a database restored from a backup, which the gateway has no operation for.
* Dates: `Outbox` has what is left until `next_try_at`, and `Monitor` has whether an expiry has passed.
* Transactions with several outputs for us: each would be an observation of its own with the same fate.
* Whether bitcoin core sets `walletconflicts` for a conflict that is only in the mempool. The comment in `calls.go` says it does not and the code relies on it; neither can be settled
  from this repository.
* Whether bitcoin core lists in `removed[]` also what was taken out of one block and mined again in another. The comment at `calls.go:238-245` says "in the chain at that block and no longer",
  and the model follows it. With a core that does, the write order of `monitor.go:156-179` would mark a payment removed that the chain holds again: until the next
  poll reports it, or for good if the new cursor has passed it.
* An empty `lastblock`, for which `store.go:281` keeps the old cursor: a node always has a block to name, if only the genesis block.
* More than one active receiving descriptor in the wallet, which takes two output types (`calls.go:146-158` has the greatest of their ranges).
* Tests, build files and deployment: no behaviour of the gateway.

## Plan

Done: every component that keeps state or has concurrency, the two abstract specifications with their refinements, the composition `Gateway`, and proofs of the safety of all
modules. What could be added, in order of use:

1. What liveness rests on, as safety, for the other modules as `OnePollIsEnough` does for the monitor: that a pass takes the oldest rows that are due, that a poll which can read the
   wallet makes the gateway healthy, that whoever holds what others wait for has a next step.
2. Two thresholds at once in `monitor`, and a second output per transaction: larger instances, the theorems hold for them already (for the thresholds) or need a wider `ChainNode` (for the outputs).
3. The two metrics gauges as time series: how long a poller of /metrics can miss an outage.
