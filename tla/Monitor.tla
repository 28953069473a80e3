------------------------------- MODULE Monitor ------------------------------
(***************************************************************************)
(* The gateway's core: the loop of internal/monitor that reads the chain   *)
(* from a persisted cursor, and the transaction of internal/payments       *)
(* (Store.Apply) in which observations, statuses, outbox events and the    *)
(* cursor move together.                                                   *)
(*                                                                         *)
(* A poll is two steps, and everything else may happen between them: Ask   *)
(* reads the cursor and gets core's answer, Apply commits what follows     *)
(* from it at whatever the time has become.  A poll that fails anywhere,   *)
(* or a process that dies, leaves the database as it was: Abandon.         *)
(*                                                                         *)
(* Time is abstract.  All the code asks of it is whether an invoice's      *)
(* expiry has passed.                                                      *)
(*                                                                         *)
(* A definition marked "Fault" is a way the next one could have been       *)
(* written wrong: a run with the fault in its place must fail.             *)
(***************************************************************************)
EXTENDS ChainNode, InvoiceRules

CONSTANTS
  Invoices,
  Amount,       \* [Tx -> what a transaction pays]
  Due,          \* [Invoices -> amount_sat]
  Required,     \* [Invoices -> required_conf]
  NoReply       \* no poll is under way

ASSUME OutsideAssumption == Outside \notin Invoices
ASSUME RequiredAssumption == Due \in [Invoices -> Nat \ {0}] /\ Required \in [Invoices -> Nat]
ASSUME AmountAssumption == IsFiniteSet(Tx) /\ Amount \in [Tx -> Nat]

VARIABLES
  status,    \* the invoices table: "none" before the row exists
  deadline,  \* expires_at: "ahead", then "met" or "lapsed" (paid by then or not)
  obs,       \* the observations table, a function on the transactions observed
  cursor,    \* the cursor table
  events,    \* the outbox, invoice by invoice: the statuses announced
  since      \* core's answer to the poll under way: the node at that moment

storeVars == <<status, obs, cursor, events>>
vars == <<chain, known, rewinds, status, deadline, obs, cursor, events, since>>

Invoice(i, s) == [status |-> s, amount |-> Due[i], required |-> Required[i]]
Created == {i \in Invoices : status[i] # "none"}
PaymentsTo(i) == {t \in Tx : Payee[t] = i}
Late(i) == deadline[i] # "ahead"

-----------------------------------------------------------------------------
\* Fault: the sign of a confirmation count is stored as it comes.
RawObservation(e, removed) ==
  [amount  |-> Amount[e.tx],
   conf    |-> e.conf,
   removed |-> removed \/ e.conflicts \/ e.conf < 0]

\* Fault: only a negative count is taken for a conflict.
ConflictBlindObservation(e, removed) ==
  [amount  |-> Amount[e.tx],
   conf    |-> IF e.conf < 0 THEN 0 ELSE e.conf,
   removed |-> removed \/ e.conf < 0]

\* The monitor's reading of one entry of listsinceblock: core says in several
\* ways that a transaction does not count.
Observation(e, removed) ==
  [amount  |-> Amount[e.tx],
   conf    |-> IF e.conf < 0 THEN 0 ELSE e.conf,
   removed |-> removed \/ e.conflicts \/ e.conf < 0]

\* Entries for an address no invoice has are ignored.
Ours(entries) == {e \in entries : Payee[e.tx] \in Created}

\* Fault: removed[] is written first, and transactions[] over it.
RowsForRemovedFirst(reply, t) ==
  LET gone == {e \in Ours(reply.removed) : e.tx = t}
      here == {e \in Ours(reply.transactions) : e.tx = t}
  IN  IF here # {} THEN {Observation(e, FALSE) : e \in here}
      ELSE {Observation(e, TRUE) : e \in gone}

\* The rows a reply upserts: removed[] is written after transactions[], so what
\* it says of a transaction stands.
RowsFor(reply, t) ==
  LET gone == {e \in Ours(reply.removed) : e.tx = t}
      here == {e \in Ours(reply.transactions) : e.tx = t}
  IN  IF gone # {} THEN {Observation(e, TRUE) : e \in gone}
      ELSE {Observation(e, FALSE) : e \in here}

\* Fault: a row is written once (ON CONFLICT DO NOTHING).
InsertedOnce(table, reply) ==
  [t \in DOMAIN table \cup {u \in Tx : RowsFor(reply, u) # {}} |->
     IF t \in DOMAIN table THEN table[t] ELSE CHOOSE r \in RowsFor(reply, t) : TRUE]

\* Fault: a confirmation count never goes down.
UpsertedUpwards(table, reply) ==
  [t \in DOMAIN table \cup {u \in Tx : RowsFor(reply, u) # {}} |->
     IF RowsFor(reply, t) = {} THEN table[t]
     ELSE LET r == CHOOSE r \in RowsFor(reply, t) : TRUE
          IN  IF t \in DOMAIN table THEN [r EXCEPT !.conf = Max({@, table[t].conf})] ELSE r]

\* The observations table with a reply upserted into it.
Upserted(table, reply) ==
  [t \in DOMAIN table \cup {u \in Tx : RowsFor(reply, u) # {}} |->
     IF RowsFor(reply, t) # {} THEN CHOOSE r \in RowsFor(reply, t) : TRUE ELSE table[t]]

\* Fault: only invoices something arrived for are recomputed.
RecomputedIfObserved(invoices, table) ==
  [i \in Invoices |->
     IF invoices[i] = "none" \/ DOMAIN table \cap PaymentsTo(i) = {} THEN invoices[i]
     ELSE Decide(Invoice(i, invoices[i]),
                 Restrict(table, DOMAIN table \cap PaymentsTo(i)), Late(i))]

\* What the transaction makes of the invoices, given the observations in it:
\* every open one is recomputed, whether or not anything arrived for it.
Recomputed(invoices, table) ==
  [i \in Invoices |->
     IF invoices[i] = "none" THEN "none"
     ELSE Decide(Invoice(i, invoices[i]),
                 Restrict(table, DOMAIN table \cap PaymentsTo(i)), Late(i))]

\* Fault: an event per recomputed invoice, changed or not.
AnnouncedAlways(next) ==
  [i \in Invoices |-> IF next[i] = "none" THEN events[i] ELSE Append(events[i], next[i])]

\* One event per status that changed.
Announced(next) ==
  [i \in Invoices |-> IF next[i] = status[i] THEN events[i] ELSE Append(events[i], next[i])]

-----------------------------------------------------------------------------
Init ==
  /\ NodeInit
  /\ status = [i \in Invoices |-> "none"]
  /\ deadline = [i \in Invoices |-> "ahead"]
  /\ obs = [t \in {} |-> 0]
  /\ cursor = << >>
  /\ events = [i \in Invoices |-> << >>]
  /\ since = NoReply

\* POST /invoices stores the row; only then does anyone learn the address.
CreateInvoice(i) ==
  /\ status[i] = "none"
  /\ status' = [status EXCEPT ![i] = "pending"]
  /\ UNCHANGED <<chain, known, rewinds, deadline, obs, cursor, events, since>>

\* An invoice's expiry passes: met if a payment of it was on its way by then.
Deadline(i) ==
  /\ i \in Created /\ deadline[i] = "ahead"
  /\ deadline' = [deadline EXCEPT ![i] =
       IF \E t \in known \cap PaymentsTo(i) : ~Conflicted(chain, t)
         THEN "met" ELSE "lapsed"]
  /\ UNCHANGED <<chain, known, rewinds, storeVars, since>>

\* An invoice can be paid once its address is known.
Payable == {t \in Tx : Payee[t] \in Invoices => Payee[t] \in Created}

Pay(t) == t \in Payable /\ Broadcast(t) /\ UNCHANGED <<deadline, storeVars, since>>

MineBlock == \E S \in SUBSET Payable : Mine(S) /\ UNCHANGED <<deadline, storeVars, since>>

InvalidateBlock ==
  \E h \in 0..(Len(chain) - 1) : Rewind(h) /\ UNCHANGED <<deadline, storeVars, since>>

\* A poll reads the cursor and asks the node.
Ask ==
  /\ since = NoReply
  /\ since' = [chain |-> chain, known |-> known]
  /\ UNCHANGED <<nodeVars, deadline, storeVars>>

\* A poll commits: one transaction.  An answer always has a lastblock (ChainNode).
Apply ==
  LET reply == ListSinceBlock(since, cursor)
      rows  == Upserted(obs, reply)
      next  == Recomputed(status, rows)
  IN  /\ since # NoReply
      /\ since' = NoReply
      /\ cursor' = reply.lastblock
      /\ obs' = rows
      /\ status' = next
      /\ events' = Announced(next)
      /\ UNCHANGED <<nodeVars, deadline>>

\* Fault: the cursor is saved before the observations it stands for.
AbandonWithCursor ==
  /\ since # NoReply
  /\ since' = NoReply
  /\ cursor' = LastBlock(since)
  /\ UNCHANGED <<nodeVars, deadline, status, obs, events>>

\* The RPC or the transaction fails, or the process stops before it commits.
Abandon ==
  /\ since # NoReply
  /\ since' = NoReply
  /\ UNCHANGED <<nodeVars, deadline, storeVars>>

Next ==
  \/ \E i \in Invoices : CreateInvoice(i) \/ Deadline(i)
  \/ \E t \in Tx : Pay(t)
  \/ MineBlock \/ InvalidateBlock
  \/ Ask \/ Apply \/ Abandon

Spec == Init /\ [][Next]_vars

\* Run polls for ever, and a poll that keeps being tried gets through in the end:
\* the node answers and the disk works often enough.
FairSpec == Spec /\ WF_vars(Ask) /\ SF_vars(Apply)

-----------------------------------------------------------------------------
(* Properties *)

Row(t) == [amount : {Amount[t]}, conf : Nat, removed : BOOLEAN]
Snapshot == [chain : Seq(Block), known : SUBSET WalletTx]

\* Every variable has its shape.
TypeOK ==
  /\ NodeTypeOK
  /\ status \in [Invoices -> Statuses \cup {"none"}]
  /\ deadline \in [Invoices -> {"ahead", "met", "lapsed"}]
  /\ DOMAIN obs \subseteq WalletTx
  /\ \A t \in DOMAIN obs : obs[t] \in Row(t)
  /\ cursor \in Seq(Block)
  /\ events \in [Invoices -> Seq(Statuses)]
  /\ since \in Snapshot \cup {NoReply}

\* A chain holds a transaction once and spends a coin once.
Consistent(c) ==
  /\ \A h, k \in DOMAIN c : \A t \in Tx : t \in c[h].txs /\ t \in c[k].txs => h = k
  /\ \A t, u \in Mined(c) : Coin[t] = Coin[u] => t = u

\* The node: the wallet knows what the chain pays it, and only invoices that exist
\* are paid.
NodeAgrees ==
  /\ Consistent(chain)
  /\ Mined(chain) \cap WalletTx \subseteq known
  /\ \A t \in known : Payee[t] \in Invoices => Payee[t] \in Created

\* The answer a poll holds was true once, and nothing is on record that it leaves out.
PollAgrees ==
  since # NoReply =>
    /\ Consistent(since.chain)
    /\ Mined(since.chain) \cap WalletTx \subseteq since.known
    /\ DOMAIN obs \subseteq since.known /\ since.known \subseteq known

\* What is on record was paid, and does not count if the cursor's chain
\* conflicted it away.
RowsAgree ==
  \A t \in DOMAIN obs :
    t \in known /\ Payee[t] \in Created /\ (Conflicted(cursor, t) => obs[t].removed)

\* A pending invoice has nothing that counts; one past pending has a payment on
\* record that says why.
StatusesAgree ==
  \A i \in Invoices :
    /\ status[i] = "pending" => \A t \in DOMAIN obs \cap PaymentsTo(i) : obs[t].removed
    /\ status[i] \in {"seen", "confirming", "underpaid", "confirmed", "reorged"}
         => DOMAIN obs \cap PaymentsTo(i) # {}

\* The node, a poll under way and the database fit together at every moment,
\* whatever polls failed and whatever the chain did between two steps of one.
LedgerAgrees == NodeAgrees /\ PollAgrees /\ RowsAgree /\ StatusesAgree

\* The cursor passes no payment by: one it has moved past is on record, counts,
\* and was last counted at Window confirmations or more (DefaultWindow's comment).
PassesNoPaymentBy ==
  \A t \in Mined(cursor) :
    Payee[t] \in Invoices =>
      t \in DOMAIN obs /\ ~obs[t].removed /\ obs[t].conf >= Window

\* What a row that counts may say of a transaction: as deep as the chain the poll was
\* shown has it, unconfirmed if neither that chain nor the cursor's has it, or Window deep
\* or more if both have it, for then the answer is silent about it.  There is no such row
\* for a payment of the cursor's chain that the chain has lost: it must not count.
Faithful(t, row) ==
  \/ t \in Mined(since.chain) /\ row.conf = Depth(since.chain, t)
  \/ t \notin Mined(since.chain) \cup Mined(cursor) /\ row.conf = 0
  \/ t \in Mined(since.chain) \cap Mined(cursor) /\ row.conf >= Window

\* A committed poll counts a confirmation only for what the chain it was shown holds, and
\* as many as it has there unless the window hides them; and it counts nothing of what a
\* mined transaction conflicted away, or of what a reorg has taken from under the cursor,
\* though the answer has that as unconfirmed as well.
CountsOnlyChainMoney ==
  [][Apply => \A t \in DOMAIN obs' :
       ~obs'[t].removed => ~Conflicted(since.chain, t) /\ Faithful(t, obs'[t])]_vars

\* What the chain of a snapshot holds for an invoice, at its threshold or deeper.
SettledIn(c, i) ==
  {t \in PaymentsTo(i) \cap Mined(c) : Depth(c, t) >= Required[i]}

\* What a poll may count for an invoice: payments in the chain it was shown, at the
\* invoice's depth or deeper, or so deep before that the cursor has passed them.
CountedFor(i) ==
  SettledIn(since.chain, i)
    \cup (PaymentsTo(i) \cap Mined(since.chain) \cap Mined(cursor))

\* An invoice becomes confirmed only if the payments in the chain the poll was shown,
\* each of them at the depth it asks for now or before, do not fall short of its amount.
ConfirmedIsReal ==
  [][\A i \in Invoices : status[i] # "confirmed" /\ status'[i] = "confirmed" =>
       ~(MapThenSumSet(LAMBDA t : Amount[t], CountedFor(i)) < Due[i])]_vars

\* The weakest payment governs: an invoice becomes confirmed only when every payment
\* on its way to it counts, also one broadcast on top of an amount already settled.
\* Only what a mined transaction replaced, or a reorg has just taken back, is passed over.
WeakestGoverns ==
  [][\A i \in Invoices : status[i] # "confirmed" /\ status'[i] = "confirmed" =>
       \A t \in since.known \cap PaymentsTo(i) :
         \/ t \in CountedFor(i)
         \/ Conflicted(since.chain, t)
         \/ t \in Mined(cursor) \ Mined(since.chain)]_vars

\* An invoice expires only if no payment of it, mined or not, was on its way when
\* the node was asked.
ExpiresOnlyUnpaid ==
  [][\A i \in Invoices : status[i] # "expired" /\ status'[i] = "expired" =>
       \A t \in since.known \cap PaymentsTo(i) : Conflicted(since.chain, t)]_vars

\* Reading the same answer again changes nothing: what a replay after a crash
\* relies on.
ReplayIsHarmless ==
  [][Apply => /\ Upserted(obs', ListSinceBlock(since, cursor)) = obs'
              /\ Recomputed(status', obs') = status']_vars

\* The monitor gives invoices the lifecycle that InvoiceLifecycle promises, with
\* one event per change.
Lifecycle == INSTANCE InvoiceLifecycle
             WITH Invoices <- Invoices, status <- status, events <- events
ImplementsLifecycle == Lifecycle!Spec

\* To a node with this chain that knows these transactions, all that is on its way to an
\* invoice is mined deep enough or lost to a conflict, and what is mined is enough.
SettledAt(c, transactions, i) ==
  /\ i \in Created
  /\ \A t \in transactions \cap PaymentsTo(i) : t \in SettledIn(c, i) \/ Conflicted(c, t)
  /\ MapThenSumSet(LAMBDA t : Amount[t], SettledIn(c, i)) >= Due[i]

Settled(i) == SettledAt(chain, known, i)

\* One poll is enough: whatever an invoice has been through, one whose threshold is within
\* the window is confirmed by the first commit that finds it settled, and a pending one
\* that nobody has paid expires at the first commit after its expiry.
OnePollIsEnough ==
  [][Apply => \A i \in Invoices : status[i] \notin {"none", "confirmed", "expired"} =>
       /\ SettledAt(since.chain, since.known, i) /\ Required[i] <= Window =>
            status'[i] = "confirmed"
       /\ status[i] = "pending" /\ Late(i) /\ since.known \cap PaymentsTo(i) = {} =>
            status'[i] = "expired"]_vars

\* An invoice paid for good is settled in the end, whatever reorgs and failed
\* polls came before.
SettlesInTheEnd ==
  \A i \in Invoices : <>[]Settled(i) => <>(status[i] \in {"confirmed", "expired"})

\* An invoice nobody pays expires in the end.
ExpiresInTheEnd ==
  \A i \in Invoices :
    <>[](deadline[i] = "lapsed" /\ known \cap PaymentsTo(i) = {}) => <>(status[i] = "expired")

-----------------------------------------------------------------------------
(* What the comments say and the code does not do *)

\* state.go:70-72: an invoice somebody has already paid does not expire.  Here:
\* not if a payment was in the wallet when the expiry passed and still stands.
PaidInTimeNeverExpires ==
  [][\A i \in Invoices :
       status[i] # "expired" /\ status'[i] = "expired" /\ deadline[i] = "met" =>
         \A t \in known \cap PaymentsTo(i) : Conflicted(chain, t)]_vars
=============================================================================
