----------------------------- MODULE LookupProofs ---------------------------
(***************************************************************************)
(* What holds of GET /invoices/{id} beside the monitor, for every set of   *)
(* transactions and invoices and every window: the proofs.                 *)
(***************************************************************************)
EXTENDS Lookup, MonitorProofs

\* Every payment is of something.  (An output of zero satoshis is one the code does not
\* tell from any other.)
NoEmptyPayments == \A t \in Tx : Amount[t] > 0

-----------------------------------------------------------------------------
(* The inductive invariant *)

\* The rows of an invoice in a table of observations.
RowsIn(table, i) == Restrict(table, DOMAIN table \cap PaymentsTo(i))

\* What the figures of an invoice have to do with its status, whatever the amounts.
Accounts(i, row) ==
  /\ row.status \in {"pending", "reorged"} => row.paid = 0 /\ row.conf = 0
  /\ row.status = "seen" => row.conf = 0
  /\ row.status = "confirming" => row.conf \in 1..(Required[i] - 1)
  /\ row.status = "underpaid" => row.conf >= Required[i] /\ row.paid < Due[i]

\* The database always adds up: the transaction that writes one of the two tables
\* writes the other one, too.
BooksAddUp ==
  \A i \in Created :
    Accounts(i, RowOf(i)) /\ (status[i] = "seen" => Live(RowsIn(obs, i)) # {})

\* The payments of an invoice that are on record as mined.
Solid(i) == {t \in DOMAIN obs \cap PaymentsTo(i) : ~obs[t].removed /\ obs[t].conf > 0}

\* As long as no block was taken back, what is on record as mined stays so, and a
\* confirmed invoice keeps what confirmed it.
MoneyStays ==
  rewinds = 0 =>
    /\ since # NoReply => Mined(since.chain) \subseteq Mined(chain)
    /\ \A i \in Invoices : \A t \in Solid(i) :
         t \in Mined(chain) /\ (since # NoReply => t \in Mined(since.chain))
    /\ \A i \in Invoices : status[i] = "confirmed" => Sum(Amount, Solid(i)) >= Due[i]

\* A request holds what the database says of its invoice, unless a transaction has
\* committed since it began; "confirmed" is final either way.
RequestAgrees ==
  lookup # NoLookup =>
    /\ lookup = [invoice |-> lookup.invoice, row |-> lookup.row, alone |-> lookup.alone]
    /\ lookup.invoice \in Created
    /\ DOMAIN lookup.row \in {{"status"}, {"status", "paid", "conf"}}
    /\ lookup.alone => \A f \in DOMAIN lookup.row : lookup.row[f] = RowOf(lookup.invoice)[f]
    /\ lookup.row.status = "confirmed" => status[lookup.invoice] = "confirmed"

LInv == IInv /\ BooksAddUp /\ MoneyStays /\ RequestAgrees /\ ConfirmedAnswerShowsMoney

\* An invoice that waits waits for a payment that the cursor has not passed, one that the
\* next poll reports again.
WaitsForNews ==
  \A i \in Invoices :
    status[i] = "seen" \/ (status[i] = "confirming" /\ Required[i] <= Window) =>
      \E t \in DOMAIN obs \cap PaymentsTo(i) :
        ~obs[t].removed /\ t \notin Mined(cursor)

-----------------------------------------------------------------------------
(* What an invoice's figures are *)

IsTable(table) == \A t \in DOMAIN table : table[t] \in Row(t)

LEMMA RowsInFields ==
  ASSUME NEW table, IsTable(table), NEW i
  PROVE  LET o == RowsIn(table, i) IN
         /\ DOMAIN o = DOMAIN table \cap PaymentsTo(i)
         /\ \A t \in DOMAIN o :
              /\ o[t] = table[t] /\ o[t].amount = Amount[t]
              /\ o[t].conf \in Nat /\ o[t].removed \in BOOLEAN
         /\ Live(o) = {t \in DOMAIN table \cap PaymentsTo(i) : ~table[t].removed}
         /\ Live(o) \subseteq Tx
<1> DEFINE o == RowsIn(table, i)
<1>1. DOMAIN o = DOMAIN table \cap PaymentsTo(i) /\ \A t \in DOMAIN o : o[t] = table[t]
  BY DEF RowsIn, Restrict
<1> HIDE DEF o
<1>2. Live(o) = {t \in DOMAIN table \cap PaymentsTo(i) : ~table[t].removed}
  BY <1>1 DEF Live
<1>3. PaymentsTo(i) \subseteq Tx
  BY DEF PaymentsTo
<1>4. \A t \in DOMAIN o : o[t] \in Row(t)
  BY <1>1 DEF IsTable
<1>5. \A t \in DOMAIN o :
        o[t].amount = Amount[t] /\ o[t].conf \in Nat /\ o[t].removed \in BOOLEAN
  BY <1>4 DEF Row
<1> QED
  BY <1>1, <1>2, <1>3, <1>5 DEF o

LEMMA RowOfFields ==
  ASSUME NEW i
  PROVE  /\ RowOf(i) = [status |-> status[i], paid |-> Paid(RowsIn(obs, i)),
                        conf |-> MinConfirmations(RowsIn(obs, i))]
         /\ DOMAIN RowOf(i) = {"status", "paid", "conf"}
         /\ RowOf(i).status = status[i] /\ RowOf(i).paid = Paid(RowsIn(obs, i))
         /\ RowOf(i).conf = MinConfirmations(RowsIn(obs, i))
BY DEF RowOf, RowsIn

\* Sets of transactions have sums.
LEMMA SumOfTx ==
  ASSUME NEW A \in SUBSET Tx
  PROVE  /\ IsFiniteSet(A) /\ Sum(Amount, A) \in Nat
         /\ \A t \in A : Amount[t] \in Nat
         /\ \A B \in SUBSET A : Sum(Amount, B) <= Sum(Amount, A)
         /\ A = {} => Sum(Amount, A) = 0
         /\ (\E t \in A : Amount[t] > 0) => Sum(Amount, A) > 0
<1>1. IsFiniteSet(A) /\ \A t \in A : Amount[t] \in Nat
  BY AmountAssumption, FS_Subset
<1>2. Sum(Amount, A) \in Nat
  BY <1>1, SumType
<1>3. \A B \in SUBSET A : Sum(Amount, B) <= Sum(Amount, A)
  BY <1>1, SumSubset
<1>4. A = {} => Sum(Amount, A) = 0
  BY <1>1, SumSteps
<1>5. ASSUME NEW t \in A, Amount[t] > 0 PROVE Sum(Amount, A) > 0
  BY <1>1, <1>5, SumPositive
<1> QED
  BY <1>1, <1>2, <1>3, <1>4, <1>5

\* What is paid is a sum of amounts.
LEMMA PaidIs ==
  ASSUME NEW table, IsTable(table), NEW i
  PROVE  Paid(RowsIn(table, i)) = Sum(Amount, Live(RowsIn(table, i)))
<1> DEFINE o == RowsIn(table, i)
<1>1. \A t \in DOMAIN o : t \in DOMAIN table /\ o[t] = table[t]
  BY DEF RowsIn, Restrict
<1> HIDE DEF o
<1>2. Paid(o) = MapThenSumSet(LAMBDA t : Amount[t], Live(o))
  <2>1. \A t \in DOMAIN o : o[t].amount = Amount[t]
    BY <1>1 DEF IsTable, Row
  <2>2. \A t \in Live(o) : o[t].amount = Amount[t]
    BY <2>1 DEF Live
  <2> QED
    BY <2>2, PaidIsSum
<1>3. Sum(Amount, Live(o)) = MapThenSumSet(LAMBDA t : Amount[t], Live(o))
  BY Zenon DEF Sum
<1> QED
  BY <1>2, <1>3, Zenon DEF o

\* What Decide answers goes with the figures it has decided on.
LEMMA DecideAccounts ==
  ASSUME NEW table, IsTable(table), NEW i \in Invoices, NEW late, NEW before
  PROVE  LET o == RowsIn(table, i) IN
         /\ Accounts(i, [status |-> Decide(Invoice(i, before), o, late),
                         paid |-> Paid(o), conf |-> MinConfirmations(o)])
         /\ Decide(Invoice(i, before), o, late) = "seen" => Live(o) # {}
<1> DEFINE o == RowsIn(table, i)
           inv == Invoice(i, before)
           s == Decide(inv, o, late)
           p == Paid(o)
           c == MinConfirmations(o)
<1> SUFFICES Accounts(i, [status |-> s, paid |-> p, conf |-> c]) /\ (s = "seen" => Live(o) # {})
  OBVIOUS
<1>1. inv.status = before /\ inv.amount = Due[i] /\ inv.required = Required[i]
      /\ Required[i] \in Nat /\ Due[i] \in Nat
  BY RequiredAssumption DEF Invoice
<1>2. p = Sum(Amount, Live(o)) /\ Live(o) \in SUBSET Tx
  BY PaidIs, RowsInFields
<1>3. \A t \in DOMAIN o : o[t].conf \in Nat
  BY RowsInFields
<1>4. /\ p \in Nat
      /\ Live(o) = {} => p = 0 /\ c = 0
  <2> HIDE DEF o
  <2>1. Live(o) = {} => c = 0
    BY DEF MinConfirmations
  <2>2. p \in Nat /\ (Live(o) = {} => p = 0)
    BY <1>2, SumOfTx
  <2> QED
    BY <2>1, <2>2
<1>5. Live(o) # {} => c \in Nat
  <2> HIDE DEF o
  <2> QED
    BY <1>3, WeakestIs
<1> HIDE DEF o, inv, p, c
<1>6. CASE Terminal(inv.status)
  <2>1. s \in {"confirmed", "expired"}
    BY <1>6 DEF Decide, Terminal
  <2> HIDE DEF s
  <2> QED
    BY <2>1 DEF Accounts
<1>7. CASE ~Terminal(inv.status) /\ Live(o) = {}
  <2>1. s \in {"reorged", "expired", "pending"}
    BY <1>7 DEF Decide, DecideUnpaid
  <2> HIDE DEF s
  <2> QED
    BY <1>4, <1>7, <2>1 DEF Accounts
<1>8. CASE ~Terminal(inv.status) /\ Live(o) # {}
  <2>1. s = IF c <= 0 THEN "seen" ELSE IF c < Required[i] THEN "confirming"
            ELSE IF p < Due[i] THEN "underpaid" ELSE "confirmed"
    BY <1>1, <1>8 DEF Decide, DecidePaid, c, p
  <2> HIDE DEF s
  <2> QED
    BY <1>1, <1>4, <1>5, <1>8, <2>1 DEF Accounts
<1> QED
  BY <1>6, <1>7, <1>8

-----------------------------------------------------------------------------
(* The books add up *)

LEMMA BooksInit == Init => BooksAddUp
BY DEF Init, BooksAddUp, Created

\* An invoice that has just been created has nothing on record.
LEMMA BooksCreate ==
  ASSUME IInv, BooksAddUp, NEW i \in Invoices, CreateInvoice(i)
  PROVE  BooksAddUp'
<1>1. /\ obs' = obs /\ status[i] = "none" /\ status' = [status EXCEPT ![i] = "pending"]
      /\ status \in [Invoices -> Statuses \cup {"none"}]
  BY DEF CreateInvoice, IInv, TypeOK
<1> SUFFICES ASSUME NEW j \in Created'
             PROVE  Accounts(j, RowOf(j)') /\ (status'[j] = "seen" => Live(RowsIn(obs', j)) # {})
  BY DEF BooksAddUp, RowsIn
<1>2. /\ RowOf(j)' = [status |-> status'[j], paid |-> Paid(RowsIn(obs, j)),
                      conf |-> MinConfirmations(RowsIn(obs, j))]
      /\ RowOf(j) = [status |-> status[j], paid |-> Paid(RowsIn(obs, j)),
                     conf |-> MinConfirmations(RowsIn(obs, j))]
  BY <1>1 DEF RowOf, RowsIn
<1>3. CASE j # i
  <2>1. j \in Created /\ status'[j] = status[j]
    BY <1>1, <1>3 DEF Created
  <2>2. RowOf(j)' = RowOf(j)
    BY <1>2, <2>1
  <2> QED
    BY <1>1, <2>1, <2>2 DEF BooksAddUp
<1>4. CASE j = i
  <2>1. IsTable(obs)
    BY DEF IInv, TypeOK, IsTable
  <2>2. DOMAIN obs \cap PaymentsTo(i) = {}
    BY <1>1 DEF IInv, LedgerAgrees, RowsAgree, PaymentsTo, Created
  <2>3. Live(RowsIn(obs, i)) = {}
    <3>1. DOMAIN RowsIn(obs, i) = {}
      BY <2>2 DEF RowsIn, Restrict
    <3> QED
      BY <3>1 DEF Live
  <2>4. Paid(RowsIn(obs, i)) = 0
    BY <2>1, <2>3, PaidIs, SumOfTx
  <2>5. MinConfirmations(RowsIn(obs, i)) = 0
    BY <2>3 DEF MinConfirmations
  <2>6. status'[i] = "pending"
    BY <1>1
  <2> QED
    BY <1>2, <1>4, <2>4, <2>5, <2>6 DEF Accounts
<1> QED
  BY <1>3, <1>4

\* A commit writes the statuses that go with the observations it writes.
LEMMA BooksApply ==
  ASSUME IInv, Apply
  PROVE  BooksAddUp'
<1>1. IsTable(obs')
  BY TypeStep DEF IInv, TypeOK, Next, IsTable
<1>2. Created' = Created /\ status' = Recomputed(status, obs')
  BY ApplyWrites
<1> SUFFICES ASSUME NEW i \in Created
             PROVE  Accounts(i, RowOf(i)') /\ (status'[i] = "seen" => Live(RowsIn(obs', i)) # {})
  BY <1>2 DEF BooksAddUp, RowsIn
<1>3. status'[i] = Decide(Invoice(i, status[i]), RowsIn(obs', i), Late(i))
  BY <1>2 DEF Recomputed, RowsIn, Created
<1>4. RowOf(i)' = [status |-> status'[i], paid |-> Paid(RowsIn(obs', i)),
                   conf |-> MinConfirmations(RowsIn(obs', i))]
  BY DEF RowOf, RowsIn
<1>5. i \in Invoices
  BY DEF Created
<1> QED
  BY <1>1, <1>3, <1>4, <1>5, DecideAccounts

\* What else happens changes neither table.
LEMMA OtherStepsKeepTables ==
  ASSUME [Next]_vars, ~Apply, \A i \in Invoices : ~CreateInvoice(i)
  PROVE  UNCHANGED <<status, obs>>
BY DEF Next, vars, Deadline, Pay, MineBlock, InvalidateBlock, Ask, Abandon, storeVars

LEMMA BooksStep ==
  ASSUME IInv, BooksAddUp, [Next]_vars
  PROVE  BooksAddUp'
<1>1. ASSUME UNCHANGED <<status, obs>> PROVE BooksAddUp'
  BY <1>1 DEF BooksAddUp, Created, RowOf, RowsIn
<1> QED
  BY <1>1, BooksCreate, BooksApply, OtherStepsKeepTables

-----------------------------------------------------------------------------
(* Money stays as long as no block is taken back *)

LEMMA MoneyInit == Init => MoneyStays
BY DEF Init, MoneyStays, Solid

\* A poll takes nothing off the record as mined that its chain still holds.
LEMMA ApplyKeepsSolid ==
  ASSUME IInv, Apply, NEW i \in Invoices, NEW t \in Solid(i), t \in Mined(since.chain)
  PROVE  t \in Solid(i)'
<1> DEFINE rows == RowsFor(ListSinceBlock(since, cursor), t)
<1>1. since \in Snapshot /\ Consistent(since.chain) /\ DOMAIN obs \subseteq since.known
  BY ApplyWrites DEF IInv, LedgerAgrees, PollAgrees
<1>2. /\ t \in DOMAIN obs /\ t \in PaymentsTo(i) /\ t \in since.known
      /\ ~obs[t].removed /\ obs[t].conf > 0
  BY <1>1 DEF Solid
<1>3. \A r \in rows : ~r.removed /\ r.conf = Depth(since.chain, t)
  BY <1>1, <1>2, RowsOfMined
<1>4. Depth(since.chain, t) > 0
  <2>1. Height(since.chain, t) \in 1..Len(since.chain) /\ Len(since.chain) \in Nat
    BY <1>1, HeightIsThere DEF Snapshot
  <2> QED
    BY <2>1 DEF Depth
<1>5. /\ t \in DOMAIN obs'
      /\ IF rows # {} THEN obs'[t] \in rows ELSE obs'[t] = obs[t]
  BY <1>2, ApplyRows
<1> HIDE DEF rows
<1>6. ~obs'[t].removed /\ obs'[t].conf > 0
  BY <1>2, <1>3, <1>4, <1>5
<1> QED
  BY <1>2, <1>5, <1>6 DEF Solid

\* A poll that confirms an invoice has all of its amount on record as mined.
LEMMA ApplyConfirmsSolid ==
  ASSUME IInv, Apply, NEW i \in Invoices, status[i] # "confirmed", status'[i] = "confirmed"
  PROVE  Sum(Amount, Solid(i)') >= Due[i]
<1> DEFINE o == RowsIn(obs', i)
           inv == Invoice(i, status[i])
<1>1. IsTable(obs')
  BY TypeStep DEF IInv, TypeOK, Next, IsTable
<1>2. Decide(inv, o, Late(i)) = "confirmed"
  BY ApplyWrites DEF Recomputed, RowsIn
<1>3. inv.required = Required[i] /\ inv.amount = Due[i] /\ inv.status = status[i]
      /\ Required[i] \in Nat /\ Due[i] \in Nat
  BY RequiredAssumption DEF Invoice
<1>4. /\ DOMAIN o = DOMAIN obs' \cap PaymentsTo(i)
      /\ \A t \in DOMAIN o : o[t] = obs'[t] /\ o[t].conf \in Nat
      /\ Live(o) = {t \in DOMAIN obs' \cap PaymentsTo(i) : ~obs'[t].removed}
      /\ Live(o) \subseteq Tx
  BY <1>1, RowsInFields
<1>5. Paid(o) = Sum(Amount, Live(o))
  BY <1>1, PaidIs
<1> HIDE DEF o, inv
<1>6. /\ \A t \in Live(o) : o[t].conf > 0
      /\ ~(Paid(o) < Due[i])
  BY <1>2, <1>3, <1>4, DecideConfirms
<1>7. Live(o) = Solid(i)'
  BY <1>4, <1>6 DEF Solid
<1>8. Sum(Amount, Live(o)) \in Nat
  BY <1>4, SumOfTx
<1> QED
  BY <1>3, <1>5, <1>6, <1>7, <1>8

LEMMA MoneyApply ==
  ASSUME IInv, MoneyStays, Apply
  PROVE  MoneyStays'
<1>1. since # NoReply /\ since' = NoReply /\ UNCHANGED <<chain, rewinds>>
  BY ApplyWrites
<1> SUFFICES ASSUME rewinds = 0
             PROVE  /\ \A i \in Invoices : \A t \in Solid(i)' : t \in Mined(chain)
                    /\ \A i \in Invoices : status'[i] = "confirmed" =>
                         Sum(Amount, Solid(i)') >= Due[i]
  BY <1>1 DEF MoneyStays
<1>2. Mined(since.chain) \subseteq Mined(chain)
  BY <1>1 DEF MoneyStays
<1>3. ASSUME NEW i \in Invoices, NEW t \in Solid(i)' PROVE t \in Mined(chain)
  BY <1>2, <1>3, ApplyFollowsChain DEF Solid
<1>4. ASSUME NEW i \in Invoices, status'[i] = "confirmed", status[i] = "confirmed"
      PROVE  Sum(Amount, Solid(i)') >= Due[i]
  <2>1. Sum(Amount, Solid(i)) >= Due[i]
    BY <1>4 DEF MoneyStays
  <2>2. Solid(i) \subseteq Solid(i)'
    BY <1>1, ApplyKeepsSolid DEF MoneyStays
  <2>3. Solid(i)' \subseteq Tx
    BY DEF Solid, PaymentsTo
  <2>4. /\ Sum(Amount, Solid(i)) <= Sum(Amount, Solid(i)')
        /\ Sum(Amount, Solid(i)) \in Nat /\ Sum(Amount, Solid(i)') \in Nat
    BY <2>2, <2>3, SumOfTx
  <2>5. Due[i] \in Nat
    BY RequiredAssumption
  <2> QED
    BY <2>1, <2>4, <2>5
<1> QED
  BY <1>3, <1>4, ApplyConfirmsSolid

LEMMA MoneyStep ==
  ASSUME IInv, MoneyStays, [Next]_vars
  PROVE  MoneyStays'
<1>1. ASSUME UNCHANGED <<obs, rewinds>>,
             since' \in {since, NoReply, [chain |-> chain, known |-> known]},
             Mined(chain) \subseteq Mined(chain'),
             \A i \in Invoices : status'[i] = "confirmed" => status[i] = "confirmed"
      PROVE  MoneyStays'
  BY <1>1 DEF MoneyStays, Solid
<1>2. ASSUME NEW i \in Invoices, CreateInvoice(i) PROVE MoneyStays'
  <2>1. status \in [Invoices -> Statuses \cup {"none"}]
    BY DEF IInv, TypeOK
  <2> QED
    BY <1>1, <1>2, <2>1 DEF CreateInvoice
<1>3. ASSUME NEW i \in Invoices, Deadline(i) PROVE MoneyStays'
  BY <1>1, <1>3 DEF Deadline, storeVars
<1>4. ASSUME NEW t \in Tx, Pay(t) PROVE MoneyStays'
  BY <1>1, <1>4 DEF Pay, Broadcast, storeVars
<1>5. ASSUME NEW S \in SUBSET Payable, Mine(S), UNCHANGED <<deadline, storeVars, since>>
      PROVE  MoneyStays'
  <2> DEFINE b == [txs |-> S, branch |-> rewinds]
  <2>1. b \in Block /\ b.txs = S /\ chain \in Seq(Block)
    BY DEF Block, Payable, IInv, TypeOK, NodeTypeOK
  <2>2. chain' = Append(chain, b) /\ rewinds' = rewinds
    BY <1>5 DEF Mine
  <2> HIDE DEF b
  <2>3. Mined(chain) \subseteq Mined(chain')
    BY <2>1, <2>2, MinedAppend
  <2> QED
    BY <1>1, <1>5, <2>2, <2>3 DEF storeVars
<1>6. CASE InvalidateBlock
  <2>1. rewinds' = rewinds + 1 /\ rewinds \in Nat
    BY <1>6, BoundAssumption DEF InvalidateBlock, Rewind, IInv, TypeOK, NodeTypeOK
  <2> QED
    BY <2>1 DEF MoneyStays
<1>7. CASE Ask
  BY <1>1, <1>7 DEF Ask, nodeVars, storeVars
<1>8. CASE Abandon
  BY <1>1, <1>8 DEF Abandon, nodeVars, storeVars
<1>9. CASE UNCHANGED vars
  BY <1>1, <1>9 DEF vars
<1> QED
  BY <1>2, <1>3, <1>4, <1>5, <1>6, <1>7, <1>8, <1>9, MoneyApply DEF Next, MineBlock

-----------------------------------------------------------------------------
(* The request *)

\* Beside the request the monitor does what it does by itself.
LEMMA LookupStepIsStep == [LookupNext]_lookupVars => [Next]_vars
BY DEF LookupNext, lookupVars, ReadInvoice, ReadObservations, Close, Meanwhile

\* Invoices stay, and confirmed ones stay confirmed.
LEMMA InvoicesStay ==
  ASSUME IInv, [Next]_vars
  PROVE  /\ Created \subseteq Created'
         /\ \A i \in Invoices : status[i] = "confirmed" => status'[i] = "confirmed"
<1>1. status \in [Invoices -> Statuses \cup {"none"}] /\ "none" # "confirmed"
  BY DEF IInv, TypeOK
<1>2. CASE Apply
  <2>1. Created' = Created
    BY <1>2, ApplyWrites
  <2>2. \A i \in Invoices : status[i] = "confirmed" => status'[i] = "confirmed"
    BY <1>2, ApplyStatuses
  <2> QED
    BY <2>1, <2>2
<1>3. ASSUME NEW i \in Invoices, CreateInvoice(i)
      PROVE  /\ Created \subseteq Created'
             /\ \A j \in Invoices : status[j] = "confirmed" => status'[j] = "confirmed"
  BY <1>1, <1>3 DEF CreateInvoice, Created
<1>4. CASE UNCHANGED <<status, obs>>
  BY <1>4 DEF Created
<1> QED
  BY <1>2, <1>3, <1>4, OtherStepsKeepTables

\* What is paid is no less than what is on record as mined.
LEMMA PaidCoversSolid ==
  ASSUME TypeOK, NEW i
  PROVE  RowOf(i).paid \in Nat /\ Sum(Amount, Solid(i)) \in Nat
         /\ RowOf(i).paid >= Sum(Amount, Solid(i))
<1> DEFINE L == Live(RowsIn(obs, i))
<1>1. IsTable(obs)
  BY DEF TypeOK, IsTable
<1>2. L = {t \in DOMAIN obs \cap PaymentsTo(i) : ~obs[t].removed} /\ L \in SUBSET Tx
  BY <1>1, RowsInFields
<1>3. RowOf(i).paid = Sum(Amount, L)
  BY <1>1, RowOfFields, PaidIs
<1> HIDE DEF L
<1>4. Solid(i) \subseteq L
  BY <1>2 DEF Solid
<1>5. /\ Sum(Amount, Solid(i)) <= Sum(Amount, L) /\ Sum(Amount, L) \in Nat
      /\ Sum(Amount, Solid(i)) \in Nat
  BY <1>2, <1>4, SumOfTx
<1> QED
  BY <1>3, <1>5

LEMMA RequestBegins ==
  ASSUME LInv, NEW i \in Invoices, ReadInvoice(i)
  PROVE  RequestAgrees' /\ ConfirmedAnswerShowsMoney'
<1> DEFINE row == [status |-> status[i]]
<1>1. i \in Created /\ UNCHANGED vars
      /\ lookup' = [invoice |-> i, row |-> Restrict(RowOf(i), FirstRead), alone |-> TRUE]
  BY DEF ReadInvoice
<1>2. Restrict(RowOf(i), FirstRead) = row
  BY RowOfFields DEF Restrict, FirstRead
<1>3. lookup'.invoice = i /\ lookup'.row = row /\ lookup'.alone = TRUE
  BY <1>1, <1>2
<1>4. DOMAIN row = {"status"} /\ row.status = status[i] /\ row["status"] = RowOf(i)["status"]
  BY RowOfFields
<1> HIDE DEF row
<1>5. Created' = Created /\ RowOf(i)' = RowOf(i) /\ status' = status
  BY <1>1 DEF vars, Created, RowOf
<1>6. RequestAgrees'
  BY <1>1, <1>2, <1>3, <1>4, <1>5 DEF RequestAgrees
<1>7. ~Answered'
  <2>1. {"status"} # {"status", "paid", "conf"}
    <3>1. "paid" \notin {"status"}
      OBVIOUS
    <3> QED
      BY <3>1
  <2> QED
    BY <1>3, <1>4, <2>1 DEF Answered
<1> QED
  BY <1>6, <1>7 DEF ConfirmedAnswerShowsMoney

LEMMA RequestIsAnswered ==
  ASSUME LInv, ReadObservations
  PROVE  RequestAgrees' /\ ConfirmedAnswerShowsMoney'
<1>1. PICK i : i = lookup.invoice
  OBVIOUS
<1> DEFINE row == [f \in DOMAIN RowOf(i) |-> IF f \in FirstRead THEN lookup.row[f] ELSE RowOf(i)[f]]
<1>2. lookup # NoLookup /\ ~Answered /\ UNCHANGED vars
      /\ lookup' = [lookup EXCEPT !.row = row]
  BY <1>1 DEF ReadObservations
<1>3. /\ lookup = [invoice |-> i, row |-> lookup.row, alone |-> lookup.alone]
      /\ i \in Created /\ DOMAIN lookup.row = {"status"}
      /\ lookup.alone => lookup.row["status"] = RowOf(i)["status"]
      /\ lookup.row.status = "confirmed" => status[i] = "confirmed"
  BY <1>1, <1>2 DEF LInv, RequestAgrees, Answered
<1>4. /\ DOMAIN RowOf(i) = {"status", "paid", "conf"} /\ RowOf(i).status = status[i]
  BY RowOfFields
<1>5. PICK r : r = row
  OBVIOUS
<1>6. /\ DOMAIN r = {"status", "paid", "conf"} /\ r.status = lookup.row.status
      /\ r.paid = RowOf(i).paid /\ r.conf = RowOf(i).conf
  BY <1>4, <1>5 DEF FirstRead
<1>7. lookup' = [invoice |-> i, row |-> r, alone |-> lookup.alone]
  BY <1>2, <1>3, <1>5
<1> HIDE DEF row
<1>8. lookup'.invoice = i /\ lookup'.row = r /\ lookup'.alone = lookup.alone
  BY <1>7
<1>9. Created' = Created /\ RowOf(i)' = RowOf(i) /\ status' = status /\ rewinds' = rewinds
  BY <1>2 DEF vars, Created, RowOf
<1>10. RequestAgrees'
  <2>1. lookup'.alone => \A f \in {"status", "paid", "conf"} : r[f] = RowOf(i)[f]
    BY <1>3, <1>6, <1>8
  <2>2. /\ lookup' = [invoice |-> lookup'.invoice, row |-> lookup'.row, alone |-> lookup'.alone]
        /\ lookup'.invoice \in Created'
        /\ DOMAIN lookup'.row = {"status", "paid", "conf"}
        /\ lookup'.alone => \A f \in DOMAIN lookup'.row : lookup'.row[f] = RowOf(i)'[f]
        /\ lookup'.row.status = "confirmed" => status'[lookup'.invoice] = "confirmed"
    BY <1>3, <1>6, <1>7, <1>8, <1>9, <2>1
  <2>3. RowOf(lookup.invoice)' = RowOf(i)'
    BY <1>8 DEF RowOf
  <2> QED
    BY <2>2, <2>3 DEF RequestAgrees
<1>11. ASSUME r.status = "confirmed", rewinds = 0 PROVE r.paid >= Due[i]
  <2>1. i \in Invoices /\ status[i] = "confirmed" /\ Due[i] \in Nat
    BY <1>3, <1>6, <1>11, RequiredAssumption DEF Created
  <2>2. Sum(Amount, Solid(i)) >= Due[i]
    BY <1>11, <2>1 DEF LInv, MoneyStays
  <2>3. /\ RowOf(i).paid \in Nat /\ Sum(Amount, Solid(i)) \in Nat
        /\ RowOf(i).paid >= Sum(Amount, Solid(i))
    BY PaidCoversSolid DEF LInv, IInv
  <2> QED
    BY <1>6, <2>1, <2>2, <2>3
<1>12. ConfirmedAnswerShowsMoney'
  BY <1>8, <1>9, <1>11 DEF ConfirmedAnswerShowsMoney
<1> QED
  BY <1>10, <1>12

LEMMA RequestWaits ==
  ASSUME LInv, Meanwhile
  PROVE  RequestAgrees' /\ ConfirmedAnswerShowsMoney'
<1>1. ~Answered /\ [Next]_vars
      /\ lookup' = IF lookup # NoLookup /\ storeVars' # storeVars
                     THEN [lookup EXCEPT !.alone = FALSE] ELSE lookup
  BY DEF Meanwhile
<1>2. CASE lookup = NoLookup
  BY <1>1, <1>2 DEF RequestAgrees, ConfirmedAnswerShowsMoney, Answered
<1>3. CASE lookup # NoLookup
  <2>1. PICK i, row : i = lookup.invoice /\ row = lookup.row
    OBVIOUS
  <2>2. /\ lookup = [invoice |-> i, row |-> row, alone |-> lookup.alone]
        /\ i \in Created /\ DOMAIN row = {"status"}
        /\ lookup.alone => \A f \in DOMAIN row : row[f] = RowOf(i)[f]
        /\ row.status = "confirmed" => status[i] = "confirmed"
    BY <1>1, <1>3, <2>1 DEF LInv, RequestAgrees, Answered
  <2>3. i \in Created' /\ (row.status = "confirmed" => status'[i] = "confirmed")
    BY <1>1, <2>2, InvoicesStay DEF LInv, Created
  <2>4. /\ lookup' = [invoice |-> i, row |-> row, alone |-> lookup'.alone]
        /\ lookup'.invoice = i /\ lookup'.row = row
        /\ lookup'.alone => lookup.alone /\ storeVars' = storeVars
    <3>1. CASE storeVars' = storeVars
      BY <1>1, <2>2, <3>1
    <3>2. CASE storeVars' # storeVars
      <4>1. PICK a : lookup = [invoice |-> i, row |-> row, alone |-> a]
        BY <2>2
      <4>2. lookup' = [lookup EXCEPT !.alone = FALSE]
        BY <1>1, <1>3, <3>2
      <4>3. lookup' = [invoice |-> i, row |-> row, alone |-> FALSE]
        BY <4>1, <4>2
      <4> QED
        BY <4>3
    <3> QED
      BY <3>1, <3>2
  <2>5. storeVars' = storeVars => RowOf(i)' = RowOf(i)
    BY Zenon DEF storeVars, RowOf
  <2>6. RowOf(lookup.invoice)' = RowOf(i)'
    BY <2>4 DEF RowOf
  <2>7. lookup'.alone => \A f \in DOMAIN row : row[f] = RowOf(i)'[f]
    BY <2>2, <2>4, <2>5
  <2>8. RequestAgrees'
    BY <2>2, <2>3, <2>4, <2>6, <2>7 DEF RequestAgrees
  <2>9. ~Answered'
    <3>1. "paid" \notin {"status"}
      OBVIOUS
    <3> QED
      BY <2>2, <2>4, <3>1 DEF Answered
  <2> QED
    BY <2>8, <2>9 DEF ConfirmedAnswerShowsMoney
<1> QED
  BY <1>2, <1>3

LEMMA LInvInit == LookupInit => LInv
BY IInvInit, BooksInit, MoneyInit
   DEF LookupInit, LInv, RequestAgrees, ConfirmedAnswerShowsMoney, Answered

LEMMA LInvStep == LInv /\ [LookupNext]_lookupVars => LInv'
<1> SUFFICES ASSUME LInv, [LookupNext]_lookupVars PROVE LInv'
  OBVIOUS
<1>1. IInv /\ BooksAddUp /\ MoneyStays /\ [Next]_vars
  BY LookupStepIsStep DEF LInv
<1>2. IInv' /\ BooksAddUp' /\ MoneyStays'
  BY <1>1, IInvStep, BooksStep, MoneyStep
<1>3. RequestAgrees' /\ ConfirmedAnswerShowsMoney'
  <2>1. CASE Close
    BY <2>1 DEF Close, RequestAgrees, ConfirmedAnswerShowsMoney, Answered
  <2>2. CASE UNCHANGED lookupVars
    BY <2>2 DEF lookupVars, vars, LInv, RequestAgrees, ConfirmedAnswerShowsMoney, Answered,
       Created, RowOf
  <2> QED
    BY <2>1, <2>2, RequestBegins, RequestIsAnswered, RequestWaits DEF LookupNext
<1> QED
  BY <1>2, <1>3 DEF LInv

LEMMA LookupInvariant == LookupSpec => []LInv
<1> QED
  BY LInvInit, LInvStep, PTL DEF LookupSpec

-----------------------------------------------------------------------------
(* The theorems *)

\* Beside requests, the monitor is the monitor: what is proved of it holds here.
THEOREM LookupImplementsMonitor == LookupSpec => Spec
<1>1. LookupInit => Init
  BY DEF LookupInit
<1> QED
  BY <1>1, LookupStepIsStep, PTL DEF LookupSpec, Spec

\* What counts and is of something is something paid.
LEMMA PaymentCounts ==
  ASSUME NoEmptyPayments, TypeOK, NEW i, Live(RowsIn(obs, i)) # {}
  PROVE  RowOf(i).paid > 0
<1> DEFINE L == Live(RowsIn(obs, i))
<1>1. IsTable(obs)
  BY DEF TypeOK, IsTable
<1>2. L \in SUBSET Tx
  BY <1>1, RowsInFields
<1>3. RowOf(i).paid = Sum(Amount, L)
  BY <1>1, RowOfFields, PaidIs
<1>4. \E t \in L : Amount[t] > 0
  BY <1>2 DEF NoEmptyPayments
<1> HIDE DEF L
<1> QED
  BY <1>2, <1>3, <1>4, SumOfTx

\* For every set of payments none of which is of nothing: an answer that no transaction
\* came between adds up, its status follows from its figures.
THEOREM FiguresCorrect == ASSUME NoEmptyPayments PROVE LookupSpec => []FiguresExplainStatus
<1>1. ASSUME LInv, Answered, lookup.alone
      PROVE  Explains(lookup.invoice, lookup.row)
  <2>1. PICK i, row : i = lookup.invoice /\ row = lookup.row
    OBVIOUS
  <2>2. /\ i \in Created
        /\ \A f \in {"status", "paid", "conf"} : row[f] = RowOf(i)[f]
    BY <1>1, <2>1 DEF LInv, RequestAgrees, Answered
  <2>3. Accounts(i, RowOf(i)) /\ (status[i] = "seen" => Live(RowsIn(obs, i)) # {})
    BY <1>1, <2>2 DEF LInv, BooksAddUp
  <2>4. row.status = RowOf(i).status /\ row.paid = RowOf(i).paid /\ row.conf = RowOf(i).conf
    BY <2>2
  <2>5. RowOf(i).status = status[i]
    BY RowOfFields
  <2>6. Live(RowsIn(obs, i)) # {} => RowOf(i).paid > 0
    BY <1>1, PaymentCounts DEF LInv, IInv
  <2> QED
    BY <2>1, <2>3, <2>4, <2>5, <2>6 DEF Accounts, Explains
<1>2. LInv => FiguresExplainStatus
  BY <1>1 DEF FiguresExplainStatus
<1> QED
  BY <1>2, LookupInvariant, PTL

\* A "confirmed" comes with all of the amount next to it, also when a poll committed
\* between the two reads, as long as no block was ever taken back.
THEOREM ConfirmedAnswerCorrect == LookupSpec => []ConfirmedAnswerShowsMoney
<1>1. LInv => ConfirmedAnswerShowsMoney
  BY DEF LInv
<1> QED
  BY <1>1, LookupInvariant, PTL

LEMMA WaitingInvoice ==
  ASSUME IInv, BooksAddUp, NEW i \in Invoices,
         status[i] = "seen" \/ (status[i] = "confirming" /\ Required[i] <= Window)
  PROVE  \E t \in DOMAIN obs \cap PaymentsTo(i) : ~obs[t].removed /\ t \notin Mined(cursor)
<1> DEFINE o == RowsIn(obs, i)
<1>1. IsTable(obs)
  BY DEF IInv, TypeOK, IsTable
<1>2. /\ Live(o) = {t \in DOMAIN obs \cap PaymentsTo(i) : ~obs[t].removed}
      /\ DOMAIN o = DOMAIN obs \cap PaymentsTo(i)
      /\ \A t \in DOMAIN o : o[t] = obs[t] /\ o[t].conf \in Nat
  BY <1>1, RowsInFields
<1>3. RowOf(i).status = status[i] /\ RowOf(i).conf = MinConfirmations(o)
      /\ RowOf(i).paid = Paid(o)
  BY RowOfFields
<1>4. Required[i] \in Nat /\ Window \in Nat \ {0}
  BY RequiredAssumption, WindowAssumption
<1>5. Accounts(i, RowOf(i)) /\ (status[i] = "seen" => Live(o) # {})
  BY DEF BooksAddUp, Created
<1>6. MinConfirmations(o) \in Int /\ MinConfirmations(o) < Window
  BY <1>3, <1>4, <1>5 DEF Accounts
<1>7. Live(o) # {}
  <2>1. CASE status[i] = "confirming"
    <3>1. MinConfirmations(o) # 0
      BY <1>3, <1>5, <2>1 DEF Accounts
    <3> QED
      BY <3>1 DEF MinConfirmations
  <2> QED
    BY <1>5, <2>1
<1> HIDE DEF o
<1>8. PICK t \in Live(o) : o[t].conf = MinConfirmations(o)
  BY <1>2, <1>7, WeakestIs
<1>9. t \in DOMAIN obs \cap PaymentsTo(i) /\ ~obs[t].removed /\ obs[t].conf < Window
      /\ obs[t].conf \in Nat
  BY <1>2, <1>6, <1>8
<1>10. Payee[t] \in Invoices
  BY <1>9 DEF PaymentsTo
<1>11. t \notin Mined(cursor)
  BY <1>4, <1>9, <1>10 DEF IInv, PassesNoPaymentBy
<1> QED
  BY <1>9, <1>11

\* For every window: what an invoice waits for while its threshold is no deeper than the
\* window, the cursor has not passed.  (Above the window an invoice may wait for a payment
\* that no poll reports any more: the finding about thresholds.)
THEOREM WaitingCorrect == Spec => []WaitsForNews
<1>1. IInv /\ BooksAddUp => WaitsForNews
  BY WaitingInvoice DEF WaitsForNews
<1>2. BooksAddUp /\ IInv /\ [Next]_vars => BooksAddUp'
  BY BooksStep
<1> QED
  BY <1>1, <1>2, BooksInit, Invariant, PTL DEF Spec
=============================================================================
