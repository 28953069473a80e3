---------------------------- MODULE MonitorProofs ---------------------------
(***************************************************************************)
(* What holds of the monitor for every set of transactions and invoices,   *)
(* every window and every bound: the proofs.                               *)
(***************************************************************************)
EXTENDS Monitor, Sums, SequenceTheorems, TLAPS

-----------------------------------------------------------------------------
(* The state machine of InvoiceRules *)

\* Decide answers with a status.
LEMMA DecideType ==
  ASSUME NEW inv, inv.status \in Statuses, NEW o, NEW late
  PROVE  Decide(inv, o, late) \in Statuses
BY DEF Decide, DecideUnpaid, DecidePaid, Statuses

\* An invoice that is not pending any more and has an observation never
\* becomes pending or expired.
LEMMA DecideInFlight ==
  ASSUME NEW inv, inv.status \in {"seen", "confirming", "underpaid", "reorged"},
         NEW o, DOMAIN o # {}, NEW late
  PROVE  Decide(inv, o, late) \in
           {"seen", "confirming", "underpaid", "reorged", "confirmed"}
BY DEF Decide, DecideUnpaid, DecidePaid, Terminal, Live

\* A pending invoice leaves pending for a paid status only if something counts,
\* and stays pending or expires only if nothing does.
LEMMA DecidePending ==
  ASSUME NEW inv, inv.status = "pending", NEW o, NEW late
  PROVE  /\ Live(o) = {} => Decide(inv, o, late) = IF late THEN "expired" ELSE "pending"
         /\ Live(o) # {} => Decide(inv, o, late) \in {"seen", "confirming", "underpaid", "confirmed"}
BY DEF Decide, DecideUnpaid, DecidePaid, Terminal

\* Confirmed and expired are final.
LEMMA DecideTerminal ==
  ASSUME NEW inv, Terminal(inv.status), NEW o, NEW late
  PROVE  Decide(inv, o, late) = inv.status
BY DEF Decide

\* Deciding twice on the same observations decides the same.
LEMMA DecideIdempotent ==
  ASSUME NEW inv, NEW o, NEW late, NEW again,
         again.status = Decide(inv, o, late),
         again.amount = inv.amount, again.required = inv.required
  PROVE  Decide(again, o, late) = Decide(inv, o, late)
<1>1. CASE Terminal(inv.status)
  BY <1>1 DEF Decide
<1>2. CASE ~Terminal(inv.status) /\ Live(o) = {}
  BY <1>2 DEF Decide, DecideUnpaid, Terminal
<1>3. CASE ~Terminal(inv.status) /\ Live(o) # {}
  BY <1>3 DEF Decide, DecidePaid
<1> QED
  BY <1>1, <1>2, <1>3

-----------------------------------------------------------------------------
(* Chains *)

LEMMA HeightIsThere ==
  ASSUME NEW c, NEW t \in Mined(c)
  PROVE  Height(c, t) \in DOMAIN c /\ t \in c[Height(c, t)].txs
BY DEF Mined, Height

\* What is mined has a confirmation at least.
LEMMA DepthIsCount ==
  ASSUME NEW c \in Seq(Block), NEW t \in Mined(c)
  PROVE  Depth(c, t) \in Nat \ {0}
<1>1. Height(c, t) \in 1..Len(c) /\ Len(c) \in Nat
  BY HeightIsThere
<1> QED
  BY <1>1 DEF Depth

LEMMA WinnerIsThere ==
  ASSUME NEW c, NEW t, Conflicted(c, t)
  PROVE  Winner(c, t) \in Mined(c) /\ Beats(Winner(c, t), t)
BY DEF Conflicted, Winner

\* lastblock tops a prefix of the chain that ends Window blocks back.
LEMMA LastBlockPrefix ==
  ASSUME NEW s, s.chain \in Seq(Block)
  PROVE  /\ LastBlock(s) \in Seq(Block)
         /\ Len(LastBlock(s)) <= Len(s.chain)
         /\ \A k \in DOMAIN LastBlock(s) :
              /\ k \in DOMAIN s.chain
              /\ LastBlock(s)[k] = s.chain[k]
              /\ Len(s.chain) + 1 - k >= Window
<1> DEFINE n == IF Len(s.chain) < Window THEN 0 ELSE Len(s.chain) + 1 - Window
<1>1. n \in 0..Len(s.chain)
  BY WindowAssumption
<1>2. /\ SubSeq(s.chain, 1, n) \in Seq(Block)
      /\ Len(SubSeq(s.chain, 1, n)) = n
      /\ \A k \in 1..n : SubSeq(s.chain, 1, n)[k] = s.chain[k]
  BY <1>1
<1> QED
  BY <1>1, <1>2, WindowAssumption DEF LastBlock

-----------------------------------------------------------------------------
(* What listsinceblock says, and what the monitor stores of it *)

\* The entries are about transactions of the wallet, and their confirmation
\* counts are numbers.
LEMMA ReplyType ==
  ASSUME NEW s \in Snapshot, NEW d,
         NEW e \in ListSinceBlock(s, d).transactions \cup ListSinceBlock(s, d).removed
  PROVE  e.tx \in s.known /\ e.conf \in Int /\ e.conflicts \in BOOLEAN
<1>1. \A t \in Mined(s.chain) : Depth(s.chain, t) \in Int
  <2>1. s.chain \in Seq(Block)
    BY DEF Snapshot
  <2> QED
    BY <2>1, HeightIsThere DEF Depth
<1>2. CASE e \in MinedEntries(s, d)
  <2>1. PICK t \in s.known : /\ t \in Mined(s.chain)
                             /\ e = [tx |-> t, conf |-> Depth(s.chain, t), conflicts |-> FALSE]
    BY <1>2 DEF MinedEntries
  <2> QED
    BY <1>1, <2>1
<1>3. CASE e \in ConflictedEntries(s, d)
  <2>1. PICK t \in s.known : Conflicted(s.chain, t) /\ e = ConflictedEntry(s.chain, t)
    BY <1>3 DEF ConflictedEntries
  <2>2. Winner(s.chain, t) \in Mined(s.chain)
    BY <2>1, WinnerIsThere
  <2> QED
    BY <1>1, <2>1, <2>2 DEF ConflictedEntry
<1>4. CASE e \in UnconfirmedEntries(s) \cup RemovedEntries(s, d)
  <2>1. PICK t \in s.known : e = [tx |-> t, conf |-> 0, conflicts |-> FALSE]
    BY <1>4 DEF UnconfirmedEntries, RemovedEntries
  <2> QED
    BY <2>1
<1> QED
  BY <1>2, <1>3, <1>4 DEF ListSinceBlock

\* What an entry becomes, field by field.
LEMMA ObservationFields ==
  ASSUME NEW e, e.conf \in Int, e.conflicts \in BOOLEAN, NEW b \in BOOLEAN
  PROVE  /\ Observation(e, b).conf = IF e.conf < 0 THEN 0 ELSE e.conf
         /\ Observation(e, b).removed <=> b \/ e.conflicts \/ e.conf < 0
         /\ Observation(e, b).removed \in BOOLEAN
BY DEF Observation

\* A row is written for a transaction the snapshot knows, on an invoice there is.
LEMMA RowsType ==
  ASSUME NEW s \in Snapshot, NEW d, NEW t, NEW r \in RowsFor(ListSinceBlock(s, d), t)
  PROVE  t \in s.known /\ Payee[t] \in Created /\ r \in Row(t)
<1> DEFINE reply == ListSinceBlock(s, d)
<1>1. PICK e \in reply.transactions \cup reply.removed, b \in BOOLEAN :
        e.tx = t /\ Payee[e.tx] \in Created /\ r = Observation(e, b)
  BY DEF RowsFor, Ours
<1>2. e.tx \in s.known /\ e.conf \in Int /\ e.conflicts \in BOOLEAN
  BY ReplyType
<1> QED
  BY <1>1, <1>2 DEF Observation, Row

\* The table after the upsert: what is there stays there, and a row is either
\* one of the reply or the old one.
LEMMA UpsertedRows ==
  ASSUME NEW table, NEW reply,
         \A t : RowsFor(reply, t) # {} => t \in Tx
  PROVE  LET new == Upserted(table, reply) IN
         /\ DOMAIN new = DOMAIN table \cup {t \in Tx : RowsFor(reply, t) # {}}
         /\ \A t \in DOMAIN new :
              IF RowsFor(reply, t) # {} THEN new[t] \in RowsFor(reply, t)
              ELSE t \in DOMAIN table /\ new[t] = table[t]
BY DEF Upserted

LEMMA UpsertedType ==
  ASSUME TypeOK, since # NoReply
  PROVE  LET new == Upserted(obs, ListSinceBlock(since, cursor)) IN
         /\ DOMAIN obs \subseteq DOMAIN new
         /\ DOMAIN new \subseteq DOMAIN obs \cup since.known
         /\ DOMAIN new \subseteq WalletTx
         /\ \A t \in DOMAIN new : new[t] \in Row(t)
<1> DEFINE reply == ListSinceBlock(since, cursor)
<1>1. since \in Snapshot /\ since.known \subseteq WalletTx
  BY DEF TypeOK, Snapshot
<1>2. \A t : \A r \in RowsFor(reply, t) : t \in since.known /\ r \in Row(t)
  BY <1>1, RowsType
<1>3. \A t : RowsFor(reply, t) # {} => t \in Tx
  BY <1>1, <1>2 DEF WalletTx
<1> DEFINE new == Upserted(obs, reply)
<1>4. /\ DOMAIN new = DOMAIN obs \cup {t \in Tx : RowsFor(reply, t) # {}}
      /\ \A t \in DOMAIN new :
           IF RowsFor(reply, t) # {} THEN new[t] \in RowsFor(reply, t)
           ELSE t \in DOMAIN obs /\ new[t] = obs[t]
  BY <1>3, UpsertedRows
<1>5. DOMAIN obs \subseteq WalletTx /\ \A t \in DOMAIN obs : obs[t] \in Row(t)
  BY DEF TypeOK
<1> HIDE DEF new, reply
<1>6. DOMAIN new \subseteq DOMAIN obs \cup since.known
  BY <1>2, <1>4
<1>7. \A t \in DOMAIN new : new[t] \in Row(t)
  BY <1>2, <1>4, <1>5
<1> QED
  BY <1>1, <1>4, <1>5, <1>6, <1>7 DEF new, reply

\* A recomputation gives every invoice that exists a status, and no other.
LEMMA RecomputedType ==
  ASSUME NEW invoices, \A i \in Invoices : invoices[i] \in Statuses \cup {"none"}, NEW table
  PROVE  LET next == Recomputed(invoices, table) IN
         /\ next \in [Invoices -> Statuses \cup {"none"}]
         /\ \A i \in Invoices : next[i] = "none" <=> invoices[i] = "none"
<1>1. \A i \in Invoices : invoices[i] # "none" =>
        Decide(Invoice(i, invoices[i]), Restrict(table, DOMAIN table \cap PaymentsTo(i)), Late(i))
          \in Statuses
  <2> TAKE i \in Invoices
  <2> HAVE invoices[i] # "none"
  <2>1. Invoice(i, invoices[i]).status \in Statuses
    BY DEF Invoice
  <2> QED
    BY <2>1, DecideType
<1> QED
  BY <1>1 DEF Recomputed, Statuses

-----------------------------------------------------------------------------
(* Type correctness *)

LEMMA NodeTypeStep ==
  ASSUME NodeTypeOK,
         \/ \E t \in Tx : Broadcast(t)
         \/ \E S \in SUBSET Tx : Mine(S)
         \/ \E h \in 0..(Len(chain) - 1) : Rewind(h)
  PROVE  NodeTypeOK'
<1>1. CASE \E t \in Tx : Broadcast(t)
  BY <1>1 DEF NodeTypeOK, Broadcast
<1>2. ASSUME NEW S \in SUBSET Tx, Mine(S)
      PROVE  NodeTypeOK'
  <2>1. [txs |-> S, branch |-> rewinds] \in Block
    BY DEF Block, NodeTypeOK
  <2> QED
    BY <1>2, <2>1, BoundAssumption DEF NodeTypeOK, Mine
<1>3. ASSUME NEW h \in 0..(Len(chain) - 1), Rewind(h)
      PROVE  NodeTypeOK'
  <2>1. SubSeq(chain, 1, h) \in Seq(Block) /\ Len(SubSeq(chain, 1, h)) = h
    BY DEF NodeTypeOK
  <2> QED
    BY <1>3, <2>1, BoundAssumption DEF NodeTypeOK, Rewind
<1> QED
  BY <1>1, <1>2, <1>3

LEMMA TypeInit == Init => TypeOK
BY BoundAssumption DEF Init, NodeInit, TypeOK, NodeTypeOK, Statuses, WalletTx

LEMMA TypeStep == TypeOK /\ [Next]_vars => TypeOK'
<1> SUFFICES ASSUME TypeOK, [Next]_vars PROVE TypeOK'
  OBVIOUS
<1> USE DEF TypeOK
<1>1. ASSUME NEW i \in Invoices, CreateInvoice(i) PROVE TypeOK'
  BY <1>1 DEF CreateInvoice, NodeTypeOK, Statuses
<1>2. ASSUME NEW i \in Invoices, Deadline(i) PROVE TypeOK'
  BY <1>2 DEF Deadline, NodeTypeOK, storeVars
<1>3. ASSUME NEW t \in Tx, Pay(t) PROVE TypeOK'
  <2>1. NodeTypeOK'
    BY <1>3, NodeTypeStep DEF Pay
  <2> QED
    BY <1>3, <2>1 DEF Pay, storeVars
<1>4. CASE MineBlock
  <2>1. NodeTypeOK'
    BY <1>4, NodeTypeStep DEF MineBlock, Payable
  <2> QED
    BY <1>4, <2>1 DEF MineBlock, storeVars
<1>5. CASE InvalidateBlock
  <2>1. NodeTypeOK'
    BY <1>5, NodeTypeStep DEF InvalidateBlock
  <2> QED
    BY <1>5, <2>1 DEF InvalidateBlock, storeVars
<1>6. CASE Ask
  BY <1>6 DEF Ask, NodeTypeOK, nodeVars, storeVars, Snapshot
<1>7. CASE Apply
  <2> DEFINE rows == Upserted(obs, ListSinceBlock(since, cursor))
             next == Recomputed(status, rows)
  <2>1. since \in Snapshot /\ since # NoReply
    BY <1>7 DEF Apply
  <2>2. DOMAIN rows \subseteq WalletTx /\ \A t \in DOMAIN rows : rows[t] \in Row(t)
    BY <2>1, UpsertedType
  <2>3. /\ next \in [Invoices -> Statuses \cup {"none"}]
        /\ \A i \in Invoices : next[i] = "none" <=> status[i] = "none"
    BY RecomputedType
  <2>4. Announced(next) \in [Invoices -> Seq(Statuses)]
    <3> HIDE DEF next
    <3> QED
      BY <2>3 DEF Announced
  <2>5. LastBlock(since) \in Seq(Block)
    BY <2>1, LastBlockPrefix DEF Snapshot
  <2> HIDE DEF rows, next
  <2>6. obs' = rows /\ status' = next /\ events' = Announced(next)
        /\ cursor' = LastBlock(since) /\ since' = NoReply
        /\ UNCHANGED <<nodeVars, deadline>>
    BY <1>7 DEF Apply, ListSinceBlock, rows, next
  <2> QED
    BY <2>2, <2>3, <2>4, <2>5, <2>6 DEF NodeTypeOK, nodeVars
<1>8. CASE Abandon
  BY <1>8 DEF Abandon, NodeTypeOK, nodeVars, storeVars
<1>9. CASE UNCHANGED vars
  BY <1>9 DEF vars, NodeTypeOK
<1> QED
  BY <1>1, <1>2, <1>3, <1>4, <1>5, <1>6, <1>7, <1>8, <1>9 DEF Next

\* Every variable keeps its shape: no count in the database is negative, every
\* observation is of a transaction of the wallet, no status is made up.
THEOREM TypeCorrect == Spec => []TypeOK
<1> QED
  BY TypeInit, TypeStep, PTL DEF Spec

-----------------------------------------------------------------------------
(* What a reply says of a transaction, by where the snapshot has it *)

\* A consistent chain holds no two transactions that conflict.
LEMMA MinedNotConflicted ==
  ASSUME NEW c, Consistent(c), NEW t \in Mined(c)
  PROVE  ~Conflicted(c, t)
BY DEF Consistent, Conflicted, Beats

\* A mined transaction of the wallet is reported, once, at its depth, if and only
\* if its block is new.
LEMMA RowsOfMined ==
  ASSUME NEW s \in Snapshot, Consistent(s.chain), NEW from,
         NEW t \in s.known, t \in Mined(s.chain)
  PROVE  LET rows == RowsFor(ListSinceBlock(s, from), t) IN
         /\ News(s, from, t) /\ Payee[t] \in Created => rows # {}
         /\ ~News(s, from, t) => rows = {}
         /\ \A r \in rows : ~r.removed /\ r.conf = Depth(s.chain, t)
<1> DEFINE reply == ListSinceBlock(s, from)
           entry == [tx |-> t, conf |-> Depth(s.chain, t), conflicts |-> FALSE]
<1>1. ~Conflicted(s.chain, t)
  BY MinedNotConflicted
<1>2. \A e \in reply.removed : e.tx # t
  BY DEF ListSinceBlock, RemovedEntries
<1>3. \A e \in ConflictedEntries(s, from) : e.tx # t
  BY <1>1 DEF ConflictedEntries, ConflictedEntry
<1>4. \A e \in UnconfirmedEntries(s) : e.tx # t
  BY DEF UnconfirmedEntries
<1>5. \A e \in MinedEntries(s, from) : e.tx = t => e = entry /\ News(s, from, t)
  BY DEF MinedEntries
<1>6. News(s, from, t) => entry \in MinedEntries(s, from)
  BY DEF MinedEntries
<1>7. Depth(s.chain, t) \in Nat
  <2>1. Height(s.chain, t) \in 1..Len(s.chain) /\ Len(s.chain) \in Nat
    BY HeightIsThere DEF Snapshot
  <2> QED
    BY <2>1 DEF Depth
<1>8. \A e \in reply.transactions : e.tx = t => e = entry /\ News(s, from, t)
  BY <1>3, <1>4, <1>5 DEF ListSinceBlock
<1>9. News(s, from, t) => entry \in reply.transactions
  BY <1>6 DEF ListSinceBlock
<1>10. ~Observation(entry, FALSE).removed /\ Observation(entry, FALSE).conf = Depth(s.chain, t)
  <2>1. /\ entry.conf = Depth(s.chain, t) /\ entry.conf \in Int /\ ~(entry.conf < 0)
        /\ ~entry.conflicts /\ entry.conflicts \in BOOLEAN
    BY <1>7
  <2> HIDE DEF entry
  <2> QED
    BY <2>1, ObservationFields
<1>11. entry.tx = t
  OBVIOUS
<1> HIDE DEF reply, entry
<1>12. RowsFor(reply, t) = {Observation(e, FALSE) : e \in {x \in Ours(reply.transactions) : x.tx = t}}
  BY <1>2 DEF RowsFor, Ours
<1>13. \A r \in RowsFor(reply, t) : r = Observation(entry, FALSE) /\ News(s, from, t)
  BY <1>8, <1>12 DEF Ours
<1>14. News(s, from, t) /\ Payee[t] \in Created => RowsFor(reply, t) # {}
  <2> SUFFICES ASSUME News(s, from, t), Payee[t] \in Created PROVE RowsFor(reply, t) # {}
    OBVIOUS
  <2>1. entry \in {x \in Ours(reply.transactions) : x.tx = t}
    BY <1>9, <1>11 DEF Ours
  <2> QED
    BY <1>12, <2>1
<1> QED
  BY <1>10, <1>13, <1>14 DEF reply

\* Whatever is reported of a transaction that lost its coin is marked removed, and
\* it is reported when the winner's block is new.
LEMMA RowsOfConflicted ==
  ASSUME NEW s \in Snapshot, Consistent(s.chain), NEW from,
         NEW t, Conflicted(s.chain, t)
  PROVE  LET rows == RowsFor(ListSinceBlock(s, from), t) IN
         /\ \A r \in rows : r.removed
         /\ News(s, from, Winner(s.chain, t)) /\ t \in s.known /\ Payee[t] \in Created
              => rows # {}
<1> DEFINE reply == ListSinceBlock(s, from)
           entry == ConflictedEntry(s.chain, t)
<1>1. t \notin Mined(s.chain)
  BY MinedNotConflicted
<1>2. \A e \in reply.transactions : e.tx = t => e = entry
  <2>1. \A e \in MinedEntries(s, from) : e.tx # t
    BY <1>1 DEF MinedEntries
  <2>2. \A e \in UnconfirmedEntries(s) : e.tx # t
    BY DEF UnconfirmedEntries
  <2>3. \A e \in ConflictedEntries(s, from) : e.tx = t => e = entry
    BY DEF ConflictedEntries, ConflictedEntry
  <2> QED
    BY <2>1, <2>2, <2>3 DEF ListSinceBlock
<1>3. Observation(entry, FALSE).removed /\ entry.tx = t
  <2> DEFINE u == Winner(s.chain, t)
  <2>1. u \in Mined(s.chain)
    BY WinnerIsThere
  <2>2. Height(s.chain, u) \in 1..Len(s.chain) /\ Len(s.chain) \in Nat
    BY <2>1, HeightIsThere DEF Snapshot
  <2>3. Depth(s.chain, u) \in Nat \ {0}
    BY <2>2 DEF Depth
  <2>4. CASE u \in WalletTx
    <3>1. entry = [tx |-> t, conf |-> 0, conflicts |-> TRUE]
      BY <2>4 DEF ConflictedEntry
    <3>2. entry.conf \in Int /\ entry.conflicts = TRUE /\ entry.tx = t
      BY <3>1
    <3> HIDE DEF entry
    <3> QED
      BY <3>2, ObservationFields
  <2>5. CASE u \notin WalletTx
    <3>1. entry = [tx |-> t, conf |-> -Depth(s.chain, u), conflicts |-> FALSE]
      BY <2>5 DEF ConflictedEntry
    <3>2. entry.conf \in Int /\ entry.conf < 0 /\ entry.conflicts = FALSE /\ entry.tx = t
      BY <2>3, <3>1
    <3> HIDE DEF u, entry
    <3> QED
      BY <3>2, ObservationFields
  <2> QED
    BY <2>4, <2>5
<1>4. \A e : Observation(e, TRUE).removed
  BY DEF Observation
<1>5. News(s, from, Winner(s.chain, t)) /\ t \in s.known => entry \in reply.transactions
  BY DEF ListSinceBlock, ConflictedEntries
<1> HIDE DEF reply, entry
<1>6. \A r \in RowsFor(reply, t) : r.removed
  BY <1>2, <1>3, <1>4 DEF RowsFor, Ours
<1>7. ASSUME News(s, from, Winner(s.chain, t)), t \in s.known, Payee[t] \in Created
      PROVE  RowsFor(reply, t) # {}
  <2>1. entry \in {x \in Ours(reply.transactions) : x.tx = t}
    BY <1>3, <1>5, <1>7 DEF Ours
  <2> QED
    BY <2>1 DEF RowsFor
<1> QED
  BY <1>6, <1>7 DEF reply

\* An unconfirmed transaction that still stands is always reported, and counts
\* unless the chain at the cursor held it.
LEMMA RowsOfUnconfirmed ==
  ASSUME NEW s \in Snapshot, NEW from, NEW t \in s.known, Payee[t] \in Created,
         t \notin Mined(s.chain), ~Conflicted(s.chain, t)
  PROVE  LET rows == RowsFor(ListSinceBlock(s, from), t) IN
         /\ rows # {}
         /\ \A r \in rows : r.conf = 0 /\ (r.removed <=> t \in Mined(from))
<1> DEFINE reply == ListSinceBlock(s, from)
           entry == [tx |-> t, conf |-> 0, conflicts |-> FALSE]
<1>1. \A e \in reply.transactions : e.tx = t => e = entry
  <2>1. \A e \in MinedEntries(s, from) : e.tx # t
    BY DEF MinedEntries
  <2>2. \A e \in ConflictedEntries(s, from) : e.tx # t
    BY DEF ConflictedEntries, ConflictedEntry
  <2>3. \A e \in UnconfirmedEntries(s) : e.tx = t => e = entry
    BY DEF UnconfirmedEntries
  <2> QED
    BY <2>1, <2>2, <2>3 DEF ListSinceBlock
<1>2. entry \in reply.transactions
  BY DEF ListSinceBlock, UnconfirmedEntries
<1>3. \A e \in reply.removed : e.tx = t => e = entry /\ t \in Mined(from)
  BY DEF ListSinceBlock, RemovedEntries
<1>4. t \in Mined(from) => entry \in reply.removed
  BY DEF ListSinceBlock, RemovedEntries
<1>5. /\ Observation(entry, TRUE).conf = 0 /\ Observation(entry, TRUE).removed
      /\ Observation(entry, FALSE).conf = 0 /\ ~Observation(entry, FALSE).removed
      /\ entry.tx = t
  <2>1. /\ entry.conf = 0 /\ entry.conf \in Int /\ ~(entry.conf < 0)
        /\ ~entry.conflicts /\ entry.conflicts \in BOOLEAN /\ entry.tx = t
    OBVIOUS
  <2> HIDE DEF entry
  <2>2. \A b \in BOOLEAN : Observation(entry, b).conf = 0 /\ (Observation(entry, b).removed <=> b)
    BY <2>1, ObservationFields
  <2> QED
    BY <2>1, <2>2
<1> HIDE DEF reply, entry
<1>6. CASE t \in Mined(from)
  <2>1. {e \in Ours(reply.removed) : e.tx = t} = {entry}
    BY <1>3, <1>4, <1>5, <1>6 DEF Ours
  <2>2. RowsFor(reply, t) = {Observation(entry, TRUE)}
    BY <2>1 DEF RowsFor
  <2> QED
    BY <1>5, <1>6, <2>2 DEF reply
<1>7. CASE t \notin Mined(from)
  <2>1. {e \in Ours(reply.removed) : e.tx = t} = {}
    BY <1>3, <1>7 DEF Ours
  <2>2. {e \in Ours(reply.transactions) : e.tx = t} = {entry}
    BY <1>1, <1>2, <1>5 DEF Ours
  <2>3. RowsFor(reply, t) = {Observation(entry, FALSE)}
    BY <2>1, <2>2 DEF RowsFor
  <2> QED
    BY <1>5, <1>7, <2>3 DEF reply
<1> QED
  BY <1>6, <1>7

-----------------------------------------------------------------------------
(* The inductive invariant *)

\* PassesNoPaymentBy is not inductive by itself: that a poll reports everything the
\* cursor does not cover depends on the poll's chain holding a payment once, on
\* the wallet knowing it, and on its invoice existing.
IInv == TypeOK /\ LedgerAgrees /\ PassesNoPaymentBy

LEMMA MinedAppend ==
  ASSUME NEW c \in Seq(Block), NEW b \in Block
  PROVE  Mined(Append(c, b)) = Mined(c) \cup b.txs
BY DEF Mined

LEMMA ConsistentAppend ==
  ASSUME NEW c \in Seq(Block), Consistent(c), NEW b \in Block,
         b.txs \cap Mined(c) = {},
         \A t \in b.txs : ~Conflicted(c, t),
         \A t, u \in b.txs : Coin[t] = Coin[u] => t = u
  PROVE  Consistent(Append(c, b))
<1>1. \A h, k \in DOMAIN Append(c, b) : \A t \in Tx :
        t \in Append(c, b)[h].txs /\ t \in Append(c, b)[k].txs => h = k
  <2>1. DOMAIN Append(c, b) = DOMAIN c \cup {Len(c) + 1} /\ Append(c, b)[Len(c) + 1] = b
        /\ \A h \in DOMAIN c : Append(c, b)[h] = c[h]
    OBVIOUS
  <2>2. \A h \in DOMAIN c : c[h].txs \cap b.txs = {}
    BY DEF Mined
  <2> QED
    BY <2>1, <2>2 DEF Consistent
<1>2. \A t, u \in Mined(Append(c, b)) : Coin[t] = Coin[u] => t = u
  BY MinedAppend DEF Consistent, Conflicted, Beats
<1> QED
  BY <1>1, <1>2 DEF Consistent

LEMMA ConsistentPrefix ==
  ASSUME NEW c \in Seq(Block), Consistent(c), NEW h \in 0..Len(c)
  PROVE  Consistent(SubSeq(c, 1, h)) /\ Mined(SubSeq(c, 1, h)) \subseteq Mined(c)
<1> DEFINE p == SubSeq(c, 1, h)
<1>1. DOMAIN p = 1..h /\ \A k \in 1..h : k \in DOMAIN c /\ p[k] = c[k]
  OBVIOUS
<1> HIDE DEF p
<1>2. Mined(p) \subseteq Mined(c)
  BY <1>1 DEF Mined
<1> QED
  BY <1>1, <1>2 DEF Consistent, p

\* What the environment does leaves the database and the poll as they fit.
LEMMA NodeStepAgrees ==
  ASSUME IInv,
         \/ \E t \in Tx : Pay(t)
         \/ MineBlock
         \/ InvalidateBlock
  PROVE  LedgerAgrees' /\ PassesNoPaymentBy'
<1>1. /\ UNCHANGED <<status, deadline, obs, cursor, events, since>>
      /\ known \subseteq known'
  BY DEF Pay, Broadcast, MineBlock, Mine, InvalidateBlock, Rewind, storeVars
<1>2. NodeAgrees'
  <2>1. ASSUME NEW t \in Tx, Pay(t) PROVE NodeAgrees'
    BY <1>1, <2>1 DEF IInv, LedgerAgrees, NodeAgrees, Pay, Payable, Broadcast, Created
  <2>2. ASSUME NEW S \in SUBSET Payable, Mine(S) PROVE NodeAgrees'
    <3> DEFINE b == [txs |-> S, branch |-> rewinds]
    <3>1. b \in Block /\ b.txs = S /\ chain \in Seq(Block)
      BY DEF Block, Payable, IInv, TypeOK, NodeTypeOK
    <3>2. chain' = Append(chain, b) /\ known' = known \cup (S \cap WalletTx)
      BY <2>2 DEF Mine
    <3> HIDE DEF b
    <3>3. Consistent(chain')
      BY <2>2, <3>1, <3>2, ConsistentAppend DEF Mine, IInv, LedgerAgrees, NodeAgrees
    <3>4. Mined(chain') = Mined(chain) \cup S
      BY <3>1, <3>2, MinedAppend
    <3> QED
      BY <1>1, <3>2, <3>3, <3>4 DEF IInv, LedgerAgrees, NodeAgrees, Payable, Created
  <2>3. CASE InvalidateBlock
    <3>1. chain \in Seq(Block)
      BY DEF IInv, TypeOK, NodeTypeOK
    <3>2. PICK h \in 0..(Len(chain) - 1) : chain' = SubSeq(chain, 1, h) /\ known' = known
      BY <2>3 DEF InvalidateBlock, Rewind
    <3>3. Consistent(chain') /\ Mined(chain') \subseteq Mined(chain)
      BY <3>1, <3>2, ConsistentPrefix DEF IInv, LedgerAgrees, NodeAgrees
    <3> QED
      BY <1>1, <3>2, <3>3 DEF IInv, LedgerAgrees, NodeAgrees, Created
  <2> QED
    BY <2>1, <2>2, <2>3 DEF MineBlock
<1>3. PollAgrees' /\ RowsAgree' /\ StatusesAgree'
  BY <1>1 DEF IInv, LedgerAgrees, PollAgrees, RowsAgree, StatusesAgree, Created
<1>4. PassesNoPaymentBy'
  BY <1>1 DEF IInv, PassesNoPaymentBy
<1> QED
  BY <1>2, <1>3, <1>4 DEF LedgerAgrees

\* A mined transaction whose block is not new is in the cursor's chain.
LEMMA OldNewsIsCovered ==
  ASSUME NEW s \in Snapshot, NEW from, NEW t \in Mined(s.chain), ~News(s, from, t)
  PROVE  t \in Mined(from)
<1> DEFINE h == Height(s.chain, t)
<1>1. h \in 1..Len(s.chain) /\ Len(s.chain) \in Nat /\ t \in s.chain[h].txs
  BY HeightIsThere DEF Snapshot
<1>2. h \in DOMAIN from /\ \A k \in 1..h : s.chain[k] = from[k]
  BY DEF News, Shared
<1> HIDE DEF h
<1>3. s.chain[h] = from[h]
  BY <1>1, <1>2
<1> QED
  BY <1>1, <1>2, <1>3 DEF Mined

\* What a commit writes: the shape of Apply the proofs work with.
LEMMA ApplyWrites ==
  ASSUME IInv, Apply
  PROVE  /\ since \in Snapshot /\ since # NoReply /\ since' = NoReply
         /\ UNCHANGED <<chain, known, rewinds, deadline>>
         /\ obs' = Upserted(obs, ListSinceBlock(since, cursor))
         /\ status' = Recomputed(status, obs')
         /\ events' = Announced(status')
         /\ cursor' = LastBlock(since)
         /\ Created' = Created
<1>1. /\ since # NoReply /\ since' = NoReply
      /\ UNCHANGED <<chain, known, rewinds, deadline>>
      /\ obs' = Upserted(obs, ListSinceBlock(since, cursor))
      /\ status' = Recomputed(status, obs')
      /\ events' = Announced(status')
      /\ cursor' = LastBlock(since)
  BY DEF Apply, ListSinceBlock, nodeVars
<1>2. \A i \in Invoices : status'[i] = "none" <=> status[i] = "none"
  BY <1>1, RecomputedType DEF IInv, TypeOK
<1> QED
  BY <1>1, <1>2 DEF IInv, TypeOK, Created

\* The rows after a commit, one transaction at a time.
LEMMA ApplyRows ==
  ASSUME IInv, Apply
  PROVE  LET rows(t) == RowsFor(ListSinceBlock(since, cursor), t) IN
         /\ DOMAIN obs' = DOMAIN obs \cup {t \in Tx : rows(t) # {}}
         /\ \A t \in DOMAIN obs' :
              IF rows(t) # {} THEN obs'[t] \in rows(t)
              ELSE t \in DOMAIN obs /\ obs'[t] = obs[t]
         /\ \A t : rows(t) # {} => t \in since.known /\ t \in WalletTx /\ Payee[t] \in Created
<1> DEFINE reply == ListSinceBlock(since, cursor)
<1>1. since \in Snapshot /\ obs' = Upserted(obs, reply)
  BY ApplyWrites
<1>2. \A t : RowsFor(reply, t) # {} => t \in since.known /\ Payee[t] \in Created
  BY <1>1, RowsType
<1>3. since.known \subseteq WalletTx /\ WalletTx \subseteq Tx
  BY <1>1 DEF Snapshot, WalletTx
<1> HIDE DEF reply
<1>4. \A t : RowsFor(reply, t) # {} => t \in Tx
  BY <1>2, <1>3
<1> QED
  BY <1>1, <1>2, <1>3, <1>4, UpsertedRows DEF reply

\* After a commit the record follows the chain the poll was shown: what counts was
\* not conflicted away, and what counts as confirmed is in that chain.
LEMMA ApplyFollowsChain ==
  ASSUME IInv, Apply
  PROVE  \A t \in DOMAIN obs' : ~obs'[t].removed =>
           /\ ~Conflicted(since.chain, t)
           /\ obs'[t].conf > 0 => t \in Mined(since.chain)
<1> DEFINE rows(t) == RowsFor(ListSinceBlock(since, cursor), t)
<1>1. since \in Snapshot /\ Consistent(since.chain) /\ DOMAIN obs \subseteq since.known
  BY ApplyWrites DEF IInv, LedgerAgrees, PollAgrees
<1> SUFFICES ASSUME NEW t \in DOMAIN obs', ~obs'[t].removed
             PROVE  /\ ~Conflicted(since.chain, t)
                    /\ obs'[t].conf > 0 => t \in Mined(since.chain)
  OBVIOUS
<1>2. /\ rows(t) # {} => obs'[t] \in rows(t)
      /\ rows(t) = {} => t \in DOMAIN obs /\ obs'[t] = obs[t]
      /\ rows(t) # {} => t \in since.known /\ Payee[t] \in Created
  BY ApplyRows
<1>3. t \in since.known /\ Payee[t] \in Created
  BY <1>1, <1>2 DEF IInv, LedgerAgrees, RowsAgree
<1>4. ~Conflicted(since.chain, t)
  <2> SUFFICES ASSUME Conflicted(since.chain, t) PROVE FALSE
    OBVIOUS
  <2>1. rows(t) = {}
    BY <1>1, <1>2, RowsOfConflicted
  <2>2. ~News(since, cursor, Winner(since.chain, t))
    BY <1>1, <1>3, <2>1, RowsOfConflicted
  <2>3. Winner(since.chain, t) \in Mined(cursor) /\ Beats(Winner(since.chain, t), t)
    BY <1>1, <2>2, WinnerIsThere, OldNewsIsCovered
  <2>4. Conflicted(cursor, t)
    BY <2>3 DEF Conflicted
  <2> QED
    BY <1>2, <2>1, <2>4 DEF IInv, LedgerAgrees, RowsAgree
<1>5. ASSUME t \notin Mined(since.chain) PROVE obs'[t].conf = 0
  BY <1>1, <1>2, <1>3, <1>4, <1>5, RowsOfUnconfirmed
<1> QED
  BY <1>4, <1>5

\* A payment of the wallet that the cursor moves past is recorded at Window
\* confirmations or more.
LEMMA ApplyPasses ==
  ASSUME IInv, Apply
  PROVE  PassesNoPaymentBy'
<1> DEFINE rows(t) == RowsFor(ListSinceBlock(since, cursor), t)
<1>1. /\ since \in Snapshot /\ Consistent(since.chain) /\ since.known \subseteq known
      /\ Mined(since.chain) \cap WalletTx \subseteq since.known
      /\ since.chain \in Seq(Block) /\ cursor' = LastBlock(since)
  BY ApplyWrites DEF IInv, LedgerAgrees, PollAgrees, Snapshot
<1> SUFFICES ASSUME NEW t \in Mined(cursor'), Payee[t] \in Invoices
             PROVE  t \in DOMAIN obs' /\ ~obs'[t].removed /\ obs'[t].conf >= Window
  BY DEF PassesNoPaymentBy
<1>2. PICK k \in DOMAIN cursor' : t \in cursor'[k].txs
  BY DEF Mined
<1>3. /\ k \in DOMAIN since.chain /\ t \in since.chain[k].txs
      /\ Len(since.chain) + 1 - k >= Window
  BY <1>1, <1>2, LastBlockPrefix
<1>4. t \in Mined(since.chain) /\ t \in Tx
  <2>1. since.chain[k] \in Block
    BY <1>1, <1>3
  <2> QED
    BY <1>3, <2>1 DEF Mined, Block
<1>5. Height(since.chain, t) = k
  BY <1>1, <1>3, <1>4, HeightIsThere DEF Consistent
<1>6. t \in since.known /\ Payee[t] \in Created
  BY <1>1, <1>4, OutsideAssumption DEF WalletTx, IInv, LedgerAgrees, NodeAgrees
<1>7. CASE News(since, cursor, t)
  <2>1. rows(t) # {} /\ \A r \in rows(t) : ~r.removed /\ r.conf = Depth(since.chain, t)
    BY <1>1, <1>4, <1>6, <1>7, RowsOfMined
  <2>2. Depth(since.chain, t) >= Window
    BY <1>3, <1>5 DEF Depth
  <2> QED
    BY <1>4, <2>1, <2>2, ApplyRows
<1>8. CASE ~News(since, cursor, t)
  <2>1. rows(t) = {}
    BY <1>1, <1>4, <1>6, <1>8, RowsOfMined
  <2>2. t \in Mined(cursor)
    BY <1>1, <1>4, <1>8, OldNewsIsCovered
  <2>3. t \in DOMAIN obs /\ ~obs[t].removed /\ obs[t].conf >= Window
    BY <2>2 DEF IInv, PassesNoPaymentBy
  <2> QED
    BY <2>1, <2>3, ApplyRows
<1> QED
  BY <1>7, <1>8

\* What a commit does to a status, by what it was and by what counts after it.
LEMMA ApplyStatuses ==
  ASSUME IInv, Apply, NEW i \in Invoices
  PROVE  LET paid == \E t \in DOMAIN obs' \cap PaymentsTo(i) : ~obs'[t].removed IN
         /\ status[i] = "none" => status'[i] = "none"
         /\ status[i] = "pending" /\ ~paid => status'[i] \in {"pending", "expired"}
         /\ status[i] = "pending" /\ paid =>
              status'[i] \in {"seen", "confirming", "underpaid", "confirmed"}
         /\ status[i] \in {"seen", "confirming", "underpaid", "reorged"} =>
              status'[i] \in {"seen", "confirming", "underpaid", "reorged", "confirmed"}
         /\ status[i] \in {"confirmed", "expired"} => status'[i] = status[i]
<1> DEFINE rows == DOMAIN obs' \cap PaymentsTo(i)
           o == Restrict(obs', rows)
           inv == Invoice(i, status[i])
<1>1. status'[i] = IF status[i] = "none" THEN "none" ELSE Decide(inv, o, Late(i))
  BY ApplyWrites DEF Recomputed
<1>2. DOMAIN o = rows /\ \A t \in rows : o[t] = obs'[t]
  BY DEF Restrict
<1>3. inv.status = status[i]
  BY DEF Invoice
<1>4. Live(o) # {} <=> \E t \in rows : ~obs'[t].removed
  BY <1>2 DEF Live
<1>5. status[i] \in {"seen", "confirming", "underpaid", "reorged"} => rows # {}
  BY ApplyRows DEF IInv, LedgerAgrees, StatusesAgree
<1> HIDE DEF o, inv
<1>6. CASE status[i] = "none"
  BY <1>1, <1>6
<1>7. CASE status[i] = "pending"
  BY <1>1, <1>3, <1>4, <1>7, DecidePending
<1>8. CASE status[i] \in {"seen", "confirming", "underpaid", "reorged"}
  BY <1>1, <1>2, <1>3, <1>5, <1>8, DecideInFlight
<1>9. CASE status[i] \in {"confirmed", "expired"}
  BY <1>1, <1>3, <1>9, DecideTerminal DEF Terminal
<1> QED
  BY <1>6, <1>7, <1>8, <1>9

LEMMA ApplyAgrees ==
  ASSUME IInv, Apply
  PROVE  LedgerAgrees'
<1>1. /\ since \in Snapshot /\ since' = NoReply /\ UNCHANGED <<chain, known>>
      /\ cursor' = LastBlock(since) /\ Created' = Created
      /\ since.known \subseteq known /\ since.chain \in Seq(Block)
  BY ApplyWrites DEF IInv, LedgerAgrees, PollAgrees, Snapshot
<1>2. NodeAgrees' /\ PollAgrees'
  BY <1>1 DEF IInv, LedgerAgrees, NodeAgrees, PollAgrees
<1>3. RowsAgree'
  <2> SUFFICES ASSUME NEW t \in DOMAIN obs'
               PROVE  t \in known /\ Payee[t] \in Created
                      /\ (Conflicted(cursor', t) => obs'[t].removed)
    BY <1>1 DEF RowsAgree
  <2>1. t \in known /\ Payee[t] \in Created
    BY <1>1, ApplyRows DEF IInv, LedgerAgrees, RowsAgree
  <2>2. Mined(cursor') \subseteq Mined(since.chain)
    BY <1>1, LastBlockPrefix DEF Mined
  <2>3. Conflicted(cursor', t) => Conflicted(since.chain, t)
    BY <2>2 DEF Conflicted
  <2> QED
    BY <2>1, <2>3, ApplyFollowsChain
<1>4. StatusesAgree'
  <2> SUFFICES ASSUME NEW i \in Invoices
               PROVE  /\ status'[i] = "pending" =>
                           \A t \in DOMAIN obs' \cap PaymentsTo(i) : obs'[t].removed
                      /\ status'[i] \in {"seen", "confirming", "underpaid", "confirmed", "reorged"}
                           => DOMAIN obs' \cap PaymentsTo(i) # {}
    BY DEF StatusesAgree
  <2>1. status[i] \in Statuses \cup {"none"}
    BY DEF IInv, TypeOK
  <2>2. status[i] \in {"seen", "confirming", "underpaid", "confirmed", "reorged"}
          => DOMAIN obs' \cap PaymentsTo(i) # {}
    BY ApplyRows DEF IInv, LedgerAgrees, StatusesAgree
  <2> QED
    BY <2>1, <2>2, ApplyStatuses DEF Statuses
<1> QED
  BY <1>2, <1>3, <1>4 DEF LedgerAgrees

LEMMA IInvInit == Init => IInv
<1> SUFFICES ASSUME Init PROVE IInv
  OBVIOUS
<1>1. chain = << >> /\ known = {} /\ cursor = << >> /\ since = NoReply /\ DOMAIN obs = {}
      /\ \A i \in Invoices : status[i] = "none"
  BY DEF Init, NodeInit
<1>2. Mined(<< >>) = {}
  BY DEF Mined
<1>3. Consistent(<< >>)
  BY <1>2 DEF Consistent
<1> QED
  BY <1>1, <1>2, <1>3, TypeInit DEF IInv, LedgerAgrees, NodeAgrees, PollAgrees, RowsAgree,
     StatusesAgree, PassesNoPaymentBy

LEMMA IInvStep == IInv /\ [Next]_vars => IInv'
<1> SUFFICES ASSUME IInv, [Next]_vars PROVE LedgerAgrees' /\ PassesNoPaymentBy'
  BY TypeStep DEF IInv
<1>1. ASSUME NEW i \in Invoices, CreateInvoice(i)
      PROVE  LedgerAgrees' /\ PassesNoPaymentBy'
  <2>1. /\ UNCHANGED <<chain, known, obs, cursor, since>>
        /\ status[i] = "none" /\ status' = [status EXCEPT ![i] = "pending"]
        /\ status \in [Invoices -> Statuses \cup {"none"}]
    BY <1>1 DEF CreateInvoice, IInv, TypeOK
  <2>2. Created \subseteq Created'
    BY <2>1 DEF Created
  <2>3. NodeAgrees' /\ PollAgrees' /\ RowsAgree'
    BY <2>1, <2>2 DEF IInv, LedgerAgrees, NodeAgrees, PollAgrees, RowsAgree
  <2>4. DOMAIN obs \cap PaymentsTo(i) = {}
    BY <2>1 DEF IInv, LedgerAgrees, RowsAgree, PaymentsTo, Created
  <2>5. StatusesAgree'
    BY <2>1, <2>4 DEF IInv, LedgerAgrees, StatusesAgree, Statuses
  <2>6. PassesNoPaymentBy'
    BY <2>1 DEF IInv, PassesNoPaymentBy
  <2> QED
    BY <2>3, <2>5, <2>6 DEF LedgerAgrees
<1>2. ASSUME UNCHANGED <<chain, known, status, obs, cursor>>,
             since' \in {since, NoReply, [chain |-> chain, known |-> known]}
      PROVE  LedgerAgrees' /\ PassesNoPaymentBy'
  <2>1. NodeAgrees' /\ RowsAgree' /\ StatusesAgree' /\ PassesNoPaymentBy'
    BY <1>2 DEF IInv, LedgerAgrees, NodeAgrees, RowsAgree, StatusesAgree, PassesNoPaymentBy, Created
  <2>2. PollAgrees'
    BY <1>2 DEF IInv, LedgerAgrees, NodeAgrees, PollAgrees, RowsAgree
  <2> QED
    BY <2>1, <2>2 DEF LedgerAgrees
<1>3. ASSUME NEW i \in Invoices, Deadline(i)
      PROVE  LedgerAgrees' /\ PassesNoPaymentBy'
  BY <1>2, <1>3 DEF Deadline, storeVars
<1>4. CASE (\E t \in Tx : Pay(t)) \/ MineBlock \/ InvalidateBlock
  BY <1>4, NodeStepAgrees
<1>5. CASE Ask
  BY <1>2, <1>5 DEF Ask, nodeVars, storeVars
<1>6. CASE Apply
  BY <1>6, ApplyAgrees, ApplyPasses
<1>7. CASE Abandon
  BY <1>2, <1>7 DEF Abandon, nodeVars, storeVars
<1>8. CASE UNCHANGED vars
  BY <1>2, <1>8 DEF vars
<1> QED
  BY <1>1, <1>3, <1>4, <1>5, <1>6, <1>7, <1>8 DEF Next

LEMMA Invariant == Spec => []IInv
<1> QED
  BY IInvInit, IInvStep, PTL DEF Spec

-----------------------------------------------------------------------------
(* The theorems *)

\* Polls, the node and the database fit together whatever the interleaving.
THEOREM LedgerCorrect == Spec => []LedgerAgrees
<1>1. IInv => LedgerAgrees
  BY DEF IInv
<1> QED
  BY <1>1, Invariant, PTL

\* For every window and every chain, with reorgs of any depth and polls that fail
\* at any point: the cursor never moves past a payment that is not on record at
\* Window confirmations or more.
THEOREM CursorCorrect == Spec => []PassesNoPaymentBy
<1>1. IInv => PassesNoPaymentBy
  BY DEF IInv
<1> QED
  BY <1>1, Invariant, PTL

\* After a commit a row that counts says of a payment what the chain does, or no less than
\* the window it was passed at.
LEMMA ApplyIsFresh ==
  ASSUME IInv, Apply, NEW t \in DOMAIN obs', ~obs'[t].removed
  PROVE  Faithful(t, obs'[t])
<1> DEFINE rows == RowsFor(ListSinceBlock(since, cursor), t)
<1>1. since \in Snapshot /\ Consistent(since.chain) /\ DOMAIN obs \subseteq since.known
  BY ApplyWrites DEF IInv, LedgerAgrees, PollAgrees
<1>2. IF rows # {} THEN obs'[t] \in rows ELSE t \in DOMAIN obs /\ obs'[t] = obs[t]
  BY ApplyRows
<1>3. t \in since.known /\ Payee[t] \in Created /\ Created \subseteq Invoices
  BY <1>1, <1>2, ApplyRows DEF IInv, LedgerAgrees, RowsAgree, Created
<1>4. CASE t \notin Mined(since.chain)
  <2>1. ~Conflicted(since.chain, t)
    BY ApplyFollowsChain
  <2>2. rows # {} /\ \A r \in rows : r.conf = 0 /\ (r.removed <=> t \in Mined(cursor))
    BY <1>1, <1>3, <1>4, <2>1, RowsOfUnconfirmed
  <2>3. t \notin Mined(cursor)
    BY <1>2, <2>2
  <2> QED
    BY <1>2, <1>4, <2>2, <2>3 DEF Faithful
<1>5. CASE t \in Mined(since.chain) /\ News(since, cursor, t)
  <2>1. rows # {} /\ \A r \in rows : r.conf = Depth(since.chain, t)
    BY <1>1, <1>3, <1>5, RowsOfMined
  <2> QED
    BY <1>2, <1>5, <2>1 DEF Faithful
<1>6. CASE t \in Mined(since.chain) /\ ~News(since, cursor, t)
  <2>1. rows = {} /\ t \in Mined(cursor)
    BY <1>1, <1>3, <1>6, RowsOfMined, OldNewsIsCovered
  <2>2. obs[t].conf >= Window
    BY <1>3, <2>1 DEF IInv, PassesNoPaymentBy
  <2> QED
    BY <1>2, <1>6, <2>1, <2>2 DEF Faithful
<1> QED
  BY <1>4, <1>5, <1>6

\* A committed poll counts what its chain holds, as deep as it does, and nothing else but
\* what is still on its way there.
THEOREM ChainMoneyCorrect == Spec => CountsOnlyChainMoney
<1>1. IInv => (Apply => \A t \in DOMAIN obs' :
        ~obs'[t].removed => ~Conflicted(since.chain, t) /\ Faithful(t, obs'[t]))
  BY ApplyFollowsChain, ApplyIsFresh
<1> QED
  BY <1>1, Invariant, PTL DEF CountsOnlyChainMoney

LEMMA ApplyExpires ==
  ASSUME IInv, Apply, NEW i \in Invoices, status[i] # "expired", status'[i] = "expired"
  PROVE  \A t \in since.known \cap PaymentsTo(i) : Conflicted(since.chain, t)
<1> DEFINE rows(t) == RowsFor(ListSinceBlock(since, cursor), t)
<1>1. /\ since \in Snapshot /\ Consistent(since.chain) /\ since.known \subseteq known
  BY ApplyWrites DEF IInv, LedgerAgrees, PollAgrees
<1>2. /\ status[i] = "pending"
      /\ \A t \in DOMAIN obs' \cap PaymentsTo(i) : obs'[t].removed
  BY ApplyStatuses DEF IInv, TypeOK, Statuses
<1> SUFFICES ASSUME NEW t \in since.known \cap PaymentsTo(i), ~Conflicted(since.chain, t)
             PROVE  FALSE
  OBVIOUS
<1>3. Payee[t] \in Created /\ Payee[t] = i /\ t \in Tx
  BY <1>1 DEF PaymentsTo, IInv, LedgerAgrees, NodeAgrees
<1>4. t \notin Mined(cursor)
  BY <1>2, <1>3 DEF IInv, PassesNoPaymentBy, LedgerAgrees, StatusesAgree
<1>5. rows(t) # {} /\ \A r \in rows(t) : ~r.removed
  <2>1. CASE t \in Mined(since.chain)
    <3>1. News(since, cursor, t)
      BY <1>1, <1>4, <2>1, OldNewsIsCovered
    <3> QED
      BY <1>1, <1>3, <2>1, <3>1, RowsOfMined
  <2>2. CASE t \notin Mined(since.chain)
    BY <1>1, <1>3, <1>4, <2>2, RowsOfUnconfirmed
  <2> QED
    BY <2>1, <2>2
<1>6. t \in DOMAIN obs' /\ obs'[t] \in rows(t)
  BY <1>3, <1>5, ApplyRows
<1> QED
  BY <1>2, <1>5, <1>6

\* An invoice expires only if the answer the poll was given shows no payment of it
\* that stands, mined or not, however old.
THEOREM ExpiryCorrect == Spec => ExpiresOnlyUnpaid
<1>1. ASSUME IInv, [Next]_vars, NEW i \in Invoices,
             status[i] # "expired", status'[i] = "expired"
      PROVE  \A t \in since.known \cap PaymentsTo(i) : Conflicted(since.chain, t)
  <2>1. status \in [Invoices -> Statuses \cup {"none"}]
    BY <1>1 DEF IInv, TypeOK
  <2>2. Apply
    BY <1>1, <2>1 DEF Next, vars, CreateInvoice, Deadline, Pay, MineBlock, InvalidateBlock,
       Ask, Abandon, storeVars
  <2> QED
    BY <1>1, <2>2, ApplyExpires
<1>2. IInv /\ [Next]_vars =>
        \A i \in Invoices : status[i] # "expired" /\ status'[i] = "expired" =>
          \A t \in since.known \cap PaymentsTo(i) : Conflicted(since.chain, t)
  BY <1>1
<1> QED
  BY <1>2, Invariant, PTL DEF Spec, ExpiresOnlyUnpaid

\* What is paid is the sum of what the transactions that count pay.
LEMMA PaidIsSum ==
  ASSUME NEW o, \A t \in Live(o) : o[t].amount = Amount[t]
  PROVE  Paid(o) = MapThenSumSet(LAMBDA t : Amount[t], Live(o))
<1> DEFINE S == Live(o)
           pick(s) == CHOOSE x \in s : TRUE
           P(f) == f = [s \in SUBSET S |->
                          IF s = {} THEN 0 ELSE o[pick(s)].amount + f[s \ {pick(s)}]]
           Q(f) == f = [s \in SUBSET S |->
                          IF s = {} THEN 0 ELSE Amount[pick(s)] + f[s \ {pick(s)}]]
<1>1. \A s \in SUBSET S : s # {} => o[pick(s)].amount = Amount[pick(s)]
  OBVIOUS
<1>2. ASSUME NEW f PROVE P(f) <=> Q(f)
  <2>1. \A s \in SUBSET S :
          (IF s = {} THEN 0 ELSE o[pick(s)].amount + f[s \ {pick(s)}])
            = (IF s = {} THEN 0 ELSE Amount[pick(s)] + f[s \ {pick(s)}])
    BY <1>1
  <2> HIDE DEF pick
  <2> QED
    BY <2>1, Zenon
<1>3. (CHOOSE f : P(f)) = (CHOOSE f : Q(f))
  <2> HIDE DEF P, Q
  <2> QED
    BY <1>2, Zenon
<1>4. Paid(o) = (CHOOSE f : P(f))[S]
  BY Zenon DEF Paid, MapThenSumSet, MapThenFoldSet
<1>5. MapThenSumSet(LAMBDA t : Amount[t], S) = (CHOOSE f : Q(f))[S]
  BY Zenon DEF MapThenSumSet, MapThenFoldSet
<1> QED
  BY <1>3, <1>4, <1>5, Zenon

\* The weakest of the payments that count, if there are any.
LEMMA WeakestIs ==
  ASSUME NEW o, Live(o) # {}, \A t \in DOMAIN o : o[t].conf \in Nat
  PROVE  /\ MinConfirmations(o) \in Nat
         /\ \E t \in Live(o) : o[t].conf = MinConfirmations(o)
         /\ \A t \in Live(o) : MinConfirmations(o) <= o[t].conf
<1> DEFINE confs == {o[t].conf : t \in Live(o)}
<1>1. confs \in SUBSET Nat /\ confs # {} /\ MinConfirmations(o) = Min(confs)
  BY DEF Live, MinConfirmations
<1>2. \A t \in Live(o) : o[t].conf \in confs
  OBVIOUS
<1>3. \A n \in confs : n \in Nat /\ \E t \in Live(o) : o[t].conf = n
  BY <1>1
<1> HIDE DEF confs
<1>4. Min(confs) \in confs /\ \A n \in confs : Min(confs) <= n
  BY <1>1, Least
<1> QED
  BY <1>1, <1>2, <1>3, <1>4

\* Decide confirms only when every payment that counts is mined as deep as the invoice
\* asks, and they do not fall short.
LEMMA DecideConfirms ==
  ASSUME NEW inv, inv.required \in Nat, inv.status # "confirmed",
         NEW o, \A t \in DOMAIN o : o[t].conf \in Nat,
         NEW late, Decide(inv, o, late) = "confirmed"
  PROVE  /\ \A t \in Live(o) : o[t].conf > 0 /\ o[t].conf >= inv.required
         /\ ~(Paid(o) < inv.amount)
<1> DEFINE confs == {o[t].conf : t \in Live(o)}
<1>1. Live(o) # {} /\ DecidePaid(inv, o) = "confirmed"
  BY DEF Decide, DecideUnpaid, Terminal
<1>2. confs \in SUBSET Nat /\ confs # {} /\ MinConfirmations(o) = Min(confs)
  BY <1>1 DEF Live, MinConfirmations
<1>3. ~(MinConfirmations(o) <= 0) /\ ~(MinConfirmations(o) < inv.required)
      /\ ~(Paid(o) < inv.amount)
  BY <1>1 DEF DecidePaid
<1>4. Min(confs) \in Nat /\ \A y \in confs : Min(confs) <= y
  BY <1>2, Least
<1>5. \A t \in Live(o) : o[t].conf \in confs /\ o[t].conf \in Nat
  BY <1>2
<1> HIDE DEF confs
<1>6. Min(confs) > 0 /\ Min(confs) >= inv.required
  BY <1>2, <1>3, <1>4
<1>7. \A t \in Live(o) : Min(confs) <= o[t].conf
  BY <1>4, <1>5
<1>8. \A t \in Live(o) : o[t].conf > 0 /\ o[t].conf >= inv.required
  BY <1>4, <1>5, <1>6, <1>7
<1> QED
  BY <1>3, <1>8, Zenon

\* A commit that confirms an invoice has counted exactly the payments it may count,
\* and passed over only what was replaced or has just been taken back.
LEMMA ApplyConfirms ==
  ASSUME IInv, Apply, NEW i \in Invoices, status[i] # "confirmed", status'[i] = "confirmed"
  PROVE  /\ ~(MapThenSumSet(LAMBDA t : Amount[t], CountedFor(i)) < Due[i])
         /\ \A t \in since.known \cap PaymentsTo(i) :
              \/ t \in CountedFor(i)
              \/ Conflicted(since.chain, t)
              \/ t \in Mined(cursor) \ Mined(since.chain)
<1> DEFINE rows(t) == RowsFor(ListSinceBlock(since, cursor), t)
           o == Restrict(obs', DOMAIN obs' \cap PaymentsTo(i))
           inv == Invoice(i, status[i])
<1>1. /\ since \in Snapshot /\ Consistent(since.chain) /\ since.known \subseteq known
      /\ Mined(since.chain) \cap WalletTx \subseteq since.known
      /\ DOMAIN obs \subseteq since.known
  BY ApplyWrites DEF IInv, LedgerAgrees, PollAgrees
<1>2. status[i] # "none" /\ Decide(inv, o, Late(i)) = "confirmed"
  BY ApplyWrites DEF Recomputed
<1>3. DOMAIN o = DOMAIN obs' \cap PaymentsTo(i) /\ \A t \in DOMAIN o : o[t] = obs'[t]
  BY DEF Restrict
<1>4. \A t \in DOMAIN obs' : obs'[t] \in Row(t)
  BY TypeStep DEF IInv, TypeOK, Next
<1>5. inv.required = Required[i] /\ inv.amount = Due[i] /\ inv.status = status[i]
      /\ Required[i] \in Nat
  BY RequiredAssumption DEF Invoice
<1>6. Live(o) = {t \in DOMAIN obs' \cap PaymentsTo(i) : ~obs'[t].removed}
  BY <1>3 DEF Live
<1>7. /\ \A t \in Live(o) : obs'[t].conf > 0 /\ obs'[t].conf >= Required[i]
      /\ ~(Paid(o) < Due[i])
  <2>1. \A t \in DOMAIN o : o[t].conf \in Nat
    BY <1>3, <1>4 DEF Row
  <2>2. Live(o) \subseteq DOMAIN o
    BY DEF Live
  <2> HIDE DEF o, inv
  <2> QED
    BY <1>2, <1>3, <1>5, <2>1, <2>2, DecideConfirms
<1>8. ASSUME NEW t \in since.known \cap PaymentsTo(i)
      PROVE  t \in Tx /\ Payee[t] \in Created /\ Payee[t] = i
  BY <1>1, <1>8 DEF PaymentsTo, IInv, LedgerAgrees, NodeAgrees
<1>9. ASSUME NEW t \in Live(o) PROVE t \in CountedFor(i) /\ t \in since.known \cap PaymentsTo(i)
  <2>1. t \in Mined(since.chain) /\ t \in PaymentsTo(i) /\ t \in DOMAIN obs'
    BY <1>6, <1>7, <1>9, ApplyFollowsChain
  <2>2. t \in since.known
    BY <1>1, <2>1, ApplyRows
  <2>3. CASE News(since, cursor, t)
    <3>1. rows(t) # {} /\ \A r \in rows(t) : r.conf = Depth(since.chain, t)
      BY <1>1, <1>8, <2>1, <2>2, <2>3, RowsOfMined
    <3>2. Depth(since.chain, t) >= Required[i]
      BY <1>7, <1>9, <2>1, <3>1, ApplyRows
    <3> QED
      BY <2>1, <2>2, <3>2 DEF CountedFor, SettledIn
  <2>4. CASE ~News(since, cursor, t)
    BY <1>1, <2>1, <2>2, <2>4, OldNewsIsCovered DEF CountedFor
  <2> QED
    BY <2>3, <2>4
<1>10. ASSUME NEW t \in since.known \cap PaymentsTo(i), t \in Mined(since.chain)
       PROVE  t \in Live(o)
  <2>1. CASE News(since, cursor, t)
    <3>1. rows(t) # {} /\ \A r \in rows(t) : ~r.removed
      BY <1>1, <1>8, <1>10, <2>1, RowsOfMined
    <3> QED
      BY <1>6, <1>8, <1>10, <3>1, ApplyRows
  <2>2. CASE ~News(since, cursor, t)
    <3>1. rows(t) = {} /\ t \in Mined(cursor)
      BY <1>1, <1>8, <1>10, <2>2, RowsOfMined, OldNewsIsCovered
    <3>2. t \in DOMAIN obs /\ ~obs[t].removed
      BY <1>8, <3>1 DEF IInv, PassesNoPaymentBy
    <3> QED
      BY <1>6, <1>10, <3>1, <3>2, ApplyRows
  <2> QED
    BY <2>1, <2>2
<1>11. ASSUME NEW t \in since.known \cap PaymentsTo(i), t \notin Mined(since.chain)
       PROVE  Conflicted(since.chain, t) \/ t \in Mined(cursor)
  <2> SUFFICES ASSUME ~Conflicted(since.chain, t), t \notin Mined(cursor) PROVE FALSE
    OBVIOUS
  <2>1. rows(t) # {} /\ \A r \in rows(t) : r.conf = 0 /\ ~r.removed
    BY <1>1, <1>8, <1>11, RowsOfUnconfirmed
  <2>2. t \in Live(o) /\ obs'[t].conf = 0
    BY <1>6, <1>8, <1>11, <2>1, ApplyRows
  <2> QED
    BY <1>7, <2>2
<1>12. CountedFor(i) = Live(o)
  <2>1. CountedFor(i) \subseteq since.known \cap PaymentsTo(i) \cap Mined(since.chain)
    BY <1>1, OutsideAssumption DEF CountedFor, SettledIn, PaymentsTo, WalletTx
  <2> QED
    BY <1>9, <1>10, <2>1
<1>13. Paid(o) = MapThenSumSet(LAMBDA t : Amount[t], CountedFor(i))
  <2>1. \A t \in Live(o) : o[t].amount = Amount[t]
    BY <1>3, <1>4, <1>6 DEF Row
  <2> HIDE DEF o
  <2>2. Paid(o) = MapThenSumSet(LAMBDA t : Amount[t], Live(o))
    BY <2>1, PaidIsSum
  <2> QED
    BY <1>12, <2>2, Zenon
<1> QED
  BY <1>7, <1>10, <1>11, <1>12, <1>13

\* A step that confirms an invoice is a commit.
LEMMA ConfirmsByApply ==
  ASSUME IInv, [Next]_vars, NEW i \in Invoices, status[i] # "confirmed", status'[i] = "confirmed"
  PROVE  Apply
<1>1. status \in [Invoices -> Statuses \cup {"none"}]
  BY DEF IInv, TypeOK
<1> QED
  BY <1>1 DEF Next, vars, CreateInvoice, Deadline, Pay, MineBlock, InvalidateBlock,
     Ask, Abandon, storeVars

\* Decide confirms when every payment that counts is mined as deep as the invoice asks, and
\* they do not fall short.
LEMMA DecideSettles ==
  ASSUME NEW inv, inv.required \in Nat, ~Terminal(inv.status),
         NEW o, \A t \in DOMAIN o : o[t].conf \in Nat,
         Live(o) # {}, \A t \in Live(o) : o[t].conf > 0 /\ o[t].conf >= inv.required,
         ~(Paid(o) < inv.amount), NEW late
  PROVE  Decide(inv, o, late) = "confirmed"
<1>1. PICK t \in Live(o) : MinConfirmations(o) \in Nat /\ o[t].conf = MinConfirmations(o)
  BY WeakestIs
<1>2. ~(MinConfirmations(o) <= 0) /\ ~(MinConfirmations(o) < inv.required)
  BY <1>1
<1>3. DecidePaid(inv, o) = "confirmed"
  BY <1>2 DEF DecidePaid
<1> QED
  BY <1>3 DEF Decide

\* A commit that finds an invoice settled confirms it.
LEMMA ApplySettles ==
  ASSUME IInv, Apply, NEW i \in Invoices, status[i] \notin {"none", "confirmed", "expired"},
         SettledAt(since.chain, since.known, i), Required[i] <= Window
  PROVE  status'[i] = "confirmed"
<1> DEFINE rows(t) == RowsFor(ListSinceBlock(since, cursor), t)
           o == Restrict(obs', DOMAIN obs' \cap PaymentsTo(i))
           inv == Invoice(i, status[i])
           settled == SettledIn(since.chain, i)
<1>1. /\ since \in Snapshot /\ Consistent(since.chain) /\ since.known \subseteq known
      /\ Mined(since.chain) \cap WalletTx \subseteq since.known
      /\ DOMAIN obs \subseteq since.known
  BY ApplyWrites DEF IInv, LedgerAgrees, PollAgrees
<1>2. status'[i] = Decide(inv, o, Late(i))
  BY ApplyWrites DEF Recomputed
<1>3. DOMAIN o = DOMAIN obs' \cap PaymentsTo(i) /\ \A t \in DOMAIN o : o[t] = obs'[t]
  BY DEF Restrict
<1>4. \A t \in DOMAIN obs' : obs'[t] \in Row(t)
  BY TypeStep DEF IInv, TypeOK, Next
<1>5. Live(o) = {t \in DOMAIN obs' \cap PaymentsTo(i) : ~obs'[t].removed}
  BY <1>3 DEF Live
<1>6. settled \subseteq since.known \cap PaymentsTo(i) \cap Mined(since.chain)
      /\ \A t \in settled : Depth(since.chain, t) >= Required[i]
  BY <1>1, OutsideAssumption DEF SettledIn, PaymentsTo, WalletTx
<1>7. ASSUME NEW t \in Live(o) PROVE t \in settled
  <2>1. t \in since.known \cap PaymentsTo(i) /\ ~Conflicted(since.chain, t)
    BY <1>1, <1>5, <1>7, ApplyRows, ApplyFollowsChain
  <2> QED
    BY <2>1 DEF SettledAt
<1>8. ASSUME NEW t \in settled PROVE t \in Live(o)
  <2>1. t \in Mined(since.chain) /\ t \in since.known /\ t \in Tx /\ Payee[t] \in Created /\ Payee[t] = i
    BY <1>1, <1>6, <1>8 DEF PaymentsTo, IInv, LedgerAgrees, NodeAgrees
  <2>2. CASE News(since, cursor, t)
    <3>1. rows(t) # {} /\ \A r \in rows(t) : ~r.removed
      BY <1>1, <2>1, <2>2, RowsOfMined
    <3> QED
      BY <1>5, <2>1, <3>1, ApplyRows DEF PaymentsTo
  <2>3. CASE ~News(since, cursor, t)
    <3>1. rows(t) = {} /\ t \in Mined(cursor)
      BY <1>1, <2>1, <2>3, RowsOfMined, OldNewsIsCovered
    <3>2. t \in DOMAIN obs /\ ~obs[t].removed
      BY <2>1, <3>1 DEF IInv, PassesNoPaymentBy
    <3> QED
      BY <1>5, <2>1, <3>1, <3>2, ApplyRows DEF PaymentsTo
  <2> QED
    BY <2>2, <2>3
<1>9. ASSUME NEW t \in Live(o) PROVE o[t].conf > 0 /\ o[t].conf >= Required[i]
  <2>1. t \in DOMAIN o /\ o[t] = obs'[t] /\ Faithful(t, obs'[t])
    BY <1>3, <1>5, <1>9, ApplyIsFresh
  <2>2. t \in Mined(since.chain) /\ Depth(since.chain, t) >= Required[i]
    BY <1>6, <1>7, <1>9
  <2>3. Depth(since.chain, t) \in Nat \ {0}
    BY <1>1, <2>2, DepthIsCount DEF Snapshot
  <2>4. Window \in Nat \ {0} /\ Required[i] \in Nat
    BY WindowAssumption, RequiredAssumption
  <2>5. obs'[t].conf = Depth(since.chain, t) \/ obs'[t].conf >= Window
    BY <2>1, <2>2 DEF Faithful
  <2>6. obs'[t].conf \in Nat
    BY <1>3, <1>4, <2>1 DEF Row
  <2> QED
    BY <2>1, <2>2, <2>3, <2>4, <2>5, <2>6
<1>10. Paid(o) = MapThenSumSet(LAMBDA t : Amount[t], settled)
  <2>1. \A t \in Live(o) : o[t].amount = Amount[t]
    BY <1>3, <1>4, <1>5 DEF Row
  <2>2. Live(o) = settled
    BY <1>7, <1>8
  <2> HIDE DEF o, settled
  <2>3. Paid(o) = MapThenSumSet(LAMBDA t : Amount[t], Live(o))
    BY <2>1, PaidIsSum
  <2> QED
    BY <2>2, <2>3, Zenon
<1>11. ~(Paid(o) < Due[i]) /\ settled # {}
  <2>1. settled \subseteq Tx
    BY <1>6 DEF PaymentsTo
  <2>2. MapThenSumSet(LAMBDA t : Amount[t], settled) >= Due[i]
    BY Zenon DEF SettledAt
  <2> HIDE DEF o, settled
  <2>3. Paid(o) = Sum(Amount, settled) /\ Sum(Amount, settled) >= Due[i]
    BY <1>10, <2>2, Zenon DEF Sum
  <2>4. IsFiniteSet(settled) /\ \A t \in settled : Amount[t] \in Nat
    BY <2>1, AmountAssumption, FS_Subset
  <2>5. Sum(Amount, settled) \in Nat /\ (settled = {} => Sum(Amount, settled) = 0)
    BY <2>4, SumType, SumSteps
  <2>6. Due[i] \in Nat \ {0}
    BY RequiredAssumption
  <2> QED
    BY <2>3, <2>5, <2>6
<1>12. /\ inv.required = Required[i] /\ inv.amount = Due[i] /\ inv.status = status[i]
       /\ Required[i] \in Nat
  BY RequiredAssumption DEF Invoice
<1>13. ~Terminal(inv.status)
  BY <1>12 DEF Terminal
<1>14. Live(o) # {}
  BY <1>8, <1>11
<1>15. \A t \in DOMAIN o : o[t].conf \in Nat
  BY <1>3, <1>4 DEF Row
<1> HIDE DEF o, inv
<1> QED
  BY <1>2, <1>9, <1>11, <1>12, <1>13, <1>14, <1>15, DecideSettles

\* A commit after the expiry of an invoice that nobody has paid ends it.
LEMMA ApplyExpiresUnpaid ==
  ASSUME IInv, Apply, NEW i \in Invoices, status[i] = "pending", Late(i),
         since.known \cap PaymentsTo(i) = {}
  PROVE  status'[i] = "expired"
<1> DEFINE o == Restrict(obs', DOMAIN obs' \cap PaymentsTo(i))
<1>1. DOMAIN obs \subseteq since.known /\ since \in Snapshot /\ Consistent(since.chain)
  BY ApplyWrites DEF IInv, LedgerAgrees, PollAgrees
<1>2. status'[i] = Decide(Invoice(i, "pending"), o, Late(i))
  BY ApplyWrites DEF Recomputed
<1>3. DOMAIN o = {}
  BY <1>1, ApplyRows DEF Restrict
<1>4. Live(o) = {}
  BY <1>3 DEF Live
<1> HIDE DEF o
<1> QED
  BY <1>2, <1>3, <1>4 DEF Decide, DecideUnpaid, Terminal, Invoice

\* The first commit that finds an invoice settled or past its expiry unpaid says so, for
\* every window and whatever polls failed and blocks went before: what the polls are for,
\* without the question whether there is one.
THEOREM OnePollCorrect == Spec => OnePollIsEnough
<1>1. IInv => (Apply => \A i \in Invoices : status[i] \notin {"none", "confirmed", "expired"} =>
        /\ SettledAt(since.chain, since.known, i) /\ Required[i] <= Window =>
             status'[i] = "confirmed"
        /\ status[i] = "pending" /\ Late(i) /\ since.known \cap PaymentsTo(i) = {} =>
             status'[i] = "expired")
  BY ApplySettles, ApplyExpiresUnpaid
<1> QED
  BY <1>1, Invariant, PTL DEF OnePollIsEnough

\* An invoice becomes confirmed only by money in the chain that is, or was when the
\* cursor passed it, as deep as the invoice asks.
THEOREM ConfirmedCorrect == Spec => ConfirmedIsReal
<1>1. IInv /\ [Next]_vars =>
        \A i \in Invoices : status[i] # "confirmed" /\ status'[i] = "confirmed" =>
          ~(MapThenSumSet(LAMBDA t : Amount[t], CountedFor(i)) < Due[i])
  BY ConfirmsByApply, ApplyConfirms
<1> QED
  BY <1>1, Invariant, PTL DEF Spec, ConfirmedIsReal

\* No invoice becomes confirmed over the head of a weaker payment.
THEOREM WeakestCorrect == Spec => WeakestGoverns
<1>1. IInv /\ [Next]_vars =>
        \A i \in Invoices : status[i] # "confirmed" /\ status'[i] = "confirmed" =>
          \A t \in since.known \cap PaymentsTo(i) :
            \/ t \in CountedFor(i)
            \/ Conflicted(since.chain, t)
            \/ t \in Mined(cursor) \ Mined(since.chain)
  BY ConfirmsByApply, ApplyConfirms
<1> QED
  BY <1>1, Invariant, PTL DEF Spec, WeakestGoverns

\* A poll that is applied again, as after a crash, writes what is there already.
THEOREM ReplayCorrect == Spec => ReplayIsHarmless
<1>1. ASSUME IInv, Apply
      PROVE  /\ Upserted(obs', ListSinceBlock(since, cursor)) = obs'
             /\ Recomputed(status', obs') = status'
  <2>1. obs' = Upserted(obs, ListSinceBlock(since, cursor)) /\ status' = Recomputed(status, obs')
    BY <1>1, ApplyWrites
  <2>2. Upserted(obs', ListSinceBlock(since, cursor)) = obs'
    BY <2>1 DEF Upserted
  <2>3. \A i \in Invoices : Recomputed(status', obs')[i] = status'[i]
    <3> SUFFICES ASSUME NEW i \in Invoices PROVE Recomputed(status', obs')[i] = status'[i]
      OBVIOUS
    <3> DEFINE o == Restrict(obs', DOMAIN obs' \cap PaymentsTo(i))
               old == Invoice(i, status[i])
               new == Invoice(i, status'[i])
    <3>1. CASE status[i] = "none"
      BY <2>1, <3>1 DEF Recomputed
    <3>2. CASE status[i] # "none"
      <4>1. status'[i] = Decide(old, o, Late(i))
        BY <2>1, <3>2 DEF Recomputed
      <4>2. new.status = status'[i] /\ new.amount = old.amount /\ new.required = old.required
        BY DEF Invoice
      <4>3. status'[i] # "none"
        BY <2>1, <3>2, RecomputedType, <1>1 DEF IInv, TypeOK
      <4>4. Recomputed(status', obs')[i] = Decide(new, o, Late(i))
        BY <4>3 DEF Recomputed
      <4> HIDE DEF o, old, new
      <4> QED
        BY <4>1, <4>2, <4>4, DecideIdempotent
    <3> QED
      BY <3>1, <3>2
  <2>4. Recomputed(status', obs') = status'
    BY <2>1, <2>3 DEF Recomputed
  <2> QED
    BY <2>2, <2>4
<1>2. IInv => (Apply => /\ Upserted(obs', ListSinceBlock(since, cursor)) = obs'
                        /\ Recomputed(status', obs') = status')
  BY <1>1
<1> QED
  BY <1>2, Invariant, PTL DEF Spec, ReplayIsHarmless

-----------------------------------------------------------------------------
(* Refinement *)

LEMMA LifecycleInit == Init => Lifecycle!Init
BY DEF Init, Lifecycle!Init

\* A commit is one poll of the abstract lifecycle: the invoices whose status
\* changed, and an event for each of them.
LEMMA ApplyIsPoll ==
  ASSUME IInv, Apply
  PROVE  \E S \in SUBSET Invoices :
           \E changes \in [S -> Lifecycle!InFlight \cup {"confirmed", "expired"}] :
             Lifecycle!Poll(changes)
<1> DEFINE S == {i \in Invoices : status'[i] # status[i]}
           changes == [i \in S |-> status'[i]]
<1>1. /\ status \in [Invoices -> Statuses \cup {"none"}]
      /\ status' \in [Invoices -> Statuses \cup {"none"}]
      /\ events' = Announced(status')
  BY ApplyWrites, TypeStep DEF IInv, TypeOK, Next
<1>2. \A i \in S : /\ status'[i] \in Lifecycle!InFlight \cup {"confirmed", "expired"}
                   /\ status'[i] \in Lifecycle!Successors(status[i]) \ {status[i]}
  BY <1>1, ApplyStatuses DEF Lifecycle!InFlight, Lifecycle!Successors, Statuses
<1>3. changes \in [S -> Lifecycle!InFlight \cup {"confirmed", "expired"}]
  BY <1>2
<1>4. Lifecycle!Poll(changes)
  BY <1>1, <1>2 DEF Lifecycle!Poll, Lifecycle!Move, Announced
<1> QED
  BY <1>3, <1>4

LEMMA LifecycleStep == IInv /\ [Next]_vars => [Lifecycle!Next]_(Lifecycle!vars)
<1> SUFFICES ASSUME IInv, [Next]_vars PROVE [Lifecycle!Next]_(Lifecycle!vars)
  OBVIOUS
<1>1. ASSUME NEW i \in Invoices, CreateInvoice(i) PROVE Lifecycle!Next
  BY <1>1 DEF CreateInvoice, Lifecycle!Create, Lifecycle!Next
<1>2. CASE Apply
  BY <1>2, ApplyIsPoll DEF Lifecycle!Next
<1>3. ASSUME UNCHANGED <<status, events>> PROVE [Lifecycle!Next]_(Lifecycle!vars)
  BY <1>3 DEF Lifecycle!vars
<1>4. CASE \E i \in Invoices : Deadline(i)
  BY <1>3, <1>4 DEF Deadline, storeVars
<1>5. CASE (\E t \in Tx : Pay(t)) \/ MineBlock \/ InvalidateBlock
  BY <1>3, <1>5 DEF Pay, MineBlock, InvalidateBlock, storeVars
<1>6. CASE Ask \/ Abandon \/ UNCHANGED vars
  BY <1>3, <1>6 DEF Ask, Abandon, vars, storeVars
<1> QED
  BY <1>1, <1>2, <1>4, <1>5, <1>6 DEF Next

\* The monitor implements the abstract lifecycle: statuses move only along it, the
\* final ones are final, and every change of status is announced once.
THEOREM MonitorImplementsLifecycle == Spec => ImplementsLifecycle
<1>1. Init => Lifecycle!Init
  BY LifecycleInit
<1>2. IInv /\ [Next]_vars => [Lifecycle!Next]_(Lifecycle!vars)
  BY LifecycleStep
<1> QED
  BY <1>1, <1>2, Invariant, PTL DEF Spec, ImplementsLifecycle, Lifecycle!Spec
=============================================================================
