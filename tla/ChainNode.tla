------------------------------ MODULE ChainNode -----------------------------
(***************************************************************************)
(* Bitcoin core as the gateway sees it: a chain of blocks that grows and   *)
(* is sometimes cut back, the transactions the watch-only wallet has       *)
(* learnt of, and listsinceblock.  Core is not part of the repository:     *)
(* this module says what internal/rpc/calls.go, internal/monitor and their *)
(* tests take it to do.                                                    *)
(*                                                                         *)
(* A block is the transactions in it and a branch number that tells apart  *)
(* two blocks of the same content.  A block hash commits to everything     *)
(* below it, so a hash is the prefix of the chain the block tops.  The     *)
(* genesis block, which is never mined nor taken back and pays nobody, is  *)
(* left out: its hash is the empty prefix.  A cursor that was never set is *)
(* the empty prefix too, for listsinceblock does the same of both: it      *)
(* starts at the beginning.                                                *)
(* A transaction pays one address and spends one coin.                     *)
(***************************************************************************)
EXTENDS Integers, Sequences, FiniteSets

CONSTANTS
  Tx,           \* transactions
  Outside,      \* the payee of a transaction that does not involve the wallet
  Payee,        \* [Tx -> whom a transaction pays]
  Coin,         \* [Tx -> the coin it spends]: two that spend one coin conflict
  Window,       \* target_confirmations: how far lastblock lags the tip
  MaxHeight,    \* bound: the longest chain
  MaxRewinds    \* bound: how often blocks are invalidated

ASSUME WindowAssumption == Window \in Nat \ {0}
ASSUME BoundAssumption == MaxHeight \in Nat /\ MaxRewinds \in Nat

VARIABLES
  chain,    \* the active chain, oldest block first
  known,    \* the wallet's transactions: mined, in the mempool or conflicted
  rewinds   \* how often the chain was cut back

nodeVars == <<chain, known, rewinds>>

Block == [txs : SUBSET Tx, branch : 0..MaxRewinds]
WalletTx == {t \in Tx : Payee[t] # Outside}

-----------------------------------------------------------------------------
\* What a chain c holds, and the height at which it holds a transaction.
Mined(c) == UNION {c[h].txs : h \in DOMAIN c}
Height(c, t) == CHOOSE h \in DOMAIN c : t \in c[h].txs
Depth(c, t) == Len(c) + 1 - Height(c, t)

\* A mined transaction took t's coin.
Beats(u, t) == u # t /\ Coin[u] = Coin[t]
Conflicted(c, t) == \E u \in Mined(c) : Beats(u, t)
Winner(c, t) == CHOOSE u \in Mined(c) : Beats(u, t)

\* Chains c and d agree on every block up to height h.
Shared(c, d, h) == h \in DOMAIN c /\ h \in DOMAIN d /\ \A k \in 1..h : c[k] = d[k]

-----------------------------------------------------------------------------
\* listsinceblock over a snapshot s = [chain, known] of the node, from the
\* block that tops the prefix "from", with include_removed set.

\* A mined transaction of the snapshot is news if its block is above the last
\* one that the old chain and the active chain share.
News(s, from, t) == ~Shared(s.chain, from, Height(s.chain, t))

\* transactions[]: what is mined in new blocks, what they conflicted away, and
\* everything unconfirmed wherever it starts from.
MinedEntries(s, from) ==
  {[tx |-> t, conf |-> Depth(s.chain, t), conflicts |-> FALSE] :
     t \in {u \in s.known : u \in Mined(s.chain) /\ News(s, from, u)}}

\* Core tells of a conflict in one of two ways: it lists the wallet transaction
\* that won, or gives a stranger's depth as a negative number.
ConflictedEntry(c, t) ==
  LET u == Winner(c, t)
  IN  IF u \in WalletTx THEN [tx |-> t, conf |-> 0, conflicts |-> TRUE]
      ELSE [tx |-> t, conf |-> -Depth(c, u), conflicts |-> FALSE]

ConflictedEntries(s, from) ==
  {ConflictedEntry(s.chain, t) :
     t \in {u \in s.known : /\ Conflicted(s.chain, u)
                            /\ News(s, from, Winner(s.chain, u))}}

UnconfirmedEntries(s) ==
  {[tx |-> t, conf |-> 0, conflicts |-> FALSE] :
     t \in {u \in s.known : u \notin Mined(s.chain) /\ ~Conflicted(s.chain, u)}}

\* removed[]: in the chain at that block and no longer, as the comment on the field
\* (calls.go) says it.  What was taken out of one block and mined again in another is in
\* transactions[] only.
RemovedEntries(s, from) ==
  {[tx |-> t, conf |-> 0, conflicts |-> FALSE] :
     t \in {u \in s.known : u \in Mined(from) /\ u \notin Mined(s.chain)}}

\* lastblock: Window blocks back, the tip itself being one block back, and the genesis
\* block if the chain is too short for that.  So it is never empty, and a poll that
\* commits always sets the cursor (store.go, Apply, keeps the old one for an empty answer).
LastBlock(s) ==
  SubSeq(s.chain, 1, IF Len(s.chain) < Window THEN 0 ELSE Len(s.chain) + 1 - Window)

ListSinceBlock(s, from) ==
  [transactions |-> MinedEntries(s, from) \cup ConflictedEntries(s, from)
                      \cup UnconfirmedEntries(s),
   removed      |-> RemovedEntries(s, from),
   lastblock    |-> LastBlock(s)]

-----------------------------------------------------------------------------
NodeInit ==
  /\ chain = << >>
  /\ known = {}
  /\ rewinds = 0

\* A payment enters the mempool and the wallet.
Broadcast(t) ==
  /\ t \in WalletTx \ (known \cup Mined(chain))
  /\ ~Conflicted(chain, t)
  /\ known' = known \cup {t}
  /\ UNCHANGED <<chain, rewinds>>

\* A block of transactions S is mined.  They spend coins nobody has spent, and
\* the wallet need not have met them before.
Mine(S) ==
  /\ Len(chain) < MaxHeight
  /\ S \cap Mined(chain) = {}
  /\ \A t \in S : ~Conflicted(chain, t)
  /\ \A t, u \in S : Coin[t] = Coin[u] => t = u
  /\ chain' = Append(chain, [txs |-> S, branch |-> rewinds])
  /\ known' = known \cup (S \cap WalletTx)
  /\ UNCHANGED rewinds

\* invalidateblock: the blocks above height h leave the chain.  The wallet
\* forgets nothing: what they held is unconfirmed again.
Rewind(h) ==
  /\ rewinds < MaxRewinds
  /\ chain' = SubSeq(chain, 1, h)
  /\ rewinds' = rewinds + 1
  /\ UNCHANGED known

NodeTypeOK ==
  /\ chain \in Seq(Block) /\ Len(chain) <= MaxHeight
  /\ known \subseteq WalletTx
  /\ rewinds \in 0..MaxRewinds
=============================================================================
