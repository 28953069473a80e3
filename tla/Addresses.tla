------------------------------ MODULE Addresses -----------------------------
(***************************************************************************)
(* How an invoice gets its address: POST /invoices of internal/api takes   *)
(* the next derivation index from the database, has internal/wallet make   *)
(* sure that the node watches it, and stores the invoice.  Requests run    *)
(* at the same time; the wallet's mutex covers only the watching.  The     *)
(* gateway stops and starts again, possibly with another descriptor, and   *)
(* finds the node as it left it.                                           *)
(*                                                                         *)
(* The node watches a range of indexes of each descriptor it has imported. *)
(* An import that does not cover what it watches already is refused, and   *)
(* it widens an active descriptor to a keypool beyond the last address     *)
(* used (the comments of calls.go and wallet.go, and wallet_test.go's      *)
(* fakeNode).                                                              *)
(*                                                                         *)
(* A process is a request or Opener, which stands for wallet.Open.  A      *)
(* definition marked "Fault" is a way the next one could have been written *)
(* wrong, some of them the way it once was: a run with the fault in its    *)
(* place must fail.                                                        *)
(***************************************************************************)
EXTENDS Integers, Sequences, FiniteSetsExt

CONSTANTS
  Descriptors,  \* what WALLET_DESCRIPTOR may be set to
  Requests,     \* requests under way at once
  Opener,       \* wallet.Open
  Nobody,       \* who holds the free mutex; the descriptor active at first
  Step,         \* ADDRESS_GAP: the first range, and how much one extension adds
  Keypool,      \* how far beyond the last used address core watches
  MaxIndex      \* bound: the last index handed out

ASSUME NameAssumption ==
  Opener \notin Requests /\ Nobody \notin Requests \cup Descriptors \cup {Opener}
ASSUME RangeAssumption == Step \in Nat \ {0} /\ Keypool \in Nat /\ MaxIndex \in Nat

VARIABLES
  active,      \* the node: its active receiving descriptor
  watched,     \*   and the last index it watches of each one, -1 for none
  running,     \* the gateway: "down", "opening" or "up"
  descriptor,  \*   the descriptor it was started with
  gapEnd,      \*   Wallet.gapEnd
  mu,          \*   who holds Wallet.mu
  pc,          \* what each process does next
  index,       \* the derivation index each request has taken
  goal,        \* how far each process wants the node to watch
  stored       \* the invoices table: the addresses, in the order of the inserts

nodeVars == <<active, watched>>
walletVars == <<running, descriptor, gapEnd, mu>>
vars == <<nodeVars, walletVars, pc, index, goal, stored>>

Processes == Requests \cup {Opener}

\* An address stands for what it is derived from.
Addr(d, n) == [descriptor |-> d, index |-> n]
IsStored(a) == \E k \in DOMAIN stored : stored[k] = a

\* Fault: indexes are reserved by the requests that have taken them.
NextIndexReserved ==
  Max({-1} \cup {stored[k].index : k \in DOMAIN stored}
           \cup {index[r] : r \in {q \in Requests : pc[q] # "idle"}}) + 1

\* NextDerivIndex
NextIndex == Max({-1} \cup {stored[k].index : k \in DOMAIN stored}) + 1

\* listdescriptors, as ActiveRangeEnd reads it: the range of whatever is active.  The code
\* takes the greatest of several; here one at most is active, the last one imported.
ActiveRangeEnd == IF active = Nobody \/ watched[active] < 0 THEN 0 ELSE watched[active]

\* What the node refuses with -8.
Refused(d, from, to) == watched[d] >= 0 /\ (from # 0 \/ to < watched[d])

\* Fault (as the code once was): only the new stretch is imported.
ImportFromNewStretch(p) == IF p = Opener THEN 0 ELSE gapEnd

\* Every import starts at 0.
ImportFrom(p) == 0

\* Fault: the range asked for is compared one step short.
CoversNearly(p) == ActiveRangeEnd + Step >= goal[p]

\* cover: is there nothing to import?
Covers(p) == ActiveRangeEnd >= goal[p]

\* The first range end, in steps from the last, that is above index n.
Goal(n) == gapEnd + Step * (1 + (n - gapEnd) \div Step)

-----------------------------------------------------------------------------
Init ==
  /\ active = Nobody /\ watched = [d \in Descriptors |-> -1]
  /\ running = "down" /\ descriptor \in Descriptors /\ gapEnd = 0 /\ mu = Nobody
  /\ pc = [p \in Processes |-> "idle"]
  /\ index = [r \in Requests |-> 0]
  /\ goal = [p \in Processes |-> 0]
  /\ stored = << >>

\* The process starts: Open has created or loaded the wallet, and covers the first
\* range.
Start(d) ==
  /\ running = "down"
  /\ running' = "opening" /\ descriptor' = d /\ gapEnd' = 0 /\ UNCHANGED mu
  /\ pc' = [pc EXCEPT ![Opener] = "read"]
  /\ goal' = [goal EXCEPT ![Opener] = Step]
  /\ UNCHANGED <<nodeVars, index, stored>>

\* A request takes an index.
Allocate(r) ==
  /\ running = "up" /\ pc[r] = "idle"
  /\ NextIndex <= MaxIndex
  /\ index' = [index EXCEPT ![r] = NextIndex]
  /\ pc' = [pc EXCEPT ![r] = "lock"]
  /\ UNCHANGED <<nodeVars, walletVars, goal, stored>>

\* ensureWatched: the index is inside what the wallet knows is watched, or the
\* request goes on to extend that, holding the mutex.
EnsureWatched(r) ==
  /\ pc[r] = "lock" /\ mu = Nobody
  /\ \/ /\ index[r] < gapEnd
        /\ pc' = [pc EXCEPT ![r] = "store"]
        /\ UNCHANGED <<mu, goal>>
     \/ /\ index[r] >= gapEnd
        /\ pc' = [pc EXCEPT ![r] = "read"]
        /\ mu' = r
        /\ goal' = [goal EXCEPT ![r] = Goal(index[r])]
  /\ UNCHANGED <<nodeVars, running, descriptor, gapEnd, index, stored>>

\* Fault: the wallet keeps the lock.
FinishLocked(p, end) ==
  /\ gapEnd' = end
  /\ mu' = p
  /\ running' = "up"
  /\ pc' = [pc EXCEPT ![p] = IF p = Opener THEN "idle" ELSE "store"]
  /\ UNCHANGED descriptor

\* cover is over: the wallet knows that the node watches up to "end".
Finish(p, end) ==
  /\ gapEnd' = end
  /\ mu' = Nobody
  /\ running' = "up"
  /\ pc' = [pc EXCEPT ![p] = IF p = Opener THEN "idle" ELSE "store"]
  /\ UNCHANGED descriptor

\* cover asks the node how far it watches, and may have nothing left to do.
ReadRange(p) ==
  /\ pc[p] = "read"
  /\ \/ Covers(p) /\ Finish(p, ActiveRangeEnd)
     \/ ~Covers(p) /\ pc' = [pc EXCEPT ![p] = "import"] /\ UNCHANGED walletVars
  /\ UNCHANGED <<nodeVars, index, goal, stored>>

\* Fault: what was asked for counts as watched even if the import failed.
GiveUpHopefully(p) ==
  /\ pc' = [pc EXCEPT ![p] = "idle"]
  /\ mu' = IF mu = p THEN Nobody ELSE mu
  /\ running' = IF p = Opener THEN "down" ELSE running
  /\ gapEnd' = IF pc[p] = "import" THEN goal[p] ELSE gapEnd
  /\ UNCHANGED <<descriptor, goal, stored>>

\* The request is answered 500, and a gateway that cannot open its wallet exits.
GiveUp(p) ==
  /\ pc' = [pc EXCEPT ![p] = "idle"]
  /\ mu' = IF mu = p THEN Nobody ELSE mu
  /\ running' = IF p = Opener THEN "down" ELSE running
  /\ UNCHANGED <<descriptor, gapEnd, goal, stored>>

\* A call to the node or the database fails.
Fail(p) ==
  /\ pc[p] # "idle"
  /\ GiveUp(p)
  /\ UNCHANGED <<nodeVars, index>>

\* The node imports the range, and its answer may be lost (which is a failure, too).
Import(p) ==
  /\ pc[p] = "import"
  /\ ~Refused(descriptor, ImportFrom(p), goal[p])
  /\ watched' = [watched EXCEPT ![descriptor] = Max({goal[p], Keypool - 1})]
  /\ active' = descriptor
  /\ \/ pc' = [pc EXCEPT ![p] = "reread"] /\ UNCHANGED <<walletVars, goal, stored>>
     \/ GiveUp(p)
  /\ UNCHANGED index

\* The node refuses the range.
ImportRefused(p) ==
  /\ pc[p] = "import"
  /\ Refused(descriptor, ImportFrom(p), goal[p])
  /\ GiveUp(p)
  /\ UNCHANGED <<nodeVars, index>>

\* cover asks again, since the node may have widened the range, and makes do
\* without an answer.
Reread(p) ==
  /\ pc[p] = "reread"
  /\ \E end \in {goal[p], Max({goal[p], ActiveRangeEnd})} : Finish(p, end)
  /\ UNCHANGED <<nodeVars, index, goal, stored>>

\* Fault: the address column is not unique.
InsertedAnyway(a) == stored' = Append(stored, a)

\* An address is in the table once.
Inserted(a) == stored' = IF IsStored(a) THEN stored ELSE Append(stored, a)

\* The address is derived and the invoice inserted.  If another request took the same
\* index and was faster, the insert fails and the caller is answered 500.
StoreInvoice(r) ==
  /\ pc[r] = "store"
  /\ Inserted(Addr(descriptor, index[r]))
  /\ pc' = [pc EXCEPT ![r] = "idle"]
  /\ UNCHANGED <<nodeVars, walletVars, index, goal>>

\* The process stops.
Crash ==
  /\ running # "down"
  /\ running' = "down"
  /\ mu' = Nobody
  /\ pc' = [p \in Processes |-> "idle"]
  /\ UNCHANGED <<nodeVars, descriptor, gapEnd, index, goal, stored>>

\* Somebody pays an address the node watches: it tops up its keypool.
TopUp ==
  /\ active # Nobody
  /\ \E n \in 0..watched[active] :
       /\ IsStored(Addr(active, n))
       /\ watched[active] < n + Keypool
       /\ watched' = [watched EXCEPT ![active] = n + Keypool]
  /\ UNCHANGED <<active, walletVars, pc, index, goal, stored>>

Next ==
  \/ \E d \in Descriptors : Start(d)
  \/ \E r \in Requests : Allocate(r) \/ EnsureWatched(r) \/ StoreInvoice(r)
  \/ \E p \in Processes : ReadRange(p) \/ Import(p) \/ ImportRefused(p) \/ Reread(p) \/ Fail(p)
  \/ Crash \/ TopUp

Spec == Init /\ [][Next]_vars

\* The gateway is started again whenever it stops, requests keep coming, and none of
\* the calls to the node and the database fails every time it is made.
FairSpec ==
  /\ Spec
  /\ \A d \in Descriptors : WF_vars(Start(d))
  /\ \A r \in Requests : SF_vars(Allocate(r)) /\ SF_vars(EnsureWatched(r)) /\ SF_vars(StoreInvoice(r))
  /\ \A p \in Processes :
       SF_vars(ReadRange(p)) /\ SF_vars(Import(p) \/ ImportRefused(p)) /\ SF_vars(Reread(p))

-----------------------------------------------------------------------------
(* Properties *)

\* Every variable has its shape.
TypeOK ==
  /\ active \in Descriptors \cup {Nobody}
  /\ watched \in [Descriptors -> Int]
  /\ running \in {"down", "opening", "up"}
  /\ descriptor \in Descriptors
  /\ gapEnd \in Nat
  /\ mu \in Requests \cup {Nobody}
  /\ pc \in [Processes -> {"idle", "lock", "read", "import", "reread", "store"}]
  /\ index \in [Requests -> 0..MaxIndex]
  /\ goal \in [Processes -> Nat]
  /\ stored \in Seq([descriptor : Descriptors, index : 0..MaxIndex])

\* An address that was handed out is watched by the node: "an invoice that can be
\* paid and will never be seen" is the worst failure there is (wallet.go:153-155).
HandedOutIsWatched ==
  \A k \in DOMAIN stored : stored[k].index <= watched[stored[k].descriptor]

\* The wallet never believes the node to watch more than it does.
GapEndIsWatched == running = "up" => gapEnd <= watched[descriptor]

\* No address belongs to two invoices, though requests that run at once take the
\* same index.
AddressesDiffer == \A k, l \in DOMAIN stored : stored[k] = stored[l] => k = l

\* Whichever requests fail and whichever win, no index is left out: a wallet that
\* restores from the xpub finds every payment without a gap.
IndexesHaveNoGaps ==
  \A k \in DOMAIN stored : \A n \in 0..stored[k].index :
    \E l \in DOMAIN stored : stored[l].index = n

\* Every index is handed out in the end, beyond the first range and across
\* restarts, however far the node has widened its range meanwhile.
EveryIndexIsHandedOut ==
  \A n \in 0..MaxIndex : <>(\E k \in DOMAIN stored : stored[k].index = n)
=============================================================================
