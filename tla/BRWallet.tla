------------------------------ MODULE BRWallet ------------------------------
(***************************************************************************)
(* The transaction ledger of the wallet core (BRWallet.c): the registered  *)
(* transactions in their insertion-sorted order, the balance, unspent      *)
(* outputs and validity sets that _BRWalletUpdateBalance derives from that *)
(* order, and the two address chains.  The rows that the wallet is loaded  *)
(* from are the application's, in code outside this repository, and its    *)
(* callbacks may leave them as they were: after a restart any rows may     *)
(* come, as long as their heights are those of one chain.                  *)
(*                                                                         *)
(* BRPeerManager makes every mutating call with its own lock held, so at   *)
(* most one such call is in flight; "call" is where it stands.  Between    *)
(* two steps of a call the wallet lock is free (or the process may die).   *)
(***************************************************************************)
EXTENDS Integers, Sequences, FiniteSets, SequencesExt

CONSTANTS
    Txs,            \* transactions (their hashes)
    Inputs,         \* Inputs[t]: the outpoints <<hash, n>> t spends
    Outputs,        \* Outputs[t]: a sequence of [addr, amount]
    Held,           \* unconfirmed ones are pending: replaceable, dust or oversized
    LockHeight,     \* LockHeight[t]: block height lockTime, 0 if none
    MaxHeight,      \* bound: highest block of the chain
    Unconfirmed,    \* TX_UNCONFIRMED (INT32_MAX)
    MaxBatch,       \* bound: transactions confirmed by one call
    GapExternal, GapInternal, GapMargin  \* gap limits, and the filter's extra

None == "none"      \* a NULL transaction pointer
Heights == 1..MaxHeight
Parents(t) == {o[1] : o \in Inputs[t]} \cap Txs

ASSUME HeightAssumption ==
    /\ MaxHeight \in Nat
    /\ Unconfirmed \in Nat
    /\ Unconfirmed > MaxHeight
    /\ MaxBatch \in Nat
ASSUME TxAssumption ==
    /\ None \notin Txs
    /\ Held \subseteq Txs
    /\ LockHeight \in [Txs -> 0..(Unconfirmed - 1)]

\* An output's amount is unsigned; an address is known by its chain (one that is
\* not the wallet's included) and its position.
ASSUME OutputAssumption ==
    \A t \in Txs :
        /\ Outputs[t] \in Seq(Range(Outputs[t]))
        /\ \A n \in DOMAIN Outputs[t] :
              /\ Outputs[t][n].amount \in Nat
              /\ Outputs[t][n].addr[2] \in Nat
ASSUME GapAssumption == GapExternal \in Nat /\ GapInternal \in Nat /\ GapMargin \in Nat

VARIABLES
    allTx,          \* set of hashes known, wallet transactions or not
    transactions,   \* registered transactions, "sorted by date, oldest first"
    height,         \* blockHeight of each transaction
    blockHeight,    \* wallet->blockHeight
    extLen, intLen, \* addresses generated on externalChain and internalChain
    ledger,         \* what the last _BRWalletUpdateBalance left
    call            \* the mutating call in flight

vars == <<allTx, transactions, height, blockHeight, extLen, intLen, ledger, call>>

-----------------------------------------------------------------------------
(* Addresses *)

Addr(chain, k) == <<chain, k>>
AllAddrs(ext, int) == {Addr("ext", k) : k \in 0..(ext - 1)}
                        \cup {Addr("int", k) : k \in 0..(int - 1)}
PaysTo(t) == {Outputs[t][n].addr : n \in DOMAIN Outputs[t]}

\* The addresses following the last used one of the chain, up to the gap
\* limit, are generated; a generated address that is used starts a new gap.
LastUsed(chain, len, used) ==
    Max({0} \cup {k + 1 : k \in {i \in 0..(len - 1) : Addr(chain, i) \in used}})

UnusedAddrs(chain, len, gap, used) ==
    LET end == gap + Max({len} \cup {a[2] + 1 : a \in {b \in used : b[1] = chain}})
    IN  Min({n \in len..end : LastUsed(chain, n, used) + gap <= n})

OwnedOutputs(t, addrs) ==
    {<<t, n>> : n \in {m \in DOMAIN Outputs[t] : Outputs[t][m].addr \in addrs}}

\* An output pays the wallet, or an input spends one of its outputs.
ContainsTx(t, known, addrs) ==
    \/ OwnedOutputs(t, addrs) # {}
    \/ \E p \in Parents(t) \cap known : Inputs[t] \cap OwnedOutputs(p, addrs) # {}

-----------------------------------------------------------------------------
(* The order of wallet->transactions *)

\* Position of a transaction's last generated address on a chain, -1 if none.
TxChainIndex(t, chain, len) ==
    Max({-1} \cup {k \in 0..(len - 1) : Addr(chain, k) \in PaysTo(t)})

\* A chain of spent transactions leads from a to b, or to one above it.
DescendsFrom(a, b, h, known) ==
    LET descends[x \in Txs] ==
            \/ b \in Parents(x)
            \/ /\ x \notin Parents(b)
               /\ \E p \in Parents(x) \cap known :
                     h[p] > h[b] \/ (h[p] = h[b] /\ descends[p])
    IN  descends[a]

\* a is later than b: higher, or at equal heights a descendant.
TxIsAscending(a, b, h, known) ==
    \/ h[a] > h[b]
    \/ h[a] = h[b] /\ DescendsFrom(a, b, h, known)

LaterOnChain(a, b) ==
    LET chain == IF TxChainIndex(a, "int", intLen) # -1 THEN "int" ELSE "ext"
        len == IF chain = "int" THEN intLen ELSE extLen
    IN  /\ TxChainIndex(b, chain, len) # -1
        /\ TxChainIndex(a, chain, len) > TxChainIndex(b, chain, len)

TxCompareAfter(a, b, h, known) ==
    \/ TxIsAscending(a, b, h, known)
    \/ /\ ~TxIsAscending(b, a, h, known)
       /\ LaterOnChain(a, b)

\* Mutant: a transaction is added at the end.
InsertTxLast(list, t, h, known) == Append(list, t)

\* Insertion sort from the end of the list.
InsertTx(list, t, h, known) ==
    LET before == SelectLastInSeq(list, LAMBDA u : ~TxCompareAfter(u, t, h, known))
    IN  InsertAt(list, before + 1, t)

Registered == Range(transactions)

-----------------------------------------------------------------------------
(* _BRWalletUpdateBalance: one pass over the list, in its order *)

EmptyLedger == [balance |-> 0, utxos |-> {}, spent |-> {}, invalid |-> {},
                pending |-> {}, used |-> {}]

Amount(outpoints) ==
    MapThenSumSet(LAMBDA o : Outputs[o[1]][o[2]].amount, outpoints)

IsInvalid(acc, t, h) ==
    /\ h[t] = Unconfirmed
    /\ \/ Inputs[t] \cap acc.spent # {}
       \/ Parents(t) \cap acc.invalid # {}

IsPending(acc, t, h, tip) ==
    /\ h[t] = Unconfirmed
    /\ \/ t \in Held
       \/ LockHeight[t] > tip + 1
       \/ Parents(t) \cap acc.pending # {}

SetInvalid(acc, t) == [acc EXCEPT !.invalid = @ \cup {t}]

\* Mutant: a pending transaction does not reserve the outputs it spends.
SetPendingFree(acc, t) == [acc EXCEPT !.pending = @ \cup {t}]

SetPending(acc, t) ==
    [acc EXCEPT !.spent = @ \cup Inputs[t], !.pending = @ \cup {t}]

\* Mutant: only the outputs the transaction spends itself leave the unspent.
CreditOwnInputs(acc, t, addrs) ==
    LET have == acc.utxos \cup OwnedOutputs(t, addrs)
    IN  [acc EXCEPT !.spent = @ \cup Inputs[t],
                    !.used = @ \cup PaysTo(t),
                    !.utxos = have \ Inputs[t],
                    !.balance = @ + Amount(OwnedOutputs(t, addrs))
                                  - Amount(have \cap Inputs[t])]

\* "transaction ordering is not guaranteed": the whole unspent set is checked
\* against the whole spent set.
Credit(acc, t, addrs) ==
    LET spent == acc.spent \cup Inputs[t]
        have == acc.utxos \cup OwnedOutputs(t, addrs)
    IN  [acc EXCEPT !.spent = spent,
                    !.used = @ \cup PaysTo(t),
                    !.utxos = have \ spent,
                    !.balance = @ + Amount(OwnedOutputs(t, addrs)) - Amount(have \cap spent)]

Account(acc, t, h, tip, addrs) ==
    IF IsInvalid(acc, t, h) THEN SetInvalid(acc, t)
    ELSE IF IsPending(acc, t, h, tip) THEN SetPending(acc, t)
    ELSE Credit(acc, t, addrs)

UpdateBalance(list, h, tip, addrs) ==
    FoldLeft(LAMBDA acc, t : Account(acc, t, h, tip, addrs), EmptyLedger, list)

-----------------------------------------------------------------------------
(* Calls *)

Idle == [op |-> "idle"]
NoDangling == Registered \subseteq allTx

\* Freed memory in the list makes every later pass undefined: the process is
\* taken to do nothing more until it is restarted.
Calling(op) == call.op = op /\ NoDangling

\* Mutant: the height of a new transaction is left zero.
NewObjectZero(t) == [height EXCEPT ![t] = 0]

NewObject(t) == [height EXCEPT ![t] = Unconfirmed]

Init ==
    /\ allTx = {}
    /\ transactions = <<>>
    /\ height = [t \in Txs |-> Unconfirmed]
    /\ blockHeight = 0
    /\ extLen = 0 /\ intLen = 0
    /\ ledger = EmptyLedger
    /\ call = [op |-> "load", first |-> None]

-----------------------------------------------------------------------------
(* Heights that come from one chain, as peers report them and as the rows  *)
(* have them: no two confirmed transactions spend one output, and none is  *)
(* below a transaction it spends.                                          *)

OneChain(h) ==
    \A t, u \in {x \in Txs : h[x] # Unconfirmed} : t # u =>
        /\ Inputs[t] \cap Inputs[u] = {}
        /\ t \in Parents(u) => h[t] <= h[u]

-----------------------------------------------------------------------------
(* BRWalletNew: any rows, in any order; "first" is the first of them *)

LoadTx(t, h) ==
    /\ Calling("load")
    /\ t \notin allTx
    /\ height' = [height EXCEPT ![t] = h]
    /\ OneChain(height')
    /\ allTx' = allTx \cup {t}
    /\ transactions' = InsertTx(transactions, t, height', allTx')
    /\ ledger' = [ledger EXCEPT !.used = @ \cup PaysTo(t)]
    /\ call' = [call EXCEPT !.first = IF @ = None THEN t ELSE @]
    /\ UNCHANGED <<blockHeight, extLen, intLen>>

\* Only the first row is checked against the master public key.
FinishLoad ==
    /\ Calling("load")
    /\ extLen' = UnusedAddrs("ext", extLen, GapExternal, ledger.used)
    /\ intLen' = UnusedAddrs("int", intLen, GapInternal, ledger.used)
    /\ LET addrs == AllAddrs(extLen', intLen')
       IN  /\ ledger' = UpdateBalance(transactions, height, blockHeight, addrs)
           /\ call' = IF call.first = None \/ ContainsTx(call.first, allTx, addrs)
                      THEN Idle ELSE [op |-> "failed"]
    /\ UNCHANGED <<allTx, transactions, height, blockHeight>>

-----------------------------------------------------------------------------
(* BRWalletRegisterTransaction *)

\* A wallet transaction is inserted.
RegisterWalletTx(t) ==
    /\ Calling("idle")
    /\ t \notin allTx
    /\ ContainsTx(t, allTx, AllAddrs(extLen, intLen))
    /\ allTx' = allTx \cup {t}
    /\ transactions' = InsertTx(transactions, t, height, allTx')
    /\ ledger' = UpdateBalance(transactions', height, blockHeight, AllAddrs(extLen, intLen))
    /\ call' = [op |-> "added"]
    /\ UNCHANGED <<height, blockHeight, extLen, intLen>>

\* Another unconfirmed transaction is only remembered.
RegisterOtherTx(t) ==
    /\ Calling("idle")
    /\ t \notin allTx
    /\ ~ContainsTx(t, allTx, AllAddrs(extLen, intLen))
    /\ allTx' = allTx \cup {t}
    /\ UNCHANGED <<transactions, height, blockHeight, extLen, intLen, ledger, call>>

\* After the unlock new addresses replace the used ones.
ReplaceUsedAddrs ==
    /\ Calling("added")
    /\ extLen' = UnusedAddrs("ext", extLen, GapExternal, ledger.used)
    /\ intLen' = UnusedAddrs("int", intLen, GapInternal, ledger.used)
    /\ call' = Idle
    /\ UNCHANGED <<allTx, transactions, height, blockHeight, ledger>>

-----------------------------------------------------------------------------
(* BRWalletRemoveTransaction, its recursion as the stack call.work *)

\* BRPeerManager removes registered unconfirmed transactions no peer has.
RemoveTransaction(t) ==
    /\ Calling("idle")
    /\ t \in Registered
    /\ height[t] = Unconfirmed
    /\ call' = [op |-> "remove", work |-> <<t>>]
    /\ UNCHANGED <<allTx, transactions, height, blockHeight, extLen, intLen, ledger>>

\* Mutant: the scan stops at an equal height too.
DependentsAbove(t) ==
    LET last == SelectLastInSeq(transactions, LAMBDA u : u # t /\ height[u] <= height[t])
    IN  SelectSeq(SubSeq(transactions, last + 1, Len(transactions)),
                  LAMBDA u : u # t /\ t \in Parents(u))

\* The scan from the end stops at the first lower height.
Dependents(t) ==
    LET lower == SelectLastInSeq(transactions, LAMBDA u : height[u] < height[t])
        late == SubSeq(transactions, lower + 1, Len(transactions))
    IN  FoldLeft(LAMBDA found, u : IF u # t /\ t \in Parents(u) THEN Append(found, u) ELSE found,
                 <<>>, late)

Return(work) == IF work = <<>> THEN Idle ELSE [op |-> "remove", work |-> work]

RemoveGone ==
    /\ Calling("remove")
    /\ Head(call.work) \notin allTx
    /\ call' = Return(Tail(call.work))
    /\ UNCHANGED <<allTx, transactions, height, blockHeight, extLen, intLen, ledger>>

RemoveDependents ==
    /\ Calling("remove")
    /\ Head(call.work) \in allTx
    /\ Dependents(Head(call.work)) # <<>>
    /\ call' = [op |-> "remove", work |-> Dependents(Head(call.work)) \o call.work]
    /\ UNCHANGED <<allTx, transactions, height, blockHeight, extLen, intLen, ledger>>

RemoveAndFree ==
    /\ Calling("remove")
    /\ LET t == Head(call.work) IN
       /\ t \in allTx
       /\ Dependents(t) = <<>>
       /\ allTx' = allTx \ {t}
       /\ transactions' = RemoveFirst(transactions, t)
       /\ ledger' = UpdateBalance(transactions', height, blockHeight, AllAddrs(extLen, intLen))
       /\ height' = NewObject(t)
    /\ call' = Return(Tail(call.work))
    /\ UNCHANGED <<blockHeight, extLen, intLen>>

-----------------------------------------------------------------------------
(* BRWalletUpdateTransactions: the wallet lock is held from its first step *)
(* to UpdateDone *)

UpdateTransactions(batch, h) ==
    /\ Calling("idle")
    /\ blockHeight' = Max({blockHeight, h})
    /\ call' = [op |-> "update", todo |-> batch, height |-> h, stale |-> FALSE]
    /\ UNCHANGED <<allTx, transactions, height, extLen, intLen, ledger>>

NextHash == Head(call.todo)

\* Unknown, or nothing changes.
UpdateSkip ==
    /\ Calling("update")
    /\ call.todo # <<>>
    /\ NextHash \notin allTx \/ height[NextHash] = call.height
    /\ call' = [call EXCEPT !.todo = Tail(@)]
    /\ UNCHANGED <<allTx, transactions, height, blockHeight, extLen, intLen, ledger>>

\* Height or only timestamp changes: the transaction is inserted again.
UpdateWalletTx ==
    /\ Calling("update")
    /\ call.todo # <<>>
    /\ NextHash \in allTx
    /\ ContainsTx(NextHash, allTx, AllAddrs(extLen, intLen))
    /\ height' = [height EXCEPT ![NextHash] = call.height]
    /\ transactions' = IF NextHash \in Registered
                       THEN InsertTx(RemoveFirst(transactions, NextHash), NextHash,
                                     height', allTx)
                       ELSE transactions
    /\ call' = [call EXCEPT !.todo = Tail(@),
                  !.stale = @ \/ NextHash \in ledger.pending \cup ledger.invalid]
    /\ UNCHANGED <<allTx, blockHeight, extLen, intLen, ledger>>

\* "remove and free confirmed non-wallet tx"
UpdateOtherTx ==
    /\ Calling("update")
    /\ call.todo # <<>>
    /\ NextHash \in allTx
    /\ ~ContainsTx(NextHash, allTx, AllAddrs(extLen, intLen))
    /\ allTx' = IF call.height # Unconfirmed THEN allTx \ {NextHash} ELSE allTx
    /\ height' = NewObject(NextHash)
    /\ call' = [call EXCEPT !.todo = Tail(@)]
    /\ UNCHANGED <<transactions, blockHeight, extLen, intLen, ledger>>

\* Mutant: the ledger is never computed again.
UpdateDoneKeep ==
    /\ Calling("update")
    /\ call.todo = <<>>
    /\ call' = Idle
    /\ UNCHANGED <<allTx, transactions, height, blockHeight, extLen, intLen, ledger>>

UpdateDone ==
    /\ Calling("update")
    /\ call.todo = <<>>
    /\ ledger' = IF call.stale
                 THEN UpdateBalance(transactions, height, blockHeight, AllAddrs(extLen, intLen))
                 ELSE ledger
    /\ call' = Idle
    /\ UNCHANGED <<allTx, transactions, height, blockHeight, extLen, intLen>>

-----------------------------------------------------------------------------
(* BRWalletSetTxUnconfirmedAfter: a chain reorganisation joins at height h *)

\* Mutant: off by one.
RegisteredFrom(h) ==
    LET kept == SelectLastInSeq(transactions, LAMBDA u : height[u] <= h + 1)
    IN  {transactions[i] : i \in (kept + 1)..Len(transactions)}

\* The scan from the end stops at the first transaction to keep.
RegisteredAfter(h) ==
    LET kept == SelectLastInSeq(transactions, LAMBDA u : height[u] <= h)
    IN  {transactions[i] : i \in (kept + 1)..Len(transactions)}

SetTxUnconfirmedAfter(h) ==
    /\ Calling("idle")
    /\ blockHeight' = h
    /\ LET after == RegisteredAfter(h)
       IN  /\ height' = [t \in Txs |-> IF t \in after THEN Unconfirmed ELSE height[t]]
           /\ ledger' = IF after # {}
                        THEN UpdateBalance(transactions, height', h, AllAddrs(extLen, intLen))
                        ELSE ledger
    /\ UNCHANGED <<allTx, transactions, extLen, intLen, call>>

-----------------------------------------------------------------------------
(* Address generation by other threads, and the end of the process *)

\* BRWalletReceiveAddress may come whenever the wallet lock is free.
ReceiveAddress ==
    /\ call.op \notin {"load", "failed", "update"}
    /\ NoDangling
    /\ extLen' = UnusedAddrs("ext", extLen, 1, ledger.used)
    /\ extLen' # extLen
    /\ UNCHANGED <<allTx, transactions, height, blockHeight, intLen, ledger, call>>

\* The addresses BRPeerManager puts in a bloom filter.
FilterAddrs ==
    /\ Calling("idle")
    /\ extLen' = UnusedAddrs("ext", extLen, GapExternal + GapMargin, ledger.used)
    /\ intLen' = UnusedAddrs("int", intLen, GapInternal + GapMargin, ledger.used)
    /\ UNCHANGED <<allTx, transactions, height, blockHeight, ledger, call>>

\* The process ends at any point and the application starts the wallet again.
Restart ==
    /\ allTx' = {}
    /\ transactions' = <<>>
    /\ height' = [t \in Txs |-> Unconfirmed]
    /\ blockHeight' = 0
    /\ extLen' = 0 /\ intLen' = 0
    /\ ledger' = EmptyLedger
    /\ call' = [op |-> "load", first |-> None]

-----------------------------------------------------------------------------
(* What the peers report *)

\* A block's matched transactions, each after those it spends.
Batches ==
    {s \in UNION {[1..n -> Txs] : n \in 1..MaxBatch} :
        \A i, j \in DOMAIN s : i < j => s[i] # s[j] /\ s[j] \notin Parents(s[i])}

BlockConfirms ==
    \E s \in Batches, h \in Heights :
        /\ OneChain([t \in Txs |-> IF t \in Range(s) THEN h ELSE height[t]])
        /\ UpdateTransactions(s, h)

\* A verified or rejected transaction gets a new timestamp, height unchanged.
PeersVerify ==
    \E t \in allTx : height[t] = Unconfirmed /\ UpdateTransactions(<<t>>, Unconfirmed)

\* Steps of the call in flight.
Progress ==
    \/ \E t \in Txs, h \in Heights \cup {Unconfirmed} : LoadTx(t, h)
    \/ FinishLoad
    \/ ReplaceUsedAddrs
    \/ RemoveGone \/ RemoveDependents \/ RemoveAndFree
    \/ UpdateSkip \/ UpdateWalletTx \/ UpdateOtherTx \/ UpdateDone

Next ==
    \/ Progress
    \/ \E t \in Txs : RegisterWalletTx(t)
    \/ \E t \in Txs : RegisterOtherTx(t)
    \/ \E t \in Txs : RemoveTransaction(t)
    \/ BlockConfirms
    \/ PeersVerify
    \/ \E h \in 0..MaxHeight : SetTxUnconfirmedAfter(h)
    \/ ReceiveAddress
    \/ FilterAddrs
    \/ Restart

Spec == Init /\ [][Next]_vars

-----------------------------------------------------------------------------
(* Properties *)

Amounts == Nat
Calls ==
    [op : {"idle", "failed", "added"}]
    \cup [op : {"load"}, first : Txs \cup {None}]
    \cup [op : {"remove"}, work : Seq(Txs)]
    \cup [op : {"update"}, todo : Seq(Txs), height : Heights \cup {Unconfirmed},
          stale : BOOLEAN]

\* Every variable keeps its shape; the unsigned balance never goes below zero.
TypeOK ==
    /\ allTx \subseteq Txs
    /\ transactions \in Seq(Txs)
    /\ height \in [Txs -> Heights \cup {Unconfirmed}]
    /\ blockHeight \in Heights \cup {0, Unconfirmed}
    /\ extLen \in Nat /\ intLen \in Nat
    /\ ledger.balance \in Nat
    /\ call \in Calls

\* No call is half way through the list or the ledger.
Settled == NoDangling /\ call.op \notin {"load", "failed", "update"}

\* wallet->transactions holds a transaction once and stays sorted by block
\* height through every insertion, removal, update and reorganisation: the
\* early exits of BRWalletTxUnconfirmedBefore, BRWalletRemoveTransaction and
\* BRWalletSetTxUnconfirmedAfter rely on it.
HeightSorted(list, h) ==
    \A i, j \in 1..Len(list) : i < j => h[list[i]] <= h[list[j]]
Once(list) == \A i, j \in 1..Len(list) : i # j => list[i] # list[j]
ListOrdered == NoDangling => HeightSorted(transactions, height) /\ Once(transactions)

\* Of the registered transactions that spend one output at most one counts as
\* valid, whatever order they came in and whichever of them confirmed.
Valid == Registered \ ledger.invalid
NoConflict ==
    Settled => \A t, u \in Valid : t # u => Inputs[t] \cap Inputs[u] = {}

\* A transaction is reported invalid only while a valid one conflicts with it
\* or one it spends is invalid itself: removals, confirmations and
\* reorganisations leave no transaction invalid without a cause.
InvalidHasCause ==
    Settled => \A t \in ledger.invalid :
        /\ height[t] = Unconfirmed
        /\ \/ \E u \in Valid : u # t /\ Inputs[t] \cap Inputs[u] # {}
           \/ Parents(t) \cap ledger.invalid # {}

\* The balance is the sum of the unspent outputs; each belongs to a registered
\* transaction that is neither invalid nor pending, and no such transaction
\* spends it, also after updates that do not recompute the ledger.
BalanceIsUnspent ==
    Settled =>
        /\ ledger.balance = Amount(ledger.utxos)
        /\ \A o \in ledger.utxos : o[1] \in Valid \ ledger.pending
        /\ \A t \in Valid \ ledger.pending : Inputs[t] \cap ledger.utxos = {}

\* A removal frees the transactions of the wallet that spend an output of the
\* one to remove before that one: none that is unconfirmed is left to depend on
\* freed outputs, although the scan stops early and the wallet is unlocked at
\* every level of the recursion (BRWallet.c:772, 782-788).
DependentsFirst ==
    [][RemoveAndFree =>
         \A u \in Registered' : Head(call.work) \in Parents(u) => height[u] # Unconfirmed]_vars

\* "removes a tx from the wallet [...] along with any tx that depend on its
\* outputs" (BRWallet.c:755).  The code does not keep this: the scan stops at
\* the first lower height, so a dependent that is confirmed stays.
DependentsRemoved ==
    [][RemoveAndFree => \A u \in Registered' : Head(call.work) \notin Parents(u)]_vars

\* After a reorganisation no registered transaction is above the join point.
UnconfirmedAfter ==
    [][\A h \in 0..MaxHeight : SetTxUnconfirmedAfter(h) =>
         \A t \in Registered' : height'[t] <= h \/ height'[t] = Unconfirmed]_vars

=============================================================================
