# DigiID: models and proofs

DigiID is an Android app that identifies its user to web sites by a signature
under a key derived from a seed phrase. It contains two programs:

* the app (`src/app/src/main/java/com/noahseidman/digiid`, Kotlin and Java): the
  identity, its backups, the login prompt, a password helper;
* a light wallet client in C (`src/app/src/main/jni`): the breadwallet core for
  DigiByte (transactions, block chain, peers) and the JNI code of
  `transition/` that stores its data. It is built into the app's library; the
  app's own Java declares only the natives for keys and seeds
  (`com/jniwrappers/BRBIP32Sequence.java`, `models/KeyModel.java`), so the
  wallet and peer code is library code here, with the callers that
  `transition/` shows.

The repository's tests are the Android template tests and the core's `test.c`,
which calls the core from one thread. What they hardly reach is what these
modules are about: orders of calls, overlapping threads and callbacks, crashes
between a change and its row, forks and reorganisations.

## Inventory

Core paths are below `src/app/src/main/jni/digibytewallet-core`, app paths below
`src/app/src/main/java/com/noahseidman/digiid`.

| component | state | operations | works with | hard part | correct when |
|---|---|---|---|---|---|
| wallet ledger, `BRWallet.c` | `allTx`, sorted `transactions`, balance, `utxos`, spent/invalid/pending sets, two address chains, `blockHeight` | new, register, remove, update heights, unconfirm after a height, generate addresses, create and sign | called by the peer manager under its lock and by the app's threads; calls back `txAdded`, `txUpdated`, `txDeleted` without its lock | derived sets depend on the list order; recursion that drops the lock; reloads | list sorted, no two valid conflicting transactions, balance is the unspent outputs, dependents are removed first |
| wallet rows, `transition/wallet.c` | the transactions to load | load at start; hand rows to Java on insert, update, delete | callbacks of the ledger; a Java class that is not in the repository | a callback that comes late or does nothing | the ledger is right whatever rows it is loaded from |
| block tree, `BRPeerManager.c` 1131-1446, 1586-1673, 1839-1880 | `blocks`, `orphans`, `checkpoints`, `lastBlock`, `estimatedHeight`, `bloomFilter` | relayed block (extend, replace, fork, reorganise, orphan), clear memory, load, save, rescan | peers' threads call it, it sets heights in the wallet, saves rows without the lock | orphans and forks in any order; two threads; freed memory; rescan | tip is the highest stored block, heights follow the chain to the tip, walks back find their blocks, sync ends |
| block rows, `transition/PeerManager.c` | saved blocks | replace, load | block tree | pointers used after the unlock | a start from any rows that are left is right |
| relay and publishing, `BRPeerManager.c` 228-245, 465-580, 956-1126, 1448-1557, 1987-2044 | `publishedTx`, `txRelays`, `txRequests` | publish, relayed, has, rejected, requested, mempool done | wallet, peers | answers after a timeout, transactions freed while listed | one callback for a publication, only transactions no peer has are removed |
| peer pool, `BRPeerManager.c` 710-924, 1738-1880 | `peers`, `connectedPeers`, `downloadPeer`, `connectFailureCount`, `syncStartHeight` | connect, connected, disconnected, disconnect, sync stopped | peers' threads | races of connect and disconnect, end of a sync | a started sync is stopped once, disconnect returns |
| peer, `BRPeer.c` | status, socket, known hashes, current block, pong and mempool callbacks, times | connect, thread, accept each message, send, disconnect | network, pool | message in the middle of a merkleblock, time limits, sockets closed twice | each callback once, a block only when complete |
| hash set, `BRSet.c` | table, count | add, remove, get, clear, union, minus, intersect | all of the core | removal in open addressing, growing | a set; each probe ends |
| transactions, blocks, filters, addresses, keys, payments | none | pure functions and encodings | all | lengths, widths | inverse of each other |
| identity, `models/MainActivityDataModel.kt`, `utils/FireBaseUtils.kt`, `utils/SeedUtil.kt`, `MainActivity.kt`, `PhraseRestore.kt`, `PasswordViewService.java` | seed of a model object, cached advertising id, preference | populate, save, restore, backup, enter phrase | background executor, main thread, cryptography threads, preferences | id unavailable or reset, overlapping populates, crash before the write | the stored identity stays until the user changes it |
| cloud backup, `utils/FireBaseUtils.kt` | one document for an id | save, restore | identity | the write is not awaited | what was saved is restored |
| login, `utils/DigiID.java`, `utils/BiometricHelper.java`, `BiometricActivity.kt` | prompt, time of the last authorisation | prompt, authenticate, sign, post | identity, site | several answers of one prompt, a login before the identity is loaded | only an authorised request is signed, once |
| password helper, `PasswordViewService.java`, `Accessibility.kt`, `utils/DigiPassword.kt` | window, focused field | show, authorise, fill | login | statics that any instance resets | the field of the authorised site is filled |

Modelled are the hash set and, each in part, the ledger and the block tree with
their rows, the relay and publishing, the peer pool, the peer and the identity.
The others are not; "Not modelled" says why. `PROJECT.json` lists the components with what is
left out of each, and the hazards with the lines where they bite.

How the core's parts interact: each peer has a thread, which reads messages and
calls back into the manager; the manager takes its lock there, calls the wallet
under it, and makes requests of any peer (also of one whose thread is reading);
the application's threads call the manager and the peers' callbacks reach the
application after the unlock. `BRPeer` has the inside of one thread and the calls
of the others; `BRPeerPool`, `BRTxRelay` and `BRChain` each have the manager's
critical sections as actions, and of the other parts what these can tell apart.

## Modules

| module | models |
|---|---|
| `BRWallet` | the ledger, the address chains |
| `BRChain` | the block tree, the rows of `transition/PeerManager.c` |
| `BRPeer` | one connection, from the socket to the end of its thread |
| `Requests` | what a connection promises of completion callbacks; `BRPeer` implements it |
| `BRPeerPool` | the connected peers, the download peer, failures, the end of a sync |
| `BRTxRelay` | published and relayed transactions, time limits, who frees what |
| `BRSet` | the hash tables |
| `ItemSet` | the sets that `BRSet.h` promises; `BRSet` implements it |
| `SeedStore` | the app's identity |
| `MCBRWallet`, `MCBRChain`, `MCBRPeer`, `MCBRPeerPool`, `MCBRTxRelay`, `MCBRSet`, `MCSeedStore` | values for the constants of the runs |
| `ListLemmas` | facts about `SelectLastInSeq`, `InsertAt`, `RemoveFirst`, `SubSeq` on lists; induction over prefixes and finite sets; what `FoldLeft` and sums over sets compute |
| `BRWalletProofs`, `BRChainProofs`, `BRPeerProofs`, `BRPeerPoolProofs`, `BRTxRelayProofs`, `BRSetProofs`, `SeedStoreProofs` | theorems |

Definitions named in a comment "Mutant:" are used by no behaviour: each is a
plausible bug that some property catches.

### BRWallet

`transactions`, `allTx`, `blockHeight` are the fields of `BRWallet`; `height[t]`
is `tx->blockHeight`; `extLen` and `intLen` are the lengths of the two address
chains; `ledger` is all that `_BRWalletUpdateBalance` derives in one pass
(`UpdateBalance`, a fold of `Account` over the list).
`call` is the mutating call in flight and stands for its thread's position:
`BRPeerManager` holds its own lock around each of them, so there is at most one,
but between its steps the wallet's lock is free, other threads generate
addresses, and the process may die.

| action | code |
|---|---|
| `LoadTx`, `FinishLoad` | `BRWalletNew` with any rows in any order |
| `RegisterWalletTx`, `RegisterOtherTx`, `ReplaceUsedAddrs` | `BRWalletRegisterTransaction`; the new addresses are generated after an unlock |
| `RemoveTransaction`, `RemoveGone`, `RemoveDependents`, `RemoveAndFree` | `BRWalletRemoveTransaction`, its recursion as a stack |
| `UpdateTransactions`, `UpdateSkip`, `UpdateWalletTx`, `UpdateOtherTx`, `UpdateDone` | `BRWalletUpdateTransactions` |
| `SetTxUnconfirmedAfter` | the same function of the code |
| `ReceiveAddress`, `FilterAddrs` | `BRWalletUnusedAddrs` as its callers use it |
| `Restart` | the process ends, `createWallet` loads rows |

The rows are external. The callbacks `txAdded`, `txUpdated` and `txDeleted` call
the Java class `io/digibyte/wallet/MainActivity`, which the repository does not
contain, and return without a call when the wallet, the VM or the class is missing
(`transition/wallet.c:107-111, 152-156, 173-177`). So a load may get any rows, in
any order, with any heights that one chain can have (`OneChain`): transactions that
the wallet had may be missing and others come, or come at older heights. What
holds after a load does not depend on who wrote the rows, or whether.

The order of the list is the code's: `TxCompareAfter` compares heights, then
ancestry through unconfirmed parents, then the last generated address of either
chain, which is not transitive; `InsertTx` is the insertion sort from the end.

Left out: creating and signing transactions, fees, totals and `balanceHist`, the
callbacks,
timestamps (a second update at the same height counts as a new timestamp).
Replace-by-fee, dust and size are one set `Held`. When a freed transaction is
still in the list (`NoDangling` is false) the C program's behaviour is undefined;
the model stops there until a restart. `OneChain` restricts what blocks confirm:
peers report one chain, so no two confirmed transactions spend one output.

### BRChain

`blocks` is `manager->blocks`; `bare` those of them that are checkpoint objects,
whose `prevBlock` is zero, so that walks back end there; `orphans` is keyed by
`prevBlock` as in the code, one for each; `thread[p]` is what peer `p`'s thread
still has in hand after the unlock: the orphan that it handles next, the blocks
that it gives `saveBlocks`, and those of them that another thread has freed
meanwhile (`stale`). `freed` are checkpoints that were freed while
`manager->checkpoints` has them: comparing with one may give any result
(`MayVerify`, `MayReject`). `broken` records a use of a missing or of a freed
block; the process does nothing more then.

Each branch of `_peerRelayedBlock` is an action: `Ignore`, `AddOrphan`, `Extend`
(with clearing of memory and rows), `Replace`, `AddAhead`, `AddFork`,
`Reorganise`. `SaveBlocks` replaces all rows by the blocks in hand, also by those
that were freed: of such a block the memory may still hold what it was, or the row
is garbled and no block at the next start, or the program ends (`broken = "freed"`).
That a garbled row happens to be another block with the right hash is left out.
`PeerConnected`, `UpdateFilter`, `Rescan` and
`Restart` are the others. The heights of the wallet's transactions are set as the
code sets them, block by block, and unconfirmed above the join.

Left out: difficulty, the false positive rate, misbehaviour, `startSyncFrom`,
headers newer than the wallet, `lastOrphan` (it only chooses a request).
`Walk` stands for the 800 blocks that are kept behind the tip, `Trigger` for the
5000 that start the clearing: the runs scale them down, with forks no deeper than
what is kept. The wallet's heights survive a restart.

### BRPeer and Requests

`thread` is where the peer's thread stands: opening a socket (IPv6, then IPv4),
reading messages, in the three statements that turn a mempool request which took
too long, or was answered, into a ping (`MempoolPing`, `MempoolCallbackNull`,
`MempoolTimeMax`, which no lock protects), or in the statements after its loop (`LoopEnds`,
`CloseSocket`, `SetDisconnected`, `DrainPong`, `DrainMempool`, `Disconnected`).
Between any two of them other threads call `SendPing`, `SendMempool`,
`SendFilterload`, `SetNeedsFilterUpdate`, `RerequestBlocks`, `SendInv`,
`SendGetdata` and `Disconnect`. The node sends any message at any time: `AcceptVersion`,
`AcceptVerack`, `AcceptInv`, `AcceptTx`, `AcceptMerkleblock`, `AcceptPong`;
`Incomplete` is the message that interrupts a merkleblock, `Answer` all those
that only make the peer reply. A completion callback may make the next request
before it returns (`_loadBloomFilterDone`).

`Requests` has only a phase, the callbacks that wait and how often each was
called. The mapping takes as waiting what was given and not called, but for what
came when the thread had stopped looking (`late`). The code can give a callback
then, until `_peerDisconnected` takes the peer off the manager's list; such a
callback is never called, which the module has and the promise excepts.

Left out: headers, addresses, checksums and framing, fee filters, ping times and
relay counts; `sentGetblocks`, which `AcceptInv` would read and nothing sets.
`announced`, `collected`, `given` and `late` are histories.
`Matched` gives a merkleblock's transactions; transactions in the `Mempool` set
are those which are announced or published and so get into `knownTxHashSet`.

### BRPeerPool

`peer[p]` is where the connection to `p` stands, from the entry in
`connectedPeers` to `_peerDisconnected`. `BRPeerManagerConnect` lets go of its
lock twice; a call of it is in a stage of `Stages`, and as the calls of the
peers' threads are alike, `threads` counts them. `requested`, `pings` and
`sentMempool` are the callbacks under way that may end a sync. The chain is only
its height.

| action | code |
|---|---|
| `ConnectAgain`, `ConnectStarted`, `AddPeers`, `AppConnect` | `BRPeerManagerConnect` and `_BRPeerManagerFindPeers`, by a thread that reconnects or by the application |
| `Handshake`, `Unsuitable`, `StickWithDownloadPeer`, `SelectDownloadPeer` | `_peerConnected` |
| `RelayedBlock`, `FilterLoaded`, `MempoolDone`, `PongCanceled`, `MempoolCanceled` | the download and its end |
| `SocketOpens`, `Fails`, `EndsClosed`, `Disconnected` | the thread's end and `_peerDisconnected` |
| `AppDisconnect`, `DisconnectReturns`, `NetworkChanges` | `BRPeerManagerDisconnect`, `networkIsReachable` |

Left out: filter updates, the rescan, misbehaviour, forks (in `BRChain`), the
list of known addresses and its dates (a lookup finds enough nodes or is the
mishap "lookup"), the fixed peer, the count of DNS threads.

### BRTxRelay

`publishedTx[t]` and `callback[t]` are an entry of `publishedTx`, `wallet[t]` the
object that the wallet has registered. An object is the publication that brought
it (`BRTransactionFree` on it is counted in `frees`), or `Copy`: one that a peer
relayed or that was stored. `Gone` is a pointer to freed memory; a step that would
look into it is not taken, as the code's behaviour is undefined there. `timed` are
the peers whose `disconnectTime` is set, by a sync or a publication alike, as in
the code. `pongs[p]` are the pings whose pongs `p` owes, by the function that
waits for them; the filter's ping and the mempool request that follows it are one
(`loading`). `told` and `forsaken` are histories: the peers that got a time limit
for a publication, and the publications that lost such a peer without an answer.

| action | code |
|---|---|
| `Publish`, `PublishChecks`, `PublishRefused` | `BRPeerManagerPublishTx`, which lets go of the lock to ask for the network |
| `RelayedTx`, `HasTx`, `RequestedTx`, `RequestedInvalid`, `Disowned`, `OtherTx` | the peer's callbacks about a transaction |
| `RelayedBlock` | a block with transactions, or the end of a download |
| `Reorganise` | a longer fork: the wallet's heights change, the list is not told |
| `StickWithDownloadPeer`, `SelectDownloadPeer`, `Connects`, `SyncStarts`, `NoPeers` | what connections do to publications |
| `Ends`, `Disconnected` | a time limit or another end of the thread; `_peerDisconnected` |
| `MempoolDone`, `MempoolRefused`, `LoadLost`, `InvDone`, `DataDone` | the functions that wait for pongs; `DataDone` removes what no peer has |

Open, that is chosen freely in each step: whether a transaction is valid and
spends from the wallet, which peer has more blocks, whether the filter matches too
much. When a better peer becomes the download peer the manager closes the socket
of the one before it (`closed`, `BRPeerManager.c:809`), and its thread then ends.
Left out: verified timestamps, misbehaviour after a reject, fees, filter updates,
the other reasons for which the manager disconnects a peer (`Ends` may be taken for
any).

### BRSet and ItemSet

`set[s]` has the `table` and the `itemCount` of a set; `result` is what the last
operation returned. `BRSetAdd`, `BRSetRemove`, `BRSetGet`, `BRSetClear`,
`BRSetUnion`, `BRSetMinus` and `BRSetIntersect` are the functions of these names,
each one step, as the manager and the wallet call them under their locks. They
are built as in the code: a removal empties the bucket, then takes out each item
of the run behind it and adds it again (`Removed`, `Run`, `AddedAgain`); a table
over its limit is built anew in the next size (`Grown`). An item is a pointer, and
two pointers may be equal (`Key`), which is how an object is replaced by another.

`ItemSet` has the members and no tables. The mapping forgets the buckets.

Left out: a set combined with itself, which no caller does; an allocation that
fails; the functions that only read (`BRSetIterate`, `BRSetAll`, `BRSetApply`,
`BRSetIntersects`).

### SeedStore

A call of `updateAdId` goes through `persister` (the single executor) and
`posted` (the main thread), or runs at once when the id is cached; then it is a
job of the cryptography threads, which answer in any order. `stored` is the
preference in memory, `disk` what `apply()` has written. A text is a pair of seed
and key: decrypting with another key fails, and so may decrypting with the right
one (`DecryptionError`, which ends in the same `onFailure`; it is counted with the
user's changes). The service of the password helper populates a model object of
its own (`CreateService`), at any moment and beside all other calls. `FetchIdFails` and `NotEncrypted` may
happen at any time, `Restart` between any two steps.

External and modelled from their use: the advertising id (`ResetId`) and the
preferences (`Flush`). `RandomSeed` draws a seed that occurs nowhere. A process
that only the service runs in, before any activity, is not modelled. A Google
backup is only one more text that a restore may get; its document is planned.

## Runs

| run | question | answer |
|---|---|---|
| `BRWallet` | order, conflicts, causes of invalidity, balance, removals, reorganisations, with any reloads | hold, 186 000 states |
| `BRWalletRemoved` | does a removal take along all that depends on the transaction (`BRWallet.c:755`) | no |
| `BRChain` | heights, tip, orphans, walks into the memory that is kept, with two peers, forks, checkpoints, freed blocks in rows and a restart | hold, 442 000 states |
| `BRChainSync` | is the chain reached, with a rescan, cleared memory and two last blocks | yes, 1 900 states |
| `BRPeer` | is each callback called once and each block whole, are the last announcements kept, do the handshake and the thread end, is `Requests` implemented | hold, 444 000 states |
| `BRPeerPool` | are there never too many peers, is the download peer connected and the better one, has a sync always somebody who goes on with it, is it reported as stopped | hold, 122 000 states |
| `BRPeerPoolFreed` | is nothing connected after `BRPeerManagerDisconnect` returned (`BRPeerManager.h:147`) | no |
| `BRTxRelay` | is a publication answered once, does it end, has its memory one owner, are the peers that were told timed | hold, 420 000 states |
| `BRTxRelayFreed` | do the entries of the list exist (`BRPeerManager.c:1986`, `BRWallet.c:755`) | no |
| `BRSet` | is a hash table the set that its header promises, does each probe end | yes, 19 000 states |
| `SeedStore` | is a stored identity kept, does each start end with one or a message | hold, 2 197 000 states |
| `SeedStoreFailed` | does a failed restore leave the identity (`strings.xml:20`) | no |

The four runs that find a violation each state what a comment, a header or a
message of the repository says; `PROJECT.json` quotes it under "findings".

The models also reach states that no run asks about, as no property of a run
holds or fails by them: the list of unspent outputs may hold one that a pending
transaction spends (206); after an update to TX_UNCONFIRMED lock
times stop to matter (943); `saveBlocks` may read blocks that another peer's
thread has freed (`BRPeerManager.c:1437`, `broken = "freed"`); after a restart
with forks a walk back may meet a missing block (1336, 1383), which `BRChain`
reaches: `WalksFindBlocks` is about the time before; after a rescan
the longer of two stored branches is passed by (1330): when a single block beside
the main chain becomes the tip, the blocks of the main chain that follow are stored
already, and no step makes them the tip until a new one comes. That is why the
only fork of `BRChainSync` is beside the last block, and why it has one peer and no
restart.

What some properties leave open, in short. `EventuallySynced` assumes that peers
relay blocks again and again (see Fairness), and says nothing of a branch that is
passed by. `ImplementsItemSet` allows each step any operation of `ItemSet`: an
operation that did what another one may do would pass. `IdentityKept` begins when
the text of the identity is on disk and excepts the two causes for which the code
gives an identity up: another id and a failed decryption. `SyncEnds` excepts four
mishaps, each of which alone breaks it. `PublicationEnds` excepts a publication
of which one peer that was told has left before its time limit (`forsaken`), also if
others are timed still, and does not say that a peer which was told of nothing
cannot end it (864-865; the code does that).

### Bounds, and why they are enough

* Wallet: four transactions. A double spend needs a parent and two spends, a
  dependent of two parents one more; change and receive addresses both occur.
  Two block heights tell above and at the join apart; batches of two put a parent
  and its child in one block. `Unconfirmed = 9` stands for INT32_MAX: only that
  it exceeds each height is used. One address of gap on either chain is what makes
  new addresses appear while transactions arrive.
* Chain: ten blocks. One fork overtakes the main chain after a checkpoint, one
  starts before it and is rejected; one transaction is in both branches at other
  heights, one only in the abandoned branch. `Trigger = 5`, `Walk = 1` clear
  memory within that length; `SaveCount = 2` cuts the rows. Two peers are enough
  for two threads to meet on one block. A second restart would start from
  other rows, and the theorems have any number.
* Peer: two blocks, the first with two transactions and the second with one of
  them, so that a transaction may be known already, missing, or come in the wrong
  block; announcements of none, one and two blocks, three in all with room for two
  (`MaxKnown`), so that the cut happens. Two callbacks are enough for a mempool
  request that turns into a ping behind another ping, and for a second request
  while the first is under way.
* Pool: three nodes for two places, one of which fails, with one failure as the
  limit (`MAX_CONNECT_FAILURES = 1`, 20 in the code), so that the last failure
  before it and those after it occur; the theorems have any limit. What goes wrong
  is counted together (`MaxFaults`): a node that fails or does not suit, a thread
  that cannot be created, a lookup that finds too few, an unreachable network, a
  disconnect. Each of the last four violates `SyncEnds` without its second
  disjunct. With two nodes, a limit of two and three failures `SyncEnds` held too
  (431 000 states, an earlier form of the module without the other mishaps).
* Relay: a confirmed transaction, which a reorganisation may make unconfirmed, and
  one that spends it and is published, two nodes that connect once each, one
  message about a transaction or a block besides those that disown one. Several
  publications of one transaction are covered by the theorems.
* Hash set: two sets and five pointers, two of them equal, with hashes that
  collide in tables of 3 and of 7 buckets and whose runs go around the end. The
  sizes are the first four of the code's; tables are created with the second or
  the third and grow. Beyond the last of the sizes (more than 10^9 items) the code
  allocates nothing; the model does not get there.
* Identity: two objects of the activity and one of the service, one change by the
  user or one decryption that fails with the right key, one crash. A user who acts
  waits until the calls of the activity are answered (`MaxPending = 0`), an activity
  is opened again when those of the service are too; the service is created at any
  moment, again only where its first object got no seed. Each start makes two
  calls, so three or four overlap. Callbacks come in every order. `NewIntent` waits
  for the object's earlier calls and a backup is only taken while a restore can
  follow. Ten random seeds are more than these texts can hold.

### Fairness

* `BRWallet`, `BRSet`: none, their properties are safety properties.
* `BRChain`: strong fairness of the relay of each block, as a peer that serves the
  chain relays its blocks each time it is asked and asking goes on while the tip
  is behind: this assumes of the manager what the hazard at line 1263 questions; the handling can be disabled in between, when the filter is away.
  Weak fairness of `SaveBlocks` (threads run) and of the load of a missing filter.
* `BRPeer`: `WF_vars(ThreadStep)`: the peer's own thread runs, its `read` returns
  at least each second (`SO_RCVTIMEO`), and time limits that are set pass. Nothing
  is assumed of the node or of other threads.
* `BRPeerPool`: `WF_vars(ThreadStep)`: some thread that can make a step makes one.
  `ThreadStep` holds the steps of the peers' threads and of a call under way; a
  node that does not answer is one whose time limit passes. One weak fairness for
  all is enough as the failures are bounded and each other step is taken a bounded
  number of times.
* `BRTxRelay`: `WF_vars(ThreadEnds(p))` for each peer: a time limit that is set
  passes, a thread whose socket was closed notices it, and a thread that has left its loop runs its last callbacks
  (`BRPeer.c:946-948, 1027-1040`). No node is assumed to answer.
* `SeedStore`: `WF_vars(Background)`. The executor, the main thread and the
  cryptography threads run; each call of the id ends with an id or an exception.

`CHECK_DEADLOCK FALSE` is set for the chain: a process that has used a missing
block has ended, and so has the model once `MaxRestarts` is used up; and for the
peer, the pool and the relay, which stop when the connection, or all of the
bounded number of connections, have ended.

Symmetry (of the nodes) is used in the two violation runs about peers, which check
one invariant each.

## Proofs

All theorems hold for every value of the constants that the named assumptions of
the modules allow.

| theorem | says |
|---|---|
| `BRWalletProofs!ListOrderedAlways` | `Spec => []ListOrdered` |
| `BRWalletProofs!UnconfirmedAfterAlways` | `Spec => UnconfirmedAfter` |
| `BRWalletProofs!NoConflictAlways`, `InvalidHasCauseAlways`, `BalanceIsUnspentAlways` | `Spec => []NoConflict`, `[]InvalidHasCause`, `[]BalanceIsUnspent` |
| `BRWalletProofs!DependentsFirstAlways` | `Spec => DependentsFirst` |
| `BRWalletProofs!TypeOKAlways` | `Spec => []TypeOK` |
| `BRChainProofs!HighestTipAlways` | `Spec => []HighestTip` |
| `BRChainProofs!ChainTyped`, `OrphansDetachedAlways` | `Spec => []TypeOK`, `[]OrphansDetached` |
| `BRChainProofs!ConfirmedOnChainAlways` | `Spec /\ JoinsMeet => []ConfirmedOnChain` |
| `BRChainProofs!ShallowForksConfirm` | `Spec /\ ReachedFirst => []ConfirmedOnChain`, if `ShallowForks` |
| `BRChainProofs!NewWalletConfirmed` | `Spec => []ConfirmedOnChain`, if `ShallowForks` and `StartIsLast` |
| `BRChainProofs!KeptForksFound` | `Spec /\ ReachedFirst => WalksFindBlocks` |
| `BRChainProofs!NewWalletForksFound` | `Spec => WalksFindBlocks`, if `StartIsLast` |
| `BRChainProofs!StubsMeet` | `Spec => [](restarts = 0 => broken # "null")`, if `SingleBlockForks` and `StartIsLast` |
| `SeedStoreProofs!IdentityKeptAlways` | `Spec => IdentityKept` |
| `SeedStoreProofs!IdentityTyped` | `Spec /\ []SeedLeft => []TypeOK` |
| `BRPeerProofs!CallbacksAnsweredOnce`, `CallbacksAnsweredAtEnd` | `Spec => []AnsweredOnce`, `Spec => []AnsweredAtEnd` |
| `BRPeerProofs!BlocksWhole` | `Spec => BlockWhole` |
| `BRPeerProofs!KnownBlocksAreTail`, `PeerTyped` | `Spec => []KnownIsTail`, `Spec => []TypeOK` |
| `BRPeerProofs!PeerImplementsRequests` | `Spec => R!SafeSpec` |
| `BRPeerPoolProofs!PoolTyped`, `DownloadPeerConnected`, `SyncNotAbandoned` | `Spec => []TypeOK`, `[]DownloadConnected`, `[]SyncHasWorker` |
| `BRPeerPoolProofs!DownloadPeerImproves` | `Spec => BetterDownloadPeer` |
| `BRTxRelayProofs!CallbacksCalledOnce`, `ObjectsOwned`, `PublicationsTimed`, `PublicationsTyped` | `Spec => []CallbackOnce`, `[]Owned`, `[]PendingTimed`, `[]TypeOK` |
| `BRSetProofs!SetTyped`, `ProbeAlwaysEnds` | `Spec => []TypeOK`, `[]ProbeEnds` |
| `BRSetProofs!TablesImplementSets` | `Spec => ImplementsItemSet` |
| `IInvAlways`, `WalletInvAlways`, `TreeInvAlways`, `CallsInvariant`, `PoolInvariant`, `OwnershipInvariant`, `TablesInvariant` | the inductive invariants |

**Wallet.** `ListOrdered` alone is not inductive. A load inserts a transaction
and would put it in twice, or change a height in place, if the rows still to load
were in the list already (`Loading`); an update inserts a
transaction again at its new height, but freeing one that is not the wallet's
resets its height in place, and an update to TX_UNCONFIRMED leaves the list alone
in that case, which keeps the order only if the transaction was unconfirmed
before (`Updating`). The insertion lemma needs nothing of the order but that a
higher transaction is later and a lower one is not, so the missing transitivity
of the comparison does no harm to the heights. `UnconfirmedAfter` follows from
the sorted list: what lies before the point where the scan stops is low enough.

The other theorems need more, and `WalletInv` is the conjunction of it. The
ledger is what a fold over the list leaves, so its properties are proved of every
account of the pass (`Pass`): `Accounted` says of the first k transactions that
the spent outputs are those their valid ones spend, that no two valid ones spend
the same, that an unspent output belongs to one that is valid and not pending and
that none of these spends it, that the balance is the sum, and why each invalid
one is. `CreditStep` is where an input may
come before the output it spends: the output is then never added. A transaction
that meets a spent input becomes invalid, but for a confirmed one, which the code
never calls invalid: two confirmed transactions that spend one output would break all
of it, so `ChainInv` carries `OneChain` through every call, also while rows
are loaded one by one and while an update is half done (`UpdatedHeight`: the
heights when the call will be over). `WorkInv` says that a removal, whose recursion
goes on to whatever spends an output, has only unconfirmed transactions to do,
because the list is sorted and the scan stops at the first lower height, and that it
passes by no unconfirmed one (`DependentsUnconfirmed`): this is `DependentsFirst`,
for the confirmed ones see the run `BRWalletRemoved`. `Sizes` says that the gap
limits keep the chain lengths natural. An unsigned balance below zero would break `TypeOK`.
The folds of the model (`UpdateBalance`, `Dependents`, `Amount`) are unfolded to
the recursive functions that define them, whose values are found with the
induction on prefixes and finite sets of `ListLemmas` (a set of counterexamples
has a least element).
Assumptions: heights are below TX_UNCONFIRMED, amounts and gap limits natural,
and what `TxAssumption` says of the transactions.

**Chain.** `HighestTip` needs `CheckpointWaits`: a checkpoint above the tip is in
`blocks` from the start, and if its block could be relayed on a parent other than
the tip it would be "existing" and become a stored relayed block that is higher
than the tip. It cannot: its parent would be a stored block beside the tip, on a fork, and
forks are only stored above every checkpoint.

The walks back are recursive functions, which are shown to be defined (for each
block the smallest set that a walk from it closes: `ChainExists`, `JoinExists`)
and then unfolded a step at a time; every induction is a set of blocks that has a
lower one for each and is empty (`NoneIsLowest`). `WalkIsChain` says what a walk
finds: one block of each height, each but the first with its child. So what is
cleared lies below the tip, which stays stored (`TypeOK`), and rows are one chain
with one child for each block, so that the orphans of the next start do not
replace each other (`RowsApart`); leaving out garbled rows does no harm to that. `OrphansDetached` needs that a
freed checkpoint is not also an object in `blocks` (`Stored`), as a freed one at
the height of another block would let that block extend the chain past an orphan;
and that a fork which grows from a checkpoint above the tip has no join point and
ends in the NULL block (`NoJoin`). After a rescan it is not true, and the property
says so: a block ahead of the tip then stays an orphan although its parent, on
what is a fork by now, is stored, and the tip passes the parent's height.

`ConfirmedOnChain` compares the heights with those on the line of the tip, which
is walked by prevBlock whatever is stored (`Line`, `HeightOn`). A walk stays on
the line and leaves out no block of it down to where it stops, and two lines are
one below a common block (`WalkLeavesNoneOut`, `LineSplitsAtBlock`), which is what
unconfirming above the join and confirming along the new branch relies on. It
needs that the walks of every reorganisation meet (`JoinsMeet`): the code does not
see to it. When the branch is deeper than the memory that is kept (800 blocks), the walk
from the tip runs out first, and the transactions of the new branch keep no height or
the old one. The theorems about the depth of forks say when the walks do meet.

`NewWalletConfirmed` is about the depth of forks, of any length. `ShallowForks` is
a condition on the tree of blocks alone: where two branches part is kept in memory
behind the top of the lower one. `DeepInv` is what the clearing leaves then: each
walk stops at `Start`, or `Walk + 1` blocks or more below the tip. If the walk from
the branch that becomes the longer one, or the one from the tip, stopped before
they join, the join would be deeper than the tree has it (`ShallowMeets`). A fork
that grows from a checkpoint ahead of the tip has no join. `ShallowForksConfirm`
excludes it by hypothesis (`ReachedFirst`); where `Start` is the last checkpoint,
as for a wallet whose first key is newer than the program's checkpoints, there is
none (`StartLastReached`). The run `BRChain` satisfies both hypotheses: its tree is
shallow, and its forks grow from reached blocks.

`WalksFindBlocks` comes from the same `DeepInv` and needs no condition on the tree:
it is about a block that leaves the chain of the tip where the memory is kept, and
whatever was cleared before, the walk from such a block meets that of the tip
before either stops (`KeptForksFound`; `NewWalletForksFound` where `Start` is the
last checkpoint). It is about the time until a rescan or a restart. After a restart
the last saved rows are all there is, and a fork that leaves the chain below them
makes the code dereference NULL; after a rescan the tip may be beside what is stored.

`StubsMeet` includes rescans. If of two blocks with one parent only one ever has
children, and `Start` is the last checkpoint, then until a restart the tree has one
block at which the walk from the tip and each walk that has a first step end, and any
other block without a stored parent has no children or is a checkpoint (`Rooted`).
The run `BRChainSync` satisfies these conditions.

Assumptions: no checkpoint is the parent of another, heights grow by one, a chain
holds a transaction once, and no transaction is older than the start.

**Peer.** `AnsweredOnce` needs to know where a callback may wait: in the pongs at
one place, or as the mempool callback, or in the hands of the thread between the
statements of lines 952 and 953, where it is in two fields at once; and that it
was given and not called (`CallsInv`); a thread that is leaving holds only what
came too late (`Left`). `BlockWhole` is the relation
of `missing`, `collected` and the current block. The refinement maps each step
to one of `Requests` or to a stutter; it needs that nothing is late before the
thread leaves. `KnownIsTail` is proved as `TailOf`, with the position at which the tail
begins; that the trimming of line 358 ends, within the list and below the limit,
is an induction downwards from the list's length (`CutExists`, `CutStops`: a third
of more than two is at least one). Assumptions: the types of the constants, and a
limit of two at least (the code's is 50000).

**Pool.** `SyncHasWorker` is not inductive: when the last peer fails without a
download peer, the code either stops the sync at exactly the limit or reconnects
below it, so that a count above the limit would do neither. `LimitReported` says
that without a download peer the count stays below the limit while a sync is under
way and the application has not disconnected; the cap at line 880 is what keeps
it when the download peer fails after many others. Assumption: finitely many
nodes (of which the pool never has more than its places).

**Relay.** `Owned` and `CallbackOnce` follow from `Holders`: a callback that is
due stands in the entry that holds the object of the same publication, the wallet
never has the object of a publication whose callback is due, and what the list or
the wallet holds was handed over and not freed. The first two are what justifies
the free at line 901, which looks at nothing, and the removal at 528. `PendingTimed`
needs that peers that were told are past their handshake (`TimedInv`), so that
connecting again does not bring one back without a limit, and that what is told
is forgotten with the callback. `PublicationsTyped` says besides the types
that only connected peers are counted as having a transaction, that what is
confirmed is in the wallet, and that only a pending publication can lose a peer
that was told.

**Hash set.** What makes `Found` right is not in the properties: no bucket is empty
on the way from the bucket of an item's hash to the one it lies in (`Reached`).
Adding keeps it, as it fills the first empty bucket of the way. A removal breaks
it for the run behind the emptied bucket, and does not repair it in one step but
item by item (`AddedAgain`), in a table that wraps around. The proof counts the
buckets from an empty one that lies behind the run (`Pos`), so that no way to an
item wraps (`ReachedInLine`); before the j-th bucket of the run is treated, ways
are whole up to there (`InLine`), and an item that is added again lies no further
than before and takes no bucket that is still to be treated (`Refilled`). So the
run that is walked in the changing table is the one that the removal found, which
is why `Removed` may fold over `Run` of the table after the first bucket is
emptied. While items are added again there are less of them than before the
removal, so the table does not grow then. The last conjunct of
`RemovedHolds`, that what comes to lie before the emptied bucket lay before it, is
what `BRSetIntersect` relies on when it looks at that bucket again and not at
those before it; a look goes on or takes an item out, so there are no more than
buckets and items (`Looking`). Growing starts with a table whose limit is higher
than the number of items taken over. Assumptions: equal items have equal hashes,
as `BRSet.h` demands; sizes grow by three at least, and none but 3 is below 5, as
the code's list has it (a table of 1, 2 or 4 buckets would be full before it is
over its limit); the last size holds all items; a capacity asked for is not
above the last size but one.

**Identity.** `IdentityKept` needs that calls in flight belong to objects that
exist and that objects to come have no seed (`Objects`, `Pending`), so that a new
object, the service's included, does not bring another identity, and that a call which the main thread
completes finds the id cached. `TypeOK` needs that what saves has a seed to save
(`HasSeed`; a populate that drew a seed stores it a step later, and other calls
decrypt into the same object in between), and that a seed can be drawn which
occurs nowhere (`SeedLeft`): seeds have 128 random bits in the code and are a set
of any size in the model, so this is the hypothesis of the theorem, and the runs
satisfy it.

Every safety property of the passing runs is stated by a theorem. `ConfirmedOnChain`
is not true with forks deeper than the memory, and `WalksFindBlocks` not if a fork
grows from a checkpoint that the chain has not reached, so their theorems have the
hypotheses above. Only model-checked is
liveness, which needs fairness and ENABLED, and is out of this prover's reach:
`EventuallySynced`, `EventuallyIdentity`, `HandshakeEnds`,
`DisconnectEnds`, `SyncEnds`, `PublicationEnds`, and that of `ImplementsRequests`.

## What next

The plan of this development was: the ledger, the block tree and the identity;
then relay, pool, peer and hash set. All are modelled and have theorems. In order of worth:

1. The composition of `BRPeerPool` with `BRChain`, whose `PeerConnected` and
   filter updates it would refine.
2. An abstract wallet (a map from registered transactions to heights) that
   `BRWallet` implements, and a main chain that only grows or switches to a longer
   one, which `BRChain` implements without rescans.
3. Filter updates in the pool: `_BRPeerManagerUpdateFilter` sends pings whose
   callbacks use the download peer of the moment at which they run
   (`BRPeerManager.c:401`).
4. Pure algorithms against a reference: the merkle tree walk, variable-length
   integers, `BRWalletCreateTxForOutputs`.

## Not modelled

* Cryptography, encodings of addresses, keys and payments, serialisation: pure
  functions of bytes without a state that steps could reach in a wrong order.
* The pure algorithms of item 4: sequential; a test reaches what a
  small instance would.
* Creating and signing transactions: reads the ledger that `BRWallet` has, under
  its lock; the amounts and sizes it decides by are arithmetic.
* Login, password helper and the Google backup: the order of their callbacks is
  decided by Android's prompt, its accessibility service and Firebase, which the
  repository does not contain; a model would state assumptions about these rather
  than what the code does.
* Screens, and third-party code (`secp256k1`, the hash functions).
