----------------------------- MODULE BRTxRelay -----------------------------
(***************************************************************************)
(* The transactions that BRPeerManager.c publishes and those that its      *)
(* peers relay: the list of published transactions with the callbacks of   *)
(* the application, which peers have a transaction or were asked for it,   *)
(* the time limit of peers that were told of a publication, the wallet's   *)
(* transactions that no peer has, and who frees a transaction.             *)
(*                                                                         *)
(* A critical section of manager->lock is one action.  An object is a      *)
(* transaction in memory: the one the application hands over with a        *)
(* publication, or a copy that a peer relays.  Whether a transaction is    *)
(* valid, spends from the wallet, or which peer has more blocks is open;   *)
(* connections are in BRPeerPool, messages in BRPeer.                      *)
(***************************************************************************)
EXTENDS Naturals, Sequences, FiniteSets

CONSTANTS
    Txs,                \* transactions of the wallet
    Inputs,             \* Inputs[t]: those whose outputs t spends
    Stored,             \* those that the wallet starts with
    Mined,              \* and those of them that are in a block
    Publications,       \* calls of BRPeerManagerPublishTx
    TxOf,               \* TxOf[k]: the transaction of the call
    Peers,
    maxConnectCount,
    MaxConnects,        \* bound: connections that are tried
    MaxMessages         \* bound: transactions and blocks that peers bring up

None == "none"
Copy == "copy"          \* an object that a peer relayed, or that was stored
Gone == "gone"          \* a pointer to an object that was freed

ASSUME RelayAssumption ==
    /\ Inputs \in [Txs -> SUBSET Txs]
    /\ Stored \subseteq Txs /\ Mined \subseteq Stored
    /\ TxOf \in [Publications -> Txs]
    /\ {None, Copy, Gone} \cap (Publications \cup Peers) = {}

Objects == Publications \cup {Copy}

VARIABLES
    wallet,             \* wallet[t]: the wallet's object
    confirmed,          \* those with a blockHeight
    publishedTx,        \* publishedTx[t]: the object in the list
    callback,           \* callback[t]: the publication to answer
    txRelays, txRequests,
    peer,               \* peer[p]: where the connection to p stands
    timed,              \* connected peers whose disconnectTime is set
    closed,             \* those whose socket the manager has closed
    pongs,              \* pongs[p]: what the pongs that p owes call
    loading,            \* peers that were sent a filter or "mempool"
    synced,             \* PEER_FLAG_SYNCED
    downloadPeer,       \* isConnected: it is not None
    syncing,            \* syncStartHeight > 0
    behind,             \* lastBlock->height < estimatedHeight
    connects, messages, \* bounded
    call,               \* call[k]: where BRPeerManagerPublishTx stands
    answers,            \* answers[k]: how often its callback was called
    frees,              \* frees[k]: how often its object was freed
    told,               \* told[t]: peers given a time limit for callback[t]
    forsaken            \* those with a told peer that left without an answer

list == <<publishedTx, callback, told, forsaken>>
peers == <<txRelays, txRequests>>
links == <<peer, timed, closed, pongs, loading, synced, connects>>
download == <<downloadPeer, syncing, behind>>
app == <<call, answers, frees>>
vars == <<wallet, confirmed, list, peers, links, download, app, messages>>

PeerStates == {"none", "connecting", "connected", "timedOut", "leaving"}
PongKinds == {"inv", "data"}

connectedPeers == {p \in Peers : peer[p] # "none"}
Connected == {p \in Peers : peer[p] = "connected"}
Leaving(p) == peer[p] \in {"timedOut", "leaving"}

Init ==
    /\ wallet = [t \in Txs |-> IF t \in Stored THEN Copy ELSE None]
    /\ confirmed = Mined
    /\ publishedTx = [t \in Txs |-> None]
    /\ callback = [t \in Txs |-> None]
    /\ txRelays = [t \in Txs |-> {}]
    /\ txRequests = [t \in Txs |-> {}]
    /\ peer = [p \in Peers |-> "none"]
    /\ timed = {}
    /\ closed = {}
    /\ pongs = [p \in Peers |-> <<>>]
    /\ loading = {}
    /\ synced = {}
    /\ downloadPeer = None
    /\ syncing = FALSE
    /\ behind = FALSE
    /\ connects = 0
    /\ messages = 0
    /\ call = [k \in Publications |-> "none"]
    /\ answers = [k \in Publications |-> 0]
    /\ frees = [k \in Publications |-> 0]
    /\ told = [t \in Txs |-> {}]
    /\ forsaken = {}

-----------------------------------------------------------------------------
(* The list of published transactions *)

Pending == {t \in Txs : callback[t] # None}
Unconfirmed == {t \in Txs : wallet[t] # None} \ confirmed

\* What can be reached from t in the graph.
Reach(t, graph) ==
    {x \in Txs : \A S \in SUBSET Txs :
        t \in S /\ (\A y \in S : graph[y] \subseteq S) => x \in S}

\* The list is searched by looking into each object.
Readable == \A t \in Txs : publishedTx[t] # Gone

\* _BRPeerManagerAddTxToPublishList: the unconfirmed inputs go with it, as far
\* as they are not in the list.
Adds(t, object, w) ==
    IF publishedTx[t] # None THEN publishedTx
    ELSE LET inputs == [x \in Txs |-> {i \in Inputs[x] : /\ w[i] # None
                                                         /\ i \notin confirmed
                                                         /\ publishedTx[i] = None}]
         IN  [x \in Txs |-> IF x = t THEN object
                            ELSE IF x \in Reach(t, inputs) THEN w[x] ELSE publishedTx[x]]

Count(counts, ks) == [k \in Publications |-> IF k \in ks THEN counts[k] + 1 ELSE counts[k]]

\* Mutant: the callback stays in the list.
AnswerAgain(txs) ==
    /\ answers' = Count(answers, {callback[t] : t \in txs})
    /\ UNCHANGED <<callback, told, forsaken>>

\* The callbacks of these are taken from the list and called.
Answer(txs) ==
    /\ callback' = [t \in Txs |-> IF t \in txs THEN None ELSE callback[t]]
    /\ answers' = Count(answers, {callback[t] : t \in txs})
    /\ told' = [t \in Txs |-> IF t \in txs THEN {} ELSE told[t]]
    /\ forsaken' = forsaken \ txs

\* Objects that nobody else holds.
Free(objects) == frees' = Count(frees, objects)

-----------------------------------------------------------------------------
(* Requests of the manager to its peers *)

Ping(targets, kind) ==
    pongs' = [p \in Peers |-> IF p \in targets THEN Append(pongs[p], kind) ELSE pongs[p]]

\* _BRPeerManagerPublishPendingTx, with these limits set already.
PublishPending(targets, limits) ==
    LET pending == {t \in Txs : callback'[t] # None}
    IN  /\ timed' = limits \cup (IF pending = {} THEN {} ELSE targets)
        /\ told' = [t \in Txs |-> IF t \in pending THEN told[t] \cup targets ELSE {}]

\* _BRPeerManagerLoadMempools, and the publications that go with it, after
\* those to the peers of first: the download peer d gets a filter only if the
\* one it has matches too much.
LoadMempools(conn, d, limits, first) ==
    \E degraded \in BOOLEAN :
        /\ loading' = loading \cup conn
        /\ PublishPending((IF degraded THEN conn ELSE conn \ {d}) \cup first, limits)

\* _BRPeerManagerRequestUnrelayedTx, when p owes these pongs.
RequestUnrelayed(p, owed) ==
    LET asked == {t \in Unconfirmed : p \notin txRelays[t] \cup txRequests[t]}
    IN  /\ txRequests' = [t \in Txs |-> IF t \in asked THEN txRequests[t] \cup {p}
                                        ELSE txRequests[t]]
        /\ synced' = IF asked = {} THEN synced \cup {p} ELSE synced
        /\ pongs' = [pongs EXCEPT ![p] =
                        IF asked # {} /\ p \notin synced THEN Append(owed, "data") ELSE owed]
        /\ UNCHANGED txRelays

\* Mutant: the limit of the download peer is cancelled with publications pending.
StopsAnyway == timed' = timed \ {downloadPeer}

\* _BRPeerManagerSyncStopped
CancelSyncTimeout == timed' = IF Pending = {} THEN timed \ {downloadPeer} ELSE timed

-----------------------------------------------------------------------------
(* BRPeerManagerPublishTx *)

\* "leave out downloadPeer to see if tx propogates"
Targets == {p \in Connected : p # downloadPeer \/ Cardinality(Connected) = 1}

\* A transaction that is in the list stays as it is: its callback is not kept.
Publish(k) ==
    /\ \/ call[k] = "none" /\ downloadPeer # None
       \/ call[k] = "checking"
    /\ Readable
    /\ LET t == TxOf[k]
       IN  /\ publishedTx' = Adds(t, k, wallet)
           /\ callback' = IF publishedTx[t] = None THEN [callback EXCEPT ![t] = k] ELSE callback
    /\ PublishPending(Targets, timed)
    /\ Ping(Targets, "inv")
    /\ call' = [call EXCEPT ![k] = "made"]
    /\ UNCHANGED <<wallet, confirmed, forsaken, peers, peer, loading, synced, closed,
                   connects, download, answers, frees, messages>>

\* The lock is let go of to ask whether the network can be reached.
PublishChecks(k) ==
    /\ call[k] = "none" /\ downloadPeer = None
    /\ call' = [call EXCEPT ![k] = "checking"]
    /\ UNCHANGED <<wallet, confirmed, list, peers, links, download, answers, frees, messages>>

\* ENOTCONN
PublishRefused(k) ==
    /\ call[k] = "checking"
    /\ call' = [call EXCEPT ![k] = "made"]
    /\ answers' = Count(answers, {k})
    /\ Free({k})
    /\ UNCHANGED <<wallet, confirmed, list, peers, links, download, messages>>

-----------------------------------------------------------------------------
(* Callbacks of a peer about a transaction *)

Message(p) == /\ peer[p] = "connected"
              /\ messages < MaxMessages
              /\ messages' = messages + 1

\* The limit of the peer ends with the last publication that is pending, unless
\* the sync needs it; a transaction of the wallet prolongs the sync.
Limit(p, t, prolongs) ==
    LET others == Pending \ {t} # {}
        sync == syncing /\ p = downloadPeer
        kept == IF others \/ sync THEN timed ELSE timed \ {p}
    IN  timed' = IF sync /\ prolongs THEN kept \cup {p} ELSE kept

Register(t, object) ==
    wallet' = [wallet EXCEPT ![t] = IF @ = None THEN object ELSE @]

\* Outside a sync every transaction is counted, in a sync those of the list.
Relays(p, t) ==
    txRelays' = [txRelays EXCEPT ![t] =
                    IF ~syncing \/ publishedTx[t] # None THEN @ \cup {p} ELSE @]

\* _peerRelayedTx: a valid transaction that spends from the wallet is listed.
RelayedTx(p, t) ==
    /\ Message(p)
    /\ Answer({t})
    /\ Limit(p, t, TRUE)
    /\ Register(t, Copy)
    /\ \/ Readable /\ t \notin confirmed /\ publishedTx' = Adds(t, wallet'[t], wallet')
       \/ UNCHANGED publishedTx
    /\ Relays(p, t)
    /\ txRequests' = [txRequests EXCEPT ![t] = @ \ {p}]
    /\ UNCHANGED <<confirmed, peer, pongs, loading, synced, closed, connects, download,
                   call, frees>>

\* _peerHasTx: "inv" of a transaction that is in the wallet or in the list.
HasTx(p, t) ==
    /\ Message(p)
    /\ wallet[t] # None \/ publishedTx[t] \notin {None, Gone}
    /\ Answer({t})
    /\ Limit(p, t, TRUE)
    /\ Register(t, publishedTx[t])
    /\ Relays(p, t)
    /\ txRequests' = [txRequests EXCEPT ![t] = @ \ {p}]
    /\ UNCHANGED <<confirmed, publishedTx, peer, pongs, loading, synced, closed, connects,
                   download, call, frees>>

\* _peerRequestedTx: the wallet registers what it publishes,
RequestedTx(p, t) ==
    /\ Message(p)
    /\ publishedTx[t] \notin {None, Gone}
    /\ Answer({t})
    /\ Limit(p, t, FALSE)
    /\ Register(t, publishedTx[t])
    /\ txRelays' = [txRelays EXCEPT ![t] = @ \cup {p}]
    /\ UNCHANGED <<confirmed, publishedTx, txRequests, peer, pongs, loading, synced, closed,
                   connects, download, call, frees>>

\* or finds it invalid (EINVAL).
RequestedInvalid(p, t) ==
    /\ Message(p)
    /\ publishedTx[t] \notin {None, Gone}
    /\ Answer({t})
    /\ Limit(p, t, FALSE)
    /\ publishedTx' = [publishedTx EXCEPT ![t] = None]
    /\ Free(IF wallet[t] = None THEN {publishedTx[t]} ELSE {})
    /\ UNCHANGED <<wallet, confirmed, peers, peer, pongs, loading, synced, closed, connects,
                   download, call>>

\* _peerRejectedTx, and _peerDataNotfound, which does not look at the wallet.
Disowned(p, t) ==
    /\ peer[p] = "connected"
    /\ p \in txRelays[t] \cup txRequests[t]
    /\ txRequests' = [txRequests EXCEPT ![t] = @ \ {p}]
    /\ \/ txRelays' = [txRelays EXCEPT ![t] = @ \ {p}]
       \/ wallet[t] = None /\ UNCHANGED txRelays
    /\ UNCHANGED <<wallet, confirmed, list, links, download, app, messages>>

\* The object of the list, if the wallet does not have the transaction.
Unowned(t) == IF wallet[t] = None THEN {publishedTx[t]} ELSE {}

\* _BRPeerManagerUpdateTx for the transactions of a block: the callbacks that
\* are pending are lost with their entries.
Confirm(txs) ==
    /\ txs # {} => Readable
    /\ confirmed' = confirmed \cup {t \in txs : wallet[t] # None}
    /\ publishedTx' = [t \in Txs |-> IF t \in txs THEN None ELSE publishedTx[t]]
    /\ callback' = [t \in Txs |-> IF t \in txs THEN None ELSE callback[t]]
    /\ forsaken' = forsaken \ txs
    /\ Free(UNION {Unowned(t) : t \in txs})
    /\ txRelays' = [t \in Txs |-> IF t \in txs THEN {} ELSE txRelays[t]]

\* _peerRelayedBlock: a download goes on, or is complete.
RelayedBlock(p, txs) ==
    /\ Message(p)
    /\ behind \/ txs # {}
    /\ \A t \in txs : t \notin confirmed /\ (wallet[t] # None \/ publishedTx[t] # None)
    /\ Confirm(txs)
    /\ \/ /\ behind' = behind
          /\ PublishPending({}, IF behind THEN timed \cup ({p} \cap {downloadPeer}) ELSE timed)
          /\ UNCHANGED loading
       \/ /\ behind /\ behind' = FALSE
          /\ LoadMempools(Connected, downloadPeer, timed, {})
    /\ UNCHANGED <<wallet, txRequests, peer, pongs, synced, closed, connects, downloadPeer,
                   syncing, call, answers>>

\* _peerRelayedBlock, when a longer fork takes the place of the chain: what its
\* blocks confirm is confirmed in the wallet only, the list is not told.
Reorganise(p, back, txs) ==
    /\ Message(p)
    /\ back \cup txs # {}
    /\ back \subseteq confirmed /\ txs \subseteq Unconfirmed \cup back
    /\ confirmed' = (confirmed \ back) \cup txs
    /\ UNCHANGED callback
    /\ \/ UNCHANGED <<behind, loading, timed, told>>
       \/ /\ behind /\ behind' = FALSE
          /\ LoadMempools(Connected, downloadPeer, timed, {})
    /\ UNCHANGED <<wallet, publishedTx, forsaken, peers, peer, closed, pongs, synced,
                   connects, downloadPeer, syncing, app>>

\* A transaction that is neither the wallet's nor in the list, or a request for
\* one that is not in the list, only ends a limit.
OtherTx(p) ==
    /\ Message(p)
    /\ Pending = {} /\ ~(syncing /\ p = downloadPeer)
    /\ timed' = timed \ {p}
    /\ UNCHANGED <<wallet, confirmed, list, peers, peer, pongs, loading, synced, closed,
                   connects, download, app>>

-----------------------------------------------------------------------------
(* Connections *)

SyncStarts ==
    /\ ~syncing
    /\ downloadPeer = None \/ behind
    /\ syncing' = TRUE
    /\ UNCHANGED <<wallet, confirmed, list, peers, links, downloadPeer, behind, app, messages>>

\* BRPeerManagerConnect: a peer is tried,
Connects(p) ==
    /\ peer[p] = "none"
    /\ connects < MaxConnects
    /\ connects' = connects + 1
    /\ peer' = [peer EXCEPT ![p] = "connecting"]
    /\ UNCHANGED <<wallet, confirmed, list, peers, timed, closed, pongs, loading, synced,
                   download, app, messages>>

\* or none is found: the publications that are pending stay so.
NoPeers ==
    /\ syncing /\ connectedPeers = {}
    /\ syncing' = FALSE
    /\ UNCHANGED <<wallet, confirmed, list, peers, links, downloadPeer, behind, app, messages>>

\* _peerConnected: a peer beside the download peer gets the filter and the
\* publications, unless there is a sync that it does not help with.  (A node
\* that does not suit is disconnected, see Ends.)
StickWithDownloadPeer(p) ==
    /\ peer[p] = "connecting"
    /\ downloadPeer # None
    /\ peer' = [peer EXCEPT ![p] = "connected"]
    /\ UNCHANGED callback
    /\ \/ loading' = loading \cup {p} /\ PublishPending({p}, timed)
       \/ UNCHANGED <<loading, timed, told>>
    /\ UNCHANGED <<wallet, confirmed, publishedTx, forsaken, peers, pongs, synced, closed,
                   connects, download, app, messages>>

\* Or some connected peer q becomes the download peer, to sync or when there is
\* nothing to sync, and the socket of its predecessor is closed, which may be q
\* itself.
SelectDownloadPeer(p, q) ==
    /\ peer[p] = "connecting"
    /\ q \in Connected \cup {p}
    /\ peer' = [peer EXCEPT ![p] = "connected"]
    /\ closed' = closed \cup ({downloadPeer} \cap Connected)
    /\ downloadPeer' = q
    /\ UNCHANGED callback
    /\ \/ behind' = TRUE /\ PublishPending({q}, timed \cup {q}) /\ UNCHANGED loading
       \/ behind' = FALSE /\ LoadMempools(Connected \cup {p}, q, timed, {q})
    /\ UNCHANGED <<wallet, confirmed, publishedTx, forsaken, peers, pongs, synced, connects,
                   syncing, app, messages>>

\* The thread of a peer leaves its loop, at its time limit or before: the node
\* hangs up, misbehaves or is silent for too long, or the manager has closed the
\* socket, here of the predecessor of a download peer (the other times the
\* manager disconnects a peer are not told from a node that hangs up).
Ends(p, how) ==
    /\ peer[p] \in {"connecting", "connected"}
    /\ how \in {"timedOut", "leaving"}
    /\ peer' = [peer EXCEPT ![p] = how]
    /\ timed' = timed \ {p}
    /\ closed' = closed \ {p}
    /\ UNCHANGED <<wallet, confirmed, list, peers, pongs, loading, synced, connects,
                   download, app, messages>>

\* The time limit of p may be the sync's, and other peers can go on with it.
Spared(p) == p = downloadPeer /\ syncing /\ connectedPeers # {p}

\* Mutant: never that of the download peer.
CancelsBeside(p) == peer[p] = "timedOut" /\ p # downloadPeer

\* The time limit of a peer ends the publications.
Cancels(p) == peer[p] = "timedOut" /\ ~Spared(p)

\* Mutant: everything in the list.
Listed == {t \in Txs : publishedTx[t] # None}

\* The publications that end when nobody is left to take them.
Canceled == Pending

\* Mutant: only transactions that are not listed forget the peer.
RelaysKept(p) == [t \in Txs |-> IF publishedTx[t] = None THEN txRelays[t] \ {p} ELSE txRelays[t]]

RelaysWithout(p) == [t \in Txs |-> txRelays[t] \ {p}]

\* _peerDisconnected, which leaves txRequests as it is.  "sync failed": without a
\* download peer, after too many failures, everything that is pending ends
\* (ENOTCONN).
Disconnected(p) ==
    /\ Leaving(p)
    /\ pongs[p] = <<>>
    /\ p \notin loading
    /\ peer' = [peer EXCEPT ![p] = "none"]
    /\ downloadPeer' = IF p = downloadPeer THEN None ELSE downloadPeer
    /\ synced' = synced \ {p}
    /\ txRelays' = RelaysWithout(p)
    /\ \E failed \in BOOLEAN :
          /\ failed => downloadPeer' = None
          /\ syncing' = (syncing /\ ~failed)
          /\ IF failed \/ Cancels(p)
             THEN /\ Answer(Canceled)
                  /\ publishedTx' = [t \in Txs |-> IF t \in Canceled THEN None
                                                  ELSE publishedTx[t]]
                  /\ Free({publishedTx[t] : t \in Canceled})
             ELSE /\ forsaken' = forsaken \cup
                        {t \in Pending : p \in told[t] /\ (peer[p] = "timedOut" => Spared(p))}
                  /\ told' = [t \in Txs |-> told[t] \ {p}]
                  /\ UNCHANGED <<publishedTx, callback, answers, frees>>
    /\ UNCHANGED <<wallet, confirmed, txRequests, timed, pongs, loading, closed, connects,
                   behind, call, messages>>

-----------------------------------------------------------------------------
(* The answers to pings and to "mempool", success or not *)

Owes(p, kind) == pongs[p] # <<>> /\ Head(pongs[p]) = kind

\* _mempoolDone, after _loadBloomFilterDone has asked for the mempool.
MempoolDone(p) ==
    /\ peer[p] = "connected"
    /\ p \in loading
    /\ loading' = loading \ {p}
    /\ \/ syncing /\ syncing' = FALSE /\ CancelSyncTimeout
       \/ ~syncing /\ UNCHANGED <<syncing, timed>>
    /\ RequestUnrelayed(p, pongs[p])
    /\ UNCHANGED <<wallet, confirmed, list, peer, closed, connects, downloadPeer, behind,
                   app, messages>>

\* BRPeerSendMempool refuses a second request, which is only logged.
MempoolRefused(p) ==
    /\ peer[p] = "connected"
    /\ p \in loading
    /\ loading' = loading \ {p}
    /\ UNCHANGED <<wallet, confirmed, list, peers, peer, timed, pongs, synced, closed,
                   connects, download, app, messages>>

\* _loadBloomFilterDone takes the sync for done if it is the download peer that
\* left; _mempoolDone only logs.
LoadLost(p) ==
    /\ Leaving(p)
    /\ p \in loading
    /\ loading' = loading \ {p}
    /\ \/ p = downloadPeer /\ syncing' = FALSE
       \/ UNCHANGED syncing
    /\ UNCHANGED <<wallet, confirmed, list, peers, peer, timed, pongs, synced, closed,
                   connects, downloadPeer, behind, app, messages>>

\* _publishTxInvDone does not look at success.
InvDone(p) ==
    /\ peer[p] = "connected" \/ Leaving(p)
    /\ Owes(p, "inv")
    /\ RequestUnrelayed(p, Tail(pongs[p]))
    /\ UNCHANGED <<wallet, confirmed, list, peer, timed, loading, closed, connects,
                   download, app, messages>>

\* The wallet's transactions that no peer has or was asked for, and what
\* depends on them.
Unrelayed == {t \in Unconfirmed : callback[t] = None /\ txRelays[t] = {} /\ txRequests[t] = {}}
Removed ==
    LET dependents == [x \in Txs |-> {t \in Unconfirmed : x \in Inputs[t]}]
    IN  UNION {Reach(t, dependents) : t \in Unrelayed}

\* All peers have relayed their mempools, and there are enough.
AllSynced(flags) ==
    /\ connectedPeers \subseteq flags
    /\ Cardinality(Connected) >= maxConnectCount

\* BRWalletRemoveTransaction frees what it removes; the list is not told.
RemoveUnrelayed ==
    /\ Readable
    /\ wallet' = [t \in Txs |-> IF t \in Removed THEN None ELSE wallet[t]]
    /\ publishedTx' = [t \in Txs |-> IF t \in Removed /\ publishedTx[t] = wallet[t] THEN Gone
                                    ELSE publishedTx[t]]
    /\ Free({wallet[t] : t \in Removed})

\* _requestUnrelayedTxGetdataDone
DataDone(p) ==
    /\ peer[p] = "connected" \/ Leaving(p)
    /\ Owes(p, "data")
    /\ pongs' = [pongs EXCEPT ![p] = Tail(@)]
    /\ synced' = IF peer[p] = "connected" THEN synced \cup {p} ELSE synced
    /\ \/ AllSynced(synced') /\ RemoveUnrelayed
       \/ ~AllSynced(synced') /\ UNCHANGED <<wallet, publishedTx, frees>>
    /\ UNCHANGED <<confirmed, callback, told, forsaken, peers, peer, timed, loading, closed,
                   connects, download, call, answers, messages>>

-----------------------------------------------------------------------------

\* What ends a peer's thread that has a time limit or no socket, or has left its
\* loop.
ThreadEnds(p) ==
    \/ p \in timed /\ Ends(p, "timedOut")
    \/ p \in closed /\ Ends(p, "leaving")
    \/ Leaving(p) /\ (LoadLost(p) \/ InvDone(p) \/ DataDone(p))
    \/ Disconnected(p)

Published(k) == Publish(k) \/ PublishChecks(k) \/ PublishRefused(k)

Heard(p, t) ==
    \/ RelayedTx(p, t) \/ HasTx(p, t) \/ RequestedTx(p, t) \/ RequestedInvalid(p, t)
    \/ Disowned(p, t)

PeerStep(p) ==
    \/ Connects(p) \/ StickWithDownloadPeer(p)
    \/ (\E q \in Peers : SelectDownloadPeer(p, q))
    \/ MempoolDone(p) \/ MempoolRefused(p) \/ LoadLost(p) \/ InvDone(p) \/ DataDone(p)
    \/ (\E txs \in SUBSET Txs : RelayedBlock(p, txs)) \/ OtherTx(p)
    \/ (\E back, txs \in SUBSET Txs : Reorganise(p, back, txs))
    \/ (\E how \in {"timedOut", "leaving"} : Ends(p, how)) \/ Disconnected(p)

Next ==
    \/ \E k \in Publications : Published(k)
    \/ \E p \in Peers : PeerStep(p) \/ \E t \in Txs : Heard(p, t)
    \/ SyncStarts \/ NoPeers

Spec == Init /\ [][Next]_vars /\ \A p \in Peers : WF_vars(ThreadEnds(p))

-----------------------------------------------------------------------------
(* Properties *)

\* The types.  A relay count is one of connected peers (BRPeerManager.c:2046,
\* 869-875); the download peer is past its handshake; what is kept of a peer or
\* of a pending callback ends with it.
TypeOK ==
    /\ wallet \in [Txs -> Objects \cup {None}]
    /\ confirmed \subseteq {t \in Txs : wallet[t] # None}
    /\ publishedTx \in [Txs -> Objects \cup {None, Gone}]
    /\ callback \in [Txs -> Publications \cup {None}]
    /\ txRelays \in [Txs -> SUBSET connectedPeers]
    /\ txRequests \in [Txs -> SUBSET Peers]
    /\ peer \in [Peers -> PeerStates]
    /\ timed \subseteq Connected
    /\ closed \subseteq Connected
    /\ pongs \in [Peers -> Seq(PongKinds)]
    /\ loading \subseteq connectedPeers
    /\ synced \subseteq connectedPeers
    /\ downloadPeer \in Peers \cup {None}
    /\ downloadPeer # None => peer[downloadPeer] \notin {"none", "connecting"}
    /\ syncing \in BOOLEAN
    /\ behind \in BOOLEAN
    /\ connects \in Nat
    /\ messages \in Nat
    /\ call \in [Publications -> {"none", "checking", "made"}]
    /\ answers \in [Publications -> Nat]
    /\ frees \in [Publications -> Nat]
    /\ told \in [Txs -> SUBSET connectedPeers]
    /\ forsaken \subseteq Pending

\* The callback of a publication is called once at most, although a peer that
\* relays the transaction, one that has it, one that requests it, one that
\* times out and the end of a sync may all answer it from their own threads
\* (BRPeerManager.c:894-918, 968-977, 1052-1062, 1516-1536, 2009).
CallbackOnce == \A k \in Publications : answers[k] <= 1

\* The object of a publication is freed once at most, and then neither the
\* wallet nor the list hold it: BRPeerManagerPublishTx, the end of a
\* publication, a request for one that has become invalid, a block and the
\* wallet's removal all free objects, each on its own test of who owns it
\* (BRPeerManager.c:476, 528, 901, 1529, 2007; BRWallet.c:815).
Owned ==
    \A k \in Publications :
        /\ frees[k] <= 1
        /\ frees[k] = 1 => \A t \in Txs : wallet[t] # k /\ publishedTx[t] # k

\* A peer that was told of a publication that is pending has a time limit: the
\* answers to other transactions, the end of a sync and the blocks leave it
\* alone, so that the publication cannot wait for a peer that keeps silent
\* (BRPeerManager.c:219-222, 573-577, 979-982, 1064-1067, 1538-1541).
PendingTimed ==
    \A t \in Pending : \A p \in told[t] : peer[p] = "connected" => p \in timed

\* A publication that a peer was told of ends, with an answer or a block, even
\* if no node ever asks for it: unless one of these peers left before its time
\* limit, or was the download peer of a sync that others could go on with
\* (BRPeerManager.c:865, 894-905).
PublicationEnds ==
    \A t \in Txs, k \in Publications :
        callback[t] = k /\ told[t] # {} ~> callback[t] # k \/ t \in forsaken

\* Every entry of the list points to a live transaction: publishing takes the
\* object over, and the wallet frees only what it removes (BRPeerManager.c:1986,
\* BRWallet.c:755).  The code does not keep this: what is listed without a
\* callback, a relayed or an answered transaction, is removed from the wallet
\* as unrelayed (BRPeerManager.c:522-528) and stays in the list.
PublishedAlive == Readable

=============================================================================
