----------------------------- MODULE BRPeerPool -----------------------------
(***************************************************************************)
(* The peers that BRPeerManager.c keeps connected, the one it downloads    *)
(* the chain from, the state of the sync that the application is told of,  *)
(* the reconnects after failures, and BRPeerManagerDisconnect.             *)
(*                                                                         *)
(* A critical section of manager->lock is one action; a function that lets *)
(* go of the lock goes on from a stage of its own.  Each peer's thread     *)
(* reaches the manager through its callbacks.  The chain is its height     *)
(* (the blocks themselves are in BRChain, with the rescan), a connection   *)
(* is what the manager sees of BRPeer.                                     *)
(***************************************************************************)
EXTENDS Naturals, FiniteSets

CONSTANTS
    Peers,              \* addresses of nodes
    MaxConnectCount,
    MAX_CONNECT_FAILURES,
    MaxHeight,          \* bound: height of the chain
    MaxFaults,          \* bound: connections that fail, nodes that do not suit,
                        \* disconnects and changes of the network
    Mishaps,            \* bound: which of the events below happen at all
    MaxCalls            \* bound: BRPeerManagerConnect by the application

None == "none"

\* What no thread of the manager recovers from: a lookup that finds too few
\* peers, a thread that cannot be created, the application's disconnect, a
\* change of the network before it connects again.
MishapKinds == {"lookup", "thread", "disconnect", "network"}

ASSUME PoolAssumption ==
    /\ None \notin Peers
    /\ IsFiniteSet(Peers)
    /\ MaxConnectCount \in Nat \ {0}
    /\ MAX_CONNECT_FAILURES \in Nat \ {0}
    /\ MaxHeight \in Nat
    /\ Mishaps \subseteq MishapKinds

VARIABLES
    peer,               \* peer[p]: where the connection to p stands
    closed,             \* peers whose socket the manager has closed
    lastblock,          \* lastblock[p]: the height that p reported
    pings,              \* pings[p]: pings whose pong runs _loadBloomFilterDone
    requested,          \* peers with _mempoolDone as mempool callback
    sentMempool,        \* peers that were asked since their last filter
    downloadPeer, isConnected, connectFailureCount,
    syncing,            \* syncStartHeight > 0
    height, estimatedHeight,
    reachable,          \* networkIsReachable
    threads,            \* threads[s]: peers' threads in stage s of a reconnect
    app,                \* the stage of the application's BRPeerManagerConnect
    disconnect,         \* where its BRPeerManagerDisconnect stands
    mishaps,            \* those of Mishaps that have happened
    faults, calls       \* bounded

link == <<closed, lastblock, pings, requested, sentMempool>>
download == <<downloadPeer, isConnected, estimatedHeight>>
callers == <<threads, app>>
world == <<reachable, disconnect, mishaps, faults, calls>>
vars == <<peer, link, download, connectFailureCount, syncing, height, callers, world>>

\* "waiting" for the network; "failed": no thread could be created; "opening"
\* a socket; "open": in the handshake; "connected", until _peerConnected has
\* run; "serving"; "leaving": disconnected, with callbacks to come.
PeerStates ==
    {"none", "waiting", "failed", "opening", "open", "connected", "serving", "leaving"}

\* BRPeerManagerConnect is about to take the lock, has let go of it to report
\* the start of the sync, or to look for peers.
Stages == {"begin", "started", "finding"}

connectedPeers == {p \in Peers : peer[p] # "none"}
\* BRPeerConnectStatus is BRPeerStatusConnected.
Connected == {p \in Peers : peer[p] \in {"connected", "serving"}}
WithSocket == {p \in Peers : peer[p] \in {"open", "connected", "serving"}}

Init ==
    /\ peer = [p \in Peers |-> "none"]
    /\ closed = {}
    /\ lastblock = [p \in Peers |-> 0]
    /\ pings = [p \in Peers |-> 0]
    /\ requested = {}
    /\ sentMempool = {}
    /\ downloadPeer = None
    /\ isConnected = FALSE
    /\ connectFailureCount = 0
    /\ syncing = FALSE
    /\ height = 0
    /\ estimatedHeight = 0
    /\ reachable = TRUE
    /\ threads = [s \in Stages |-> 0]
    /\ app = "idle"
    /\ disconnect = "idle"
    /\ mishaps = {}
    /\ faults = 0
    /\ calls = 0

Fault == faults < MaxFaults /\ faults' = faults + 1

-----------------------------------------------------------------------------
(* BRPeerManagerConnect, called by the application and by peers' threads *)

\* A call that stands at one stage goes on to another, or ends.
Goes(from, to) ==
    \/ /\ threads[from] > 0
       /\ threads' = [s \in Stages |-> IF s = from THEN threads[s] - 1
                                       ELSE IF s = to THEN threads[s] + 1 ELSE threads[s]]
       /\ UNCHANGED app
    \/ app = from /\ app' = to /\ UNCHANGED threads

\* BRPeerConnect of each of these.
Attempt(chosen, failing) ==
    /\ failing \subseteq (IF reachable THEN chosen ELSE {})
    /\ peer' = [p \in Peers |-> IF p \notin chosen THEN peer[p]
                                ELSE IF ~reachable THEN "waiting"
                                ELSE IF p \in failing THEN "failed" ELSE "opening"]

\* Mutant: one peer too many.
RoomForOneMore == MaxConnectCount + 1 - Cardinality(connectedPeers)

Room == MaxConnectCount - Cardinality(connectedPeers)
Full == Cardinality(connectedPeers) >= MaxConnectCount

\* Peers are added until there are enough, or no more candidates.
Chosen(new) == /\ new \subseteq Peers \ connectedPeers
               /\ Cardinality(new) <= Room
Short(new) == Cardinality(new) < Room /\ new # Peers \ connectedPeers

Happened(kinds) == kinds \subseteq Mishaps /\ mishaps' = mishaps \cup kinds
Threadless(failing) == IF failing = {} THEN {} ELSE {"thread"}

\* Mutant: the end of the sync is not reported.
StopsNever == UNCHANGED syncing

\* "sync failed", with no peer at all.
StopsWithout == syncing' = (syncing /\ connectedPeers' # {})

Waiting == {p \in Peers : peer[p] = "waiting"}

\* The rest of the function from a stage: peers are tried again, and it ends,
\* adds peers of the list, or looks for peers first.
Continue(from) ==
    \E failing \in SUBSET Peers, new \in SUBSET Peers :
        /\ Attempt(Waiting \cup new, failing)
        /\ Happened(Threadless(failing))
        /\ \/ Full /\ new = {} /\ Goes(from, "idle") /\ StopsWithout
           \/ ~Full /\ Chosen(new) /\ ~Short(new) /\ Goes(from, "idle") /\ StopsWithout
           \/ ~Full /\ new = {} /\ Goes(from, "finding") /\ UNCHANGED syncing

StartsSync == (downloadPeer = None \/ height < estimatedHeight) /\ ~syncing

ManualRetry ==
    connectFailureCount' =
        IF connectFailureCount >= MAX_CONNECT_FAILURES THEN 0 ELSE connectFailureCount

\* The lock is let go of while syncStarted runs.
ConnectStartsSync ==
    /\ StartsSync
    /\ ManualRetry
    /\ syncing' = TRUE
    /\ Goes("begin", "started")
    /\ UNCHANGED <<peer, link, download, height, world>>

ConnectAgain ==
    /\ ~StartsSync
    /\ ManualRetry
    /\ Continue("begin")
    /\ UNCHANGED <<link, download, height, reachable, disconnect, faults, calls>>

ConnectStarted ==
    /\ Continue("started")
    /\ UNCHANGED <<link, download, connectFailureCount, height, reachable, disconnect,
                   faults, calls>>

\* With the lock again after _BRPeerManagerFindPeers.
AddPeers ==
    /\ \E failing \in SUBSET Peers, new \in SUBSET Peers :
          /\ Chosen(new)
          /\ Attempt(new, failing)
          /\ Happened(Threadless(failing) \cup IF Short(new) THEN {"lookup"} ELSE {})
    /\ Goes("finding", "idle")
    /\ StopsWithout
    /\ UNCHANGED <<link, download, connectFailureCount, height, reachable, disconnect,
                   faults, calls>>

-----------------------------------------------------------------------------
(* Requests of the manager to its peers *)

\* BRPeerSendMempool: a request that was made already is refused, and its
\* callback only logs that.
SendMempool(asked, sent) ==
    /\ requested' = requested \cup (asked \ sent)
    /\ sentMempool' = sent \cup asked

\* A new filter, and a ping after it.
LoadFilter(targets) ==
    pings' = [p \in Peers |-> IF p \in targets THEN pings[p] + 1 ELSE pings[p]]

\* _BRPeerManagerLoadMempools: the peers get a filter first, except for the
\* download peer p unless its filter matches too much.
LoadMempools(p, sent) ==
    \E degraded \in BOOLEAN :
        LET asked == IF degraded THEN {} ELSE Connected \cap {p}
        IN  /\ LoadFilter(Connected \ asked)
            /\ SendMempool(asked, sent \ (Connected \ asked))

-----------------------------------------------------------------------------
(* A peer's thread *)

SocketOpens(p) ==
    /\ peer[p] = "opening"
    /\ peer' = [peer EXCEPT ![p] = "open"]
    /\ UNCHANGED <<link, download, connectFailureCount, syncing, height, callers, world>>

\* version, verack: the node reports a height.
Handshake(p) ==
    /\ peer[p] = "open"
    /\ peer' = [peer EXCEPT ![p] = "connected"]
    /\ \E h \in 0 .. MaxHeight : lastblock' = [lastblock EXCEPT ![p] = h]
    /\ UNCHANGED <<closed, pings, requested, sentMempool, download, connectFailureCount,
                   syncing, height, callers, world>>

\* _peerConnected: the node has not the services or the blocks asked for.
Unsuitable(p) ==
    /\ peer[p] = "connected"
    /\ Fault
    /\ peer' = [peer EXCEPT ![p] = "serving"]
    /\ closed' = closed \cup {p}
    /\ UNCHANGED <<lastblock, pings, requested, sentMempool, download, connectFailureCount,
                   syncing, height, callers, reachable, disconnect, mishaps, calls>>

\* Mutant: any peer that is ahead of us takes over.
SticksWhenSynced(p) == downloadPeer # None /\ height >= lastblock[p]

\* "check if we should stick with the existing download peer"
Sticks(p) == /\ downloadPeer # None
             /\ \/ lastblock[downloadPeer] >= lastblock[p]
                \/ height >= lastblock[p]

StickWithDownloadPeer(p) ==
    /\ peer[p] = "connected"
    /\ Sticks(p)
    /\ peer' = [peer EXCEPT ![p] = "serving"]
    /\ \/ /\ height >= lastblock[p]
          /\ connectFailureCount' = 0
          /\ LoadFilter({p})
          /\ SendMempool({}, sentMempool \ {p})
       \/ /\ height < lastblock[p]
          /\ UNCHANGED <<connectFailureCount, pings, requested, sentMempool>>
    /\ UNCHANGED <<closed, lastblock, download, syncing, height, callers, world>>

\* Mutant: the status of the peer is not looked at.
BestOfAll(q) == /\ q \in connectedPeers
                /\ \A r \in connectedPeers : lastblock[r] <= lastblock[q]

\* A connected peer with the highest block; the ping times decide between equals.
Best(q) == q \in Connected /\ \A r \in Connected : lastblock[r] <= lastblock[q]

SelectDownloadPeer(p) ==
    /\ peer[p] = "connected"
    /\ ~Sticks(p)
    /\ peer' = [peer EXCEPT ![p] = "serving"]
    /\ \E q \in Peers :
          /\ Best(q)
          /\ downloadPeer' = q
          /\ isConnected' = TRUE
          /\ estimatedHeight' = lastblock[q]
          /\ \/ /\ height < lastblock[q]
                /\ sentMempool' = sentMempool \ {q}
                /\ UNCHANGED <<connectFailureCount, pings, requested>>
             \/ /\ height >= lastblock[q]
                /\ connectFailureCount' = 0
                /\ LoadMempools(q, sentMempool \ {q})
    /\ closed' = closed \cup ({downloadPeer} \cap WithSocket)
    /\ UNCHANGED <<lastblock, syncing, height, callers, world>>

\* _peerRelayedBlock: a block that extends the chain.
RelayedBlock(p) ==
    /\ peer[p] = "serving"
    /\ height < MaxHeight
    /\ height' = height + 1
    /\ \/ /\ height' < estimatedHeight
          /\ connectFailureCount' = IF p = downloadPeer THEN 0 ELSE connectFailureCount
          /\ UNCHANGED <<pings, requested, sentMempool, estimatedHeight>>
       \/ /\ height' = estimatedHeight
          /\ LoadMempools(downloadPeer, sentMempool)
          /\ UNCHANGED <<connectFailureCount, estimatedHeight>>
       \/ /\ height' > estimatedHeight
          /\ estimatedHeight' = height'
          /\ UNCHANGED <<connectFailureCount, pings, requested, sentMempool>>
    /\ UNCHANGED <<peer, closed, lastblock, downloadPeer, isConnected, syncing, callers, world>>

\* A download peer that was asked for blocks sends those it has.
Downloads(p) == p = downloadPeer /\ height < lastblock[p] /\ RelayedBlock(p)

\* The pong that _loadBloomFilterDone waits for.
FilterLoaded(p) ==
    /\ peer[p] = "serving"
    /\ pings[p] > 0
    /\ pings' = [pings EXCEPT ![p] = @ - 1]
    /\ SendMempool({p}, sentMempool)
    /\ UNCHANGED <<peer, closed, lastblock, download, connectFailureCount, syncing, height,
                   callers, world>>

\* _mempoolDone(TRUE): "sync succeeded".
MempoolDone(p) ==
    /\ peer[p] = "serving"
    /\ p \in requested
    /\ requested' = requested \ {p}
    /\ syncing' = FALSE
    /\ UNCHANGED <<peer, closed, lastblock, pings, sentMempool, download,
                   connectFailureCount, height, callers, world>>

\* The thread leaves its loop: the manager closed the socket,
EndsClosed(p) ==
    /\ peer[p] \in {"open", "serving"}
    /\ p \in closed
    /\ peer' = [peer EXCEPT ![p] = "leaving"]
    /\ UNCHANGED <<link, download, connectFailureCount, syncing, height, callers, world>>

\* or the node refuses, errs, goes silent or hangs up.
Fails(p) ==
    /\ peer[p] \in {"opening", "open", "serving"}
    /\ Fault
    /\ peer' = [peer EXCEPT ![p] = "leaving"]
    /\ UNCHANGED <<link, download, connectFailureCount, syncing, height, callers, reachable,
                   disconnect, mishaps, calls>>

\* The pong callbacks are called with 0: _loadBloomFilterDone(FALSE) takes the
\* sync for done when it is the download peer's.
PongCanceled(p) ==
    /\ peer[p] = "leaving"
    /\ pings[p] > 0
    /\ pings' = [pings EXCEPT ![p] = @ - 1]
    /\ syncing' = (syncing /\ p # downloadPeer)
    /\ UNCHANGED <<peer, closed, lastblock, requested, sentMempool, download,
                   connectFailureCount, height, callers, world>>

\* _mempoolDone(FALSE) only logs.
MempoolCanceled(p) ==
    /\ peer[p] = "leaving"
    /\ pings[p] = 0
    /\ p \in requested
    /\ requested' = requested \ {p}
    /\ UNCHANGED <<peer, closed, lastblock, pings, sentMempool, download,
                   connectFailureCount, syncing, height, callers, world>>

\* Mutant: the count passes the limit, where "= limit" no longer holds.
Uncapped(count, p) == count

\* Only a download peer's end brings the count down to the limit.
Capped(count, p) ==
    IF p = downloadPeer /\ count > MAX_CONNECT_FAILURES THEN MAX_CONNECT_FAILURES ELSE count

\* _peerDisconnected.  A socket that the manager closed reads as an end of
\* file, as a bad descriptor, or is not read again, which is no error.
Disconnected(p) ==
    /\ peer[p] = "leaving"
    /\ pings[p] = 0
    /\ p \notin requested
    /\ \E error \in {"none", "EPROTO", "other"} :
          /\ error = "none" => p \in closed
          /\ connectFailureCount' =
               Capped(IF error = "other" THEN connectFailureCount + 1 ELSE connectFailureCount, p)
    /\ downloadPeer' = IF p = downloadPeer THEN None ELSE downloadPeer
    /\ isConnected' = (isConnected /\ p # downloadPeer)
    /\ syncing' = (syncing /\ (isConnected' \/ connectFailureCount' # MAX_CONNECT_FAILURES))
    /\ threads' = [threads EXCEPT !["begin"] =
                      IF connectFailureCount' < MAX_CONNECT_FAILURES THEN @ + 1 ELSE @]
    /\ peer' = [peer EXCEPT ![p] = "none"]
    /\ closed' = closed \ {p}
    /\ sentMempool' = sentMempool \ {p}
    /\ lastblock' = [lastblock EXCEPT ![p] = 0]
    /\ UNCHANGED <<pings, requested, estimatedHeight, height, app, world>>

-----------------------------------------------------------------------------
(* The application and the network *)

\* The application's calls come one after the other.
AppConnect ==
    /\ app = "idle" /\ disconnect # "waiting"
    /\ calls < MaxCalls
    /\ calls' = calls + 1
    /\ app' = "begin"
    /\ disconnect' = "idle"
    /\ UNCHANGED <<peer, link, download, connectFailureCount, syncing, height, threads,
                   reachable, mishaps, faults>>

\* "prevent futher automatic reconnect attempts"
AppDisconnect ==
    /\ app = "idle" /\ disconnect # "waiting"
    /\ "disconnect" \notin mishaps         \* bound: once
    /\ connectFailureCount' = IF connectedPeers = {} THEN connectFailureCount
                              ELSE MAX_CONNECT_FAILURES
    /\ closed' = closed \cup WithSocket
    /\ disconnect' = "waiting"
    /\ Happened({"disconnect"}) /\ Fault
    /\ UNCHANGED <<peer, lastblock, pings, requested, sentMempool, download, syncing, height,
                   callers, reachable, calls>>

DisconnectReturns ==
    /\ disconnect = "waiting"
    /\ connectedPeers = {}
    /\ disconnect' = "returned"
    /\ UNCHANGED <<peer, link, download, connectFailureCount, syncing, height, callers,
                   reachable, mishaps, faults, calls>>

\* The application has to call BRPeerManagerConnect when it is back.
NetworkChanges ==
    /\ reachable' = ~reachable
    /\ Happened({"network"}) /\ Fault
    /\ UNCHANGED <<peer, link, download, connectFailureCount, syncing, height, callers,
                   disconnect, calls>>

ConnectStep == ConnectStartsSync \/ ConnectAgain \/ ConnectStarted \/ AddPeers

PeerStep(p) ==
    \/ SocketOpens(p) \/ Handshake(p)
    \/ StickWithDownloadPeer(p) \/ SelectDownloadPeer(p)
    \/ Downloads(p) \/ FilterLoaded(p) \/ MempoolDone(p)
    \/ EndsClosed(p) \/ PongCanceled(p) \/ MempoolCanceled(p) \/ Disconnected(p)

ThreadStep == ConnectStep \/ (\E p \in Peers : PeerStep(p)) \/ DisconnectReturns

Next ==
    \/ ThreadStep
    \/ \E p \in Peers : Unsuitable(p) \/ Fails(p) \/ RelayedBlock(p)
    \/ AppConnect \/ AppDisconnect \/ NetworkChanges

Spec == Init /\ [][Next]_vars /\ WF_vars(ThreadStep)

-----------------------------------------------------------------------------
(* Properties *)

\* The types; no more than maxConnectCount peers are connected at once, with
\* calls of BRPeerManagerConnect under way in several threads and the lock let
\* go of between the count and the new peers; what is kept of a peer is kept
\* while it is connected.
TypeOK ==
    /\ peer \in [Peers -> PeerStates]
    /\ Cardinality(connectedPeers) <= MaxConnectCount
    /\ closed \subseteq connectedPeers
    /\ lastblock \in [Peers -> 0 .. MaxHeight]
    /\ pings \in [Peers -> Nat]
    /\ requested \subseteq Connected \cup {p \in Peers : peer[p] = "leaving"}
    /\ sentMempool \subseteq connectedPeers
    /\ downloadPeer \in Peers \cup {None}
    /\ isConnected \in BOOLEAN
    /\ connectFailureCount \in Nat
    /\ syncing \in BOOLEAN
    /\ height \in 0 .. MaxHeight
    /\ estimatedHeight \in 0 .. MaxHeight
    /\ reachable \in BOOLEAN
    /\ threads \in [Stages -> Nat]
    /\ app \in Stages \cup {"idle"}
    /\ disconnect \in {"idle", "waiting", "returned"}
    /\ mishaps \subseteq Mishaps

\* The download peer is one of the connected peers, past its handshake and not
\* freed, for as long as the manager uses it, and isConnected says that there
\* is one: _peerConnected may pick another peer than the one that connected,
\* whose own thread is ending (BRPeerManager.c:798-810, 877-881).
DownloadConnected ==
    /\ isConnected <=> downloadPeer # None
    /\ downloadPeer # None => peer[downloadPeer] \in {"connected", "serving", "leaving"}

\* As long as the application thinks that a sync is under way and has not
\* disconnected, a call of BRPeerManagerConnect is running or a peer is there
\* whose thread goes on with it: the last peer to fail reports the end of the
\* sync or connects again (BRPeerManager.c:883-892, 1802-1807).
SyncHasWorker ==
    syncing /\ "disconnect" \notin mishaps =>
        app # "idle" \/ (\E s \in Stages : threads[s] > 0) \/ connectedPeers # {}

\* The application takes BRPeerManagerDisconnect to have ended all connections
\* for good when it returns, and frees the manager then: no peer connects until
\* it calls BRPeerManagerConnect (BRPeerManager.c:1822, BRPeerManager.h:147,
\* PeerManager.c:518-520).  The code does not keep this: the thread of a peer
\* that failed before connects again, and that resets the failure count.
NoReconnect == disconnect = "returned" => connectedPeers = {}

\* While the download peer is connected, only a peer with a higher block takes
\* its place, however the threads of connecting peers follow each other, so
\* that a download is not handed back and forth (BRPeerManager.c:784-810).
BetterDownloadPeer ==
    [][downloadPeer # None /\ downloadPeer' \notin {None, downloadPeer} =>
           lastblock[downloadPeer'] > lastblock[downloadPeer]]_vars

\* A sync that was reported as started is reported as stopped, with success
\* or failure, whichever connections fail and whenever, unless one of the
\* mishaps occurs: the failures are counted up to the limit although some of
\* them come when there is a download peer (BRPeerManager.c:861, 877-892).
SyncEnds == syncing ~> ~syncing \/ mishaps # {}

=============================================================================
