-------------------------- MODULE BRPeerPoolProofs --------------------------
(***************************************************************************)
(* The pool never holds more peers than it should, its download peer is    *)
(* one of them, a sync that is under way has somebody to go on with it,    *)
(* and a download peer gives way to better ones only.  For any nodes,      *)
(* limits and numbers of failures and calls.                               *)
(***************************************************************************)
EXTENDS BRPeerPool, FiniteSetTheorems, TLAPS

\* The count of failures is at the limit only with a download peer, whose end
\* will report the end of the sync.
LimitReported ==
    syncing /\ "disconnect" \notin mishaps /\ ~isConnected =>
        connectFailureCount < MAX_CONNECT_FAILURES

IInv == TypeOK /\ DownloadConnected /\ LimitReported /\ SyncHasWorker

USE PoolAssumption

Callers == app # "idle" \/ \E s \in Stages : threads[s] > 0

\* A call keeps its types wherever it goes, and is still there if it goes on.
LEMMA GoesTyped ==
    ASSUME threads \in [Stages -> Nat], app \in Stages \cup {"idle"},
           NEW from \in Stages, NEW to \in Stages \cup {"idle"}, from # to,
           Goes(from, to)
    PROVE  /\ threads' \in [Stages -> Nat]
           /\ app' \in Stages \cup {"idle"}
           /\ to # "idle" => Callers'
<1>1. CASE threads[from] > 0 /\ UNCHANGED app
             /\ threads' = [s \in Stages |-> IF s = from THEN threads[s] - 1
                                       ELSE IF s = to THEN threads[s] + 1 ELSE threads[s]]
  <2>1. \A s \in Stages : threads'[s] \in Nat
    BY <1>1
  <2>2. threads' \in [Stages -> Nat]
    BY <1>1, <2>1
  <2>3. to \in Stages => threads'[to] > 0
    BY <1>1
  <2> QED
    BY <1>1, <2>2, <2>3 DEF Callers
<1>2. CASE app = from /\ app' = to /\ UNCHANGED threads
  BY <1>2 DEF Callers
<1> QED
  BY <1>1, <1>2 DEF Goes

\* The peers that are tried are connected or about to be; the others stay.
LEMMA AttemptTyped ==
    ASSUME peer \in [Peers -> PeerStates], NEW chosen \in SUBSET Peers, NEW failing,
           Attempt(chosen, failing)
    PROVE  /\ peer' \in [Peers -> PeerStates]
           /\ connectedPeers' = connectedPeers \cup chosen
           /\ \A q \in Peers \ chosen : peer'[q] = peer[q]
  BY DEF Attempt, PeerStates, connectedPeers

LEMMA FinitePeers == \A S \in SUBSET Peers : IsFiniteSet(S) /\ Cardinality(S) \in Nat
<1> TAKE S \in SUBSET Peers
<1> QED
  BY FS_Subset, FS_CardinalityType

\* Chosen peers fit in.
LEMMA ChosenFit ==
    ASSUME NEW new, Chosen(new)
    PROVE  Cardinality(connectedPeers \cup new) <= MaxConnectCount
<1>1. connectedPeers \subseteq Peers /\ new \subseteq Peers /\ connectedPeers \cap new = {}
  BY DEF connectedPeers, Chosen
<1>2. IsFiniteSet(connectedPeers) /\ IsFiniteSet(new)
  BY <1>1, FinitePeers
<1>3. Cardinality(connectedPeers) \in Nat /\ Cardinality(new) \in Nat
  BY <1>1, FinitePeers
<1>4. Cardinality(connectedPeers \cup new) = Cardinality(connectedPeers) + Cardinality(new)
  <2>1. Cardinality(connectedPeers \cup new) =
           Cardinality(connectedPeers) + Cardinality(new) - Cardinality(connectedPeers \cap new)
    BY <1>2, FS_Union
  <2>2. Cardinality(connectedPeers \cap new) = 0
    BY <1>1, FS_EmptySet
  <2> QED
    BY <2>1, <2>2, <1>3
<1> QED
  BY <1>3, <1>4 DEF Chosen, Room

LEMMA InitIInv == ASSUME Init PROVE IInv
<1>1. connectedPeers = {} /\ Connected = {} /\ Cardinality(connectedPeers) = 0
  BY FS_EmptySet DEF Init, connectedPeers, Connected
<1>2. 0 \in 0 .. MaxHeight /\ 0 <= MaxConnectCount
  OBVIOUS
<1>3. peer \in [Peers -> PeerStates] /\ threads \in [Stages -> Nat]
  BY DEF Init, PeerStates
<1>4. lastblock \in [Peers -> 0 .. MaxHeight] /\ pings \in [Peers -> Nat]
  BY <1>2 DEF Init
<1>5. TypeOK
  BY <1>1, <1>2, <1>3, <1>4 DEF Init, TypeOK
<1> QED
  BY <1>5 DEF Init, IInv, DownloadConnected, LimitReported, SyncHasWorker

-----------------------------------------------------------------------------
(* BRPeerManagerConnect *)

\* What a stage of BRPeerManagerConnect that tries peers keeps.
LEMMA AttemptKeeps ==
    ASSUME IInv, NEW chosen \in SUBSET Peers, NEW failing, Attempt(chosen, failing),
           \A q \in chosen : peer[q] \in {"none", "waiting"},
           Cardinality(connectedPeers \cup chosen) <= MaxConnectCount,
           UNCHANGED <<link, download, height>>
    PROVE  /\ peer' \in [Peers -> PeerStates]
           /\ Cardinality(connectedPeers') <= MaxConnectCount
           /\ closed' \subseteq connectedPeers'
           /\ requested' \subseteq (Connected \cup {p \in Peers : peer[p] = "leaving"})'
           /\ sentMempool' \subseteq connectedPeers'
           /\ DownloadConnected'
           /\ connectedPeers \subseteq connectedPeers'
<1>1. /\ peer' \in [Peers -> PeerStates]
      /\ connectedPeers' = connectedPeers \cup chosen
      /\ \A q \in Peers \ chosen : peer'[q] = peer[q]
  BY AttemptTyped DEF IInv, TypeOK
<1>2. (Connected \cup {p \in Peers : peer[p] = "leaving"}) \cap chosen = {}
  BY DEF Connected
<1>3. requested' \subseteq (Connected \cup {p \in Peers : peer[p] = "leaving"})'
  <2> SUFFICES ASSUME NEW q \in requested
               PROVE  q \in (Connected \cup {p \in Peers : peer[p] = "leaving"})'
    BY DEF link
  <2>1. q \in Peers \ chosen /\ q \in Connected \cup {p \in Peers : peer[p] = "leaving"}
    BY <1>2 DEF IInv, TypeOK, Connected
  <2> QED
    BY <1>1, <2>1 DEF Connected
<1>4. DownloadConnected'
  <2>1. downloadPeer # None => downloadPeer \in Peers \ chosen
    BY DEF IInv, TypeOK, DownloadConnected
  <2> QED
    BY <1>1, <2>1 DEF IInv, DownloadConnected, download
<1> QED
  BY <1>1, <1>3, <1>4 DEF IInv, TypeOK, link

LEMMA ContinueKeeps ==
    ASSUME IInv, NEW from \in {"begin", "started"}, Continue(from),
           UNCHANGED <<link, download, height, reachable, disconnect>>,
           connectFailureCount' \in Nat, connectFailureCount' <= connectFailureCount
    PROVE  IInv'
<1> PICK failing \in SUBSET Peers, new \in SUBSET Peers :
        /\ Attempt(Waiting \cup new, failing)
        /\ Happened(Threadless(failing))
        /\ \/ Full /\ new = {} /\ Goes(from, "idle") /\ StopsWithout
           \/ ~Full /\ Chosen(new) /\ ~Short(new) /\ Goes(from, "idle") /\ StopsWithout
           \/ ~Full /\ new = {} /\ Goes(from, "finding") /\ UNCHANGED syncing
  BY DEF Continue
<1>1. new = {} \/ Chosen(new)
  OBVIOUS
<1>2. Waiting \subseteq connectedPeers /\ Waiting \cup new \in SUBSET Peers
  BY DEF Waiting, connectedPeers
<1>3. Cardinality(connectedPeers \cup (Waiting \cup new)) <= MaxConnectCount
  <2>1. connectedPeers \cup (Waiting \cup new) = connectedPeers \cup new
    BY <1>2
  <2>2. CASE new = {}
    BY <2>1, <2>2 DEF IInv, TypeOK
  <2>3. CASE Chosen(new)
    BY <2>1, <2>3, ChosenFit
  <2> QED
    BY <1>1, <2>2, <2>3
<1>4. \A q \in Waiting \cup new : peer[q] \in {"none", "waiting"}
  BY <1>1 DEF Waiting, Chosen, connectedPeers
<1>5. /\ peer' \in [Peers -> PeerStates]
      /\ Cardinality(connectedPeers') <= MaxConnectCount
      /\ closed' \subseteq connectedPeers'
      /\ requested' \subseteq (Connected \cup {p \in Peers : peer[p] = "leaving"})'
      /\ sentMempool' \subseteq connectedPeers'
      /\ DownloadConnected'
      /\ connectedPeers \subseteq connectedPeers'
  BY <1>2, <1>3, <1>4, AttemptKeeps
<1>6. PICK to \in {"idle", "finding"} :
        /\ Goes(from, to)
        /\ to = "idle" => StopsWithout
        /\ to = "finding" => UNCHANGED syncing
  OBVIOUS
<1>7. /\ threads' \in [Stages -> Nat]
      /\ app' \in Stages \cup {"idle"}
      /\ to # "idle" => Callers'
  <2>1. from \in Stages /\ to \in Stages \cup {"idle"} /\ from # to
    BY DEF Stages
  <2> QED
    BY <1>6, <2>1, GoesTyped DEF IInv, TypeOK
<1>8. syncing' \in BOOLEAN /\ (syncing' => syncing)
  <2>1. CASE to = "idle"
    BY <1>6, <2>1 DEF StopsWithout
  <2>2. CASE to = "finding"
    BY <1>6, <2>2 DEF IInv, TypeOK
  <2> QED
    BY <2>1, <2>2
<1>9. TypeOK'
  BY <1>5, <1>7, <1>8 DEF IInv, TypeOK, Happened, link, download
<1>10. LimitReported'
  BY <1>8 DEF IInv, LimitReported, Happened, download, TypeOK
<1>11. SyncHasWorker'
  <2>1. CASE to = "idle"
    BY <1>6, <2>1 DEF StopsWithout, SyncHasWorker
  <2>2. CASE to = "finding"
    BY <1>7, <2>2 DEF SyncHasWorker, Callers
  <2> QED
    BY <2>1, <2>2
<1> QED
  BY <1>5, <1>9, <1>10, <1>11 DEF IInv

LEMMA ManualRetryTyped ==
    ASSUME connectFailureCount \in Nat, ManualRetry
    PROVE  /\ connectFailureCount' \in Nat
           /\ connectFailureCount' <= connectFailureCount
           /\ connectFailureCount' < MAX_CONNECT_FAILURES
  BY DEF ManualRetry

LEMMA ConnectKeeps == ASSUME IInv, ConnectStep PROVE IInv'
<1>0. connectFailureCount \in Nat
  BY DEF IInv, TypeOK
<1>1. CASE ConnectStartsSync
  <2>1. connectFailureCount' \in Nat /\ connectFailureCount' < MAX_CONNECT_FAILURES
    BY <1>0, <1>1, ManualRetryTyped DEF ConnectStartsSync
  <2>2. threads' \in [Stages -> Nat] /\ app' \in Stages \cup {"idle"} /\ Callers'
    <3>1. "begin" \in Stages /\ "started" \in Stages
      BY DEF Stages
    <3>2. "begin" # "started" /\ "started" # "idle" /\ Goes("begin", "started")
      BY <1>1 DEF ConnectStartsSync
    <3>3. "started" \in Stages \cup {"idle"}
      BY <3>1
    <3> QED
      BY <3>1, <3>2, <3>3, GoesTyped DEF IInv, TypeOK
  <2>3. TypeOK' /\ DownloadConnected'
    BY <1>1, <2>1, <2>2
       DEF ConnectStartsSync, IInv, TypeOK, DownloadConnected, connectedPeers, Connected,
           link, download, world
  <2> QED
    BY <2>1, <2>2, <2>3 DEF IInv, LimitReported, SyncHasWorker, Callers
<1>2. CASE ConnectAgain
  BY <1>0, <1>2, ManualRetryTyped, ContinueKeeps DEF ConnectAgain
<1>3. CASE ConnectStarted
  BY <1>0, <1>3, ContinueKeeps DEF ConnectStarted
<1>4. CASE AddPeers
  <2> PICK failing \in SUBSET Peers, new \in SUBSET Peers :
          /\ Chosen(new)
          /\ Attempt(new, failing)
          /\ Happened(Threadless(failing) \cup IF Short(new) THEN {"lookup"} ELSE {})
    BY <1>4 DEF AddPeers
  <2>1. \A q \in new : peer[q] \in {"none", "waiting"}
    BY DEF Chosen, connectedPeers
  <2>2. /\ peer' \in [Peers -> PeerStates]
        /\ Cardinality(connectedPeers') <= MaxConnectCount
        /\ closed' \subseteq connectedPeers'
        /\ requested' \subseteq (Connected \cup {p \in Peers : peer[p] = "leaving"})'
        /\ sentMempool' \subseteq connectedPeers'
        /\ DownloadConnected'
        /\ connectedPeers \subseteq connectedPeers'
    BY <1>4, <2>1, ChosenFit, AttemptKeeps DEF AddPeers
  <2>3. threads' \in [Stages -> Nat] /\ app' \in Stages \cup {"idle"}
    <3>1. "finding" \in Stages /\ "idle" \in Stages \cup {"idle"} /\ "finding" # "idle"
      BY DEF Stages
    <3> QED
      BY <1>4, <3>1, GoesTyped DEF AddPeers, IInv, TypeOK
  <2>4. syncing' \in BOOLEAN /\ (syncing' => syncing /\ connectedPeers' # {})
    BY <1>4 DEF AddPeers, StopsWithout, IInv, TypeOK
  <2>5. TypeOK'
    BY <1>4, <2>2, <2>3, <2>4 DEF AddPeers, IInv, TypeOK, Happened, link, download
  <2>6. LimitReported'
    BY <1>4, <2>4 DEF AddPeers, IInv, LimitReported, Happened, download
  <2>7. SyncHasWorker'
    BY <2>4 DEF SyncHasWorker
  <2> QED
    BY <2>2, <2>5, <2>6, <2>7 DEF IInv
<1> QED
  BY <1>1, <1>2, <1>3, <1>4 DEF ConnectStep

-----------------------------------------------------------------------------
(* The peers' threads *)

\* A connected peer goes from one state to another.
LEMMA Moves ==
    ASSUME peer \in [Peers -> PeerStates], NEW p \in Peers, peer[p] # "none",
           NEW state \in PeerStates \ {"none"}, peer' = [peer EXCEPT ![p] = state]
    PROVE  /\ peer' \in [Peers -> PeerStates]
           /\ connectedPeers' = connectedPeers
           /\ peer'[p] = state
           /\ \A q \in Peers \ {p} : peer'[q] = peer[q]
  BY DEF connectedPeers

\* The peers that may have a mempool request under way.
Asked == Connected \cup {p \in Peers : peer[p] = "leaving"}

LEMMA LoadMempoolsTyped ==
    ASSUME pings \in [Peers -> Nat], NEW q, NEW sent \in SUBSET connectedPeers,
           requested \subseteq Asked, LoadMempools(q, sent)
    PROVE  /\ pings' \in [Peers -> Nat]
           /\ requested' \subseteq Asked
           /\ sentMempool' \subseteq connectedPeers
<1> PICK degraded \in BOOLEAN :
        LET asked == IF degraded THEN {} ELSE Connected \cap {q}
        IN  /\ LoadFilter(Connected \ asked)
            /\ SendMempool(asked, sent \ (Connected \ asked))
  BY DEF LoadMempools
<1> DEFINE asked == IF degraded THEN {} ELSE Connected \cap {q}
<1>1. asked \subseteq Connected /\ Connected \subseteq connectedPeers
  BY DEF Connected, connectedPeers
<1>2. LoadFilter(Connected \ asked) /\ SendMempool(asked, sent \ (Connected \ asked))
  OBVIOUS
<1> HIDE DEF asked
<1>3. pings' \in [Peers -> Nat]
  BY <1>2 DEF LoadFilter
<1> QED
  BY <1>1, <1>2, <1>3 DEF SendMempool, Asked

\* What changes in most steps of a thread: its peer's state, what is pending,
\* and the count, which only falls.
LEMMA ThreadKeeps ==
    ASSUME IInv, NEW p \in Peers, peer[p] # "none",
           NEW state \in {"open", "connected", "serving", "leaving"},
           state = "open" => p \notin requested /\ p # downloadPeer,
           peer' = [peer EXCEPT ![p] = state],
           closed' \subseteq connectedPeers,
           lastblock' \in [Peers -> 0 .. MaxHeight],
           pings' \in [Peers -> Nat],
           requested' \subseteq requested \cup (Connected \ {p}) \cup
                (IF state = "open" THEN {} ELSE {p}),
           sentMempool' \subseteq connectedPeers,
           connectFailureCount' \in Nat, connectFailureCount' <= connectFailureCount,
           height' \in 0 .. MaxHeight, estimatedHeight' \in 0 .. MaxHeight,
           syncing' \in BOOLEAN, syncing' => syncing,
           UNCHANGED <<downloadPeer, isConnected, threads, app, reachable, disconnect, mishaps>>
    PROVE  IInv'
<1>0. /\ peer \in [Peers -> PeerStates] /\ requested \subseteq Asked
      /\ connectFailureCount \in Nat
  BY DEF IInv, TypeOK, Asked
<1>1. /\ peer' \in [Peers -> PeerStates]
      /\ connectedPeers' = connectedPeers
      /\ peer'[p] = state
      /\ \A q \in Peers \ {p} : peer'[q] = peer[q]
  <2>1. state \in PeerStates \ {"none"}
    BY DEF PeerStates
  <2> QED
    BY <1>0, <2>1, Moves
<1>2. requested' \subseteq (Connected \cup {r \in Peers : peer[r] = "leaving"})'
  <2> SUFFICES ASSUME NEW q \in requested'
               PROVE  q \in (Connected \cup {r \in Peers : peer[r] = "leaving"})'
    OBVIOUS
  <2>1. CASE q = p
    <3>1. state # "open"
      BY <2>1
    <3> QED
      BY <1>1, <2>1, <3>1 DEF Connected
  <2>2. CASE q # p
    <3>1. q \in Asked
      BY <1>0, <2>2 DEF Asked
    <3> QED
      BY <1>1, <2>2, <3>1 DEF Asked, Connected
  <2> QED
    BY <2>1, <2>2
<1>3. TypeOK'
  BY <1>1, <1>2 DEF IInv, TypeOK
<1>4. DownloadConnected'
  <2>1. CASE downloadPeer = p
    BY <1>1, <2>1 DEF IInv, DownloadConnected
  <2>2. CASE downloadPeer # p
    BY <1>1, <2>2 DEF IInv, TypeOK, DownloadConnected
  <2> QED
    BY <2>1, <2>2
<1>5. LimitReported'
  BY <1>0 DEF IInv, LimitReported
<1>6. SyncHasWorker'
  BY <1>1 DEF IInv, SyncHasWorker
<1> QED
  BY <1>3, <1>4, <1>5, <1>6 DEF IInv

LEMMA ThreadStepKeeps ==
    ASSUME IInv, NEW p \in Peers,
           \/ SocketOpens(p) \/ Handshake(p) \/ StickWithDownloadPeer(p) \/ Unsuitable(p)
           \/ EndsClosed(p) \/ Fails(p)
    PROVE  IInv'
<1>0. /\ peer \in [Peers -> PeerStates] /\ closed \subseteq connectedPeers
      /\ lastblock \in [Peers -> 0 .. MaxHeight] /\ pings \in [Peers -> Nat]
      /\ sentMempool \subseteq connectedPeers
      /\ connectFailureCount \in Nat /\ connectFailureCount <= connectFailureCount
      /\ 0 <= connectFailureCount /\ syncing \in BOOLEAN
      /\ height \in 0 .. MaxHeight /\ estimatedHeight \in 0 .. MaxHeight
  BY DEF IInv, TypeOK
<1>1. CASE SocketOpens(p)
  <2>1. p \notin requested /\ p # downloadPeer
    BY <1>1 DEF SocketOpens, IInv, TypeOK, Connected, DownloadConnected
  <2> QED
    BY <1>0, <1>1, <2>1, ThreadKeeps DEF SocketOpens, link, download, callers, world
<1>2. CASE Handshake(p)
  <2>1. lastblock' \in [Peers -> 0 .. MaxHeight]
    BY <1>0, <1>2 DEF Handshake
  <2> QED
    BY <1>0, <1>2, <2>1, ThreadKeeps DEF Handshake, download, callers, world
<1>3. CASE StickWithDownloadPeer(p)
  <2>1. pings' \in [Peers -> Nat]
    BY <1>0, <1>3 DEF StickWithDownloadPeer, LoadFilter
  <2>2. requested' = requested /\ sentMempool' \subseteq connectedPeers
    BY <1>0, <1>3 DEF StickWithDownloadPeer, SendMempool
  <2>3. connectFailureCount' \in Nat /\ connectFailureCount' <= connectFailureCount
    BY <1>0, <1>3 DEF StickWithDownloadPeer
  <2> QED
    BY <1>0, <1>3, <2>1, <2>2, <2>3, ThreadKeeps
       DEF StickWithDownloadPeer, download, callers, world
<1>4. CASE Unsuitable(p)
  <2>1. closed' \subseteq connectedPeers
    BY <1>0, <1>4 DEF Unsuitable, connectedPeers
  <2> QED
    BY <1>0, <1>4, <2>1, ThreadKeeps DEF Unsuitable, download, callers
<1>5. CASE EndsClosed(p)
  BY <1>0, <1>5, ThreadKeeps DEF EndsClosed, link, download, callers, world
<1>6. CASE Fails(p)
  BY <1>0, <1>6, ThreadKeeps DEF Fails, link, download, callers
<1> QED
  BY <1>1, <1>2, <1>3, <1>4, <1>5, <1>6

\* The steps that leave the states of the peers alone.
LEMMA ServingKeeps ==
    ASSUME IInv, NEW p \in Peers,
           RelayedBlock(p) \/ FilterLoaded(p) \/ MempoolDone(p) \/ PongCanceled(p)
           \/ MempoolCanceled(p)
    PROVE  IInv'
<1>0. /\ peer \in [Peers -> PeerStates]
      /\ pings \in [Peers -> Nat] /\ requested \subseteq Asked
      /\ sentMempool \subseteq connectedPeers
      /\ connectFailureCount \in Nat /\ syncing \in BOOLEAN
      /\ height \in 0 .. MaxHeight /\ estimatedHeight \in 0 .. MaxHeight
  BY DEF IInv, TypeOK, Asked
<1>1. /\ pings' \in [Peers -> Nat]
      /\ requested' \subseteq Asked
      /\ sentMempool' \subseteq connectedPeers
  <2>1. CASE RelayedBlock(p)
    BY <1>0, <2>1, LoadMempoolsTyped DEF RelayedBlock
  <2>2. CASE FilterLoaded(p)
    BY <1>0, <2>2 DEF FilterLoaded, SendMempool, Asked, Connected, connectedPeers
  <2>3. CASE MempoolDone(p)
    BY <1>0, <2>3 DEF MempoolDone
  <2>4. CASE PongCanceled(p)
    BY <1>0, <2>4 DEF PongCanceled
  <2>5. CASE MempoolCanceled(p)
    BY <1>0, <2>5 DEF MempoolCanceled
  <2> QED
    BY <2>1, <2>2, <2>3, <2>4, <2>5
<1>2. /\ connectFailureCount' \in Nat /\ connectFailureCount' <= connectFailureCount
      /\ height' \in 0 .. MaxHeight /\ estimatedHeight' \in 0 .. MaxHeight
  <2>1. CASE RelayedBlock(p)
    BY <1>0, <2>1 DEF RelayedBlock
  <2>2. CASE ~RelayedBlock(p)
    BY <1>0, <2>2 DEF FilterLoaded, MempoolDone, PongCanceled, MempoolCanceled, download
  <2> QED
    BY <2>1, <2>2
<1>3. syncing' \in BOOLEAN /\ (syncing' => syncing)
  <2>1. CASE RelayedBlock(p) \/ FilterLoaded(p) \/ MempoolCanceled(p)
    BY <1>0, <2>1 DEF RelayedBlock, FilterLoaded, MempoolCanceled
  <2>2. CASE MempoolDone(p)
    BY <2>2 DEF MempoolDone
  <2>3. CASE PongCanceled(p)
    BY <2>3 DEF PongCanceled
  <2> QED
    BY <2>1, <2>2, <2>3
<1>4. UNCHANGED <<peer, closed, lastblock, downloadPeer, isConnected, callers, world>>
  BY DEF RelayedBlock, FilterLoaded, MempoolDone, PongCanceled, MempoolCanceled, download
<1>5. connectedPeers' = connectedPeers /\ Asked' = Asked
  BY <1>4 DEF connectedPeers, Asked, Connected
<1>6. TypeOK'
  BY <1>1, <1>2, <1>3, <1>4, <1>5 DEF IInv, TypeOK, Asked, callers, world
<1>7. DownloadConnected'
  BY <1>4 DEF IInv, DownloadConnected
<1>8. LimitReported' /\ SyncHasWorker'
  BY <1>0, <1>2, <1>3, <1>4, <1>5 DEF IInv, LimitReported, SyncHasWorker, callers, world
<1> QED
  BY <1>6, <1>7, <1>8 DEF IInv

LEMMA SelectKeeps == ASSUME IInv, NEW p \in Peers, SelectDownloadPeer(p) PROVE IInv'
<1>0. /\ peer \in [Peers -> PeerStates] /\ closed \subseteq connectedPeers
      /\ lastblock \in [Peers -> 0 .. MaxHeight] /\ pings \in [Peers -> Nat]
      /\ sentMempool \subseteq connectedPeers /\ requested \subseteq Asked
      /\ connectFailureCount \in Nat
  BY DEF IInv, TypeOK, Asked
<1>1. peer[p] = "connected" /\ peer' = [peer EXCEPT ![p] = "serving"]
  BY DEF SelectDownloadPeer
<1>2. /\ peer' \in [Peers -> PeerStates]
      /\ connectedPeers' = connectedPeers
      /\ peer'[p] = "serving"
      /\ \A r \in Peers \ {p} : peer'[r] = peer[r]
  <2>1. "serving" \in PeerStates \ {"none"} /\ peer[p] # "none"
    BY <1>1 DEF PeerStates
  <2> QED
    BY <1>0, <1>1, <2>1, Moves
<1>3. Asked' = Asked
  BY <1>1, <1>2 DEF Asked, Connected
<1>4. PICK q \in Peers :
          /\ Best(q)
          /\ downloadPeer' = q
          /\ isConnected' = TRUE
          /\ estimatedHeight' = lastblock[q]
          /\ \/ /\ height < lastblock[q]
                /\ sentMempool' = sentMempool \ {q}
                /\ UNCHANGED <<connectFailureCount, pings, requested>>
             \/ /\ height >= lastblock[q]
                /\ connectFailureCount' = 0
                /\ LoadMempools(q, sentMempool \ {q})
  BY DEF SelectDownloadPeer
<1>5. /\ pings' \in [Peers -> Nat]
      /\ requested' \subseteq Asked
      /\ sentMempool' \subseteq connectedPeers
      /\ connectFailureCount' \in Nat
  <2>1. sentMempool \ {q} \in SUBSET connectedPeers
    BY <1>0
  <2> QED
    BY <1>0, <1>4, <2>1, LoadMempoolsTyped
<1>6. closed' \subseteq connectedPeers
  BY <1>0 DEF SelectDownloadPeer, WithSocket, connectedPeers
<1>7. TypeOK'
  BY <1>2, <1>3, <1>4, <1>5, <1>6, <1>0
     DEF IInv, TypeOK, Asked, SelectDownloadPeer, callers, world
<1>8. DownloadConnected'
  <2>1. peer[q] \in {"connected", "serving"}
    BY <1>4 DEF Best, Connected
  <2>2. peer'[q] \in {"connected", "serving"}
    BY <1>2, <2>1
  <2> QED
    BY <1>4, <2>2 DEF DownloadConnected
<1>9. LimitReported'
  BY <1>4 DEF LimitReported
<1>10. SyncHasWorker'
  BY <1>1, <1>2 DEF SyncHasWorker, connectedPeers
<1> QED
  BY <1>7, <1>8, <1>9, <1>10 DEF IInv

\* A peer's end.
LEMMA DisconnectedKeeps == ASSUME IInv, NEW p \in Peers, Disconnected(p) PROVE IInv'
<1>0. /\ peer \in [Peers -> PeerStates] /\ closed \subseteq connectedPeers
      /\ lastblock \in [Peers -> 0 .. MaxHeight]
      /\ sentMempool \subseteq connectedPeers /\ requested \subseteq Asked
      /\ connectFailureCount \in Nat /\ threads \in [Stages -> Nat]
      /\ Cardinality(connectedPeers) <= MaxConnectCount
      /\ downloadPeer \in Peers \cup {None} /\ isConnected \in BOOLEAN
      /\ syncing \in BOOLEAN
  BY DEF IInv, TypeOK, Asked
<1>1. peer[p] = "leaving" /\ p \notin requested /\ peer' = [peer EXCEPT ![p] = "none"]
  BY DEF Disconnected
<1>2. /\ peer' \in [Peers -> PeerStates]
      /\ connectedPeers' = connectedPeers \ {p}
      /\ \A q \in Peers \ {p} : peer'[q] = peer[q]
  <2>1. "none" \in PeerStates
    BY DEF PeerStates
  <2> QED
    BY <1>0, <1>1, <2>1 DEF connectedPeers
<1>3. Cardinality(connectedPeers') <= MaxConnectCount
  <2>1. connectedPeers \in SUBSET Peers /\ connectedPeers' \in SUBSET connectedPeers
    BY <1>2 DEF connectedPeers
  <2>2. IsFiniteSet(connectedPeers) /\ Cardinality(connectedPeers) \in Nat
    BY <2>1, FinitePeers
  <2>3. Cardinality(connectedPeers') <= Cardinality(connectedPeers)
    BY <2>1, <2>2, FS_Subset
  <2>4. connectedPeers' \in SUBSET Peers
    BY <2>1
  <2>5. Cardinality(connectedPeers') \in Nat
    BY <2>4, FinitePeers
  <2> QED
    BY <1>0, <2>2, <2>3, <2>5
<1>4. requested' \subseteq Asked'
  BY <1>0, <1>1, <1>2 DEF Disconnected, Asked, Connected
<1>5. PICK error \in {"none", "EPROTO", "other"} :
        connectFailureCount' =
           Capped(IF error = "other" THEN connectFailureCount + 1 ELSE connectFailureCount, p)
  BY DEF Disconnected
<1>6. /\ connectFailureCount' \in Nat
      /\ connectFailureCount' <= connectFailureCount + 1
      /\ p = downloadPeer => connectFailureCount' <= MAX_CONNECT_FAILURES
  BY <1>0, <1>5 DEF Capped
<1>7. /\ threads' \in [Stages -> Nat]
      /\ connectFailureCount' < MAX_CONNECT_FAILURES => threads'["begin"] > 0
      /\ UNCHANGED app
  <2>1. "begin" \in Stages
    BY DEF Stages
  <2> QED
    BY <1>0, <2>1 DEF Disconnected
<1>8. /\ isConnected' \in BOOLEAN
      /\ isConnected' <=> isConnected /\ p # downloadPeer
  BY DEF Disconnected
<1>9. /\ syncing' \in BOOLEAN
      /\ syncing' <=> syncing /\ (isConnected' \/ connectFailureCount' # MAX_CONNECT_FAILURES)
  BY DEF Disconnected
<1>10. downloadPeer' = IF p = downloadPeer THEN None ELSE downloadPeer
  BY DEF Disconnected
<1>11. lastblock' \in [Peers -> 0 .. MaxHeight]
  <2>1. 0 \in 0 .. MaxHeight
    OBVIOUS
  <2> QED
    BY <1>0, <2>1 DEF Disconnected
<1>12. closed' \subseteq connectedPeers' /\ sentMempool' \subseteq connectedPeers'
  BY <1>0, <1>2 DEF Disconnected
<1>13. TypeOK'
  BY <1>0, <1>2, <1>3, <1>4, <1>6, <1>7, <1>8, <1>9, <1>10, <1>11, <1>12
     DEF IInv, TypeOK, Asked, Disconnected, world
<1>14. DownloadConnected'
  BY <1>0, <1>2, <1>8, <1>10 DEF IInv, DownloadConnected
<1>15. mishaps' = mishaps
  BY DEF Disconnected, world
<1>16. LimitReported'
  <2> SUFFICES ASSUME syncing', "disconnect" \notin mishaps, ~isConnected'
               PROVE  connectFailureCount' < MAX_CONNECT_FAILURES
    BY <1>15 DEF LimitReported
  <2>1. syncing /\ connectFailureCount' # MAX_CONNECT_FAILURES
    BY <1>9
  <2>2. CASE p = downloadPeer
    BY <1>6, <2>1, <2>2
  <2>3. CASE p # downloadPeer
    <3>1. connectFailureCount < MAX_CONNECT_FAILURES
      BY <1>8, <2>1, <2>3 DEF IInv, LimitReported
    <3> QED
      BY <1>0, <1>6, <2>1, <3>1
  <2> QED
    BY <2>2, <2>3
<1>17. SyncHasWorker'
  <2> SUFFICES ASSUME syncing', "disconnect" \notin mishaps
               PROVE  (\E s \in Stages : threads'[s] > 0) \/ connectedPeers' # {}
    BY <1>15 DEF SyncHasWorker
  <2>1. CASE isConnected'
    <3>1. downloadPeer' # None /\ downloadPeer' \in Peers
      BY <1>13, <1>14, <2>1 DEF DownloadConnected, TypeOK
    <3>2. peer'[downloadPeer'] # "none"
      BY <1>14, <3>1 DEF DownloadConnected
    <3> QED
      BY <3>1, <3>2 DEF connectedPeers
  <2>2. CASE ~isConnected'
    <3>1. connectFailureCount' < MAX_CONNECT_FAILURES
      BY <1>15, <1>16, <2>2 DEF LimitReported
    <3>2. "begin" \in Stages
      BY DEF Stages
    <3> QED
      BY <1>7, <3>1, <3>2
  <2> QED
    BY <2>1, <2>2
<1> QED
  BY <1>13, <1>14, <1>16, <1>17 DEF IInv

-----------------------------------------------------------------------------
(* The application and the network *)

LEMMA WorldKeeps ==
    ASSUME IInv, AppConnect \/ AppDisconnect \/ NetworkChanges \/ DisconnectReturns
                 \/ UNCHANGED vars
    PROVE  IInv'
<1>1. /\ UNCHANGED <<peer, lastblock, pings, requested, sentMempool, download, syncing,
                     height, threads>>
      /\ closed \subseteq closed'
  BY DEF AppConnect, AppDisconnect, NetworkChanges, DisconnectReturns, vars, link, callers
<1>2. connectedPeers' = connectedPeers /\ Connected' = Connected
  BY <1>1 DEF connectedPeers, Connected
<1>3. closed' \subseteq connectedPeers
  BY DEF AppConnect, AppDisconnect, NetworkChanges, DisconnectReturns, vars, link, WithSocket,
         connectedPeers, IInv, TypeOK
<1>4. connectFailureCount' \in Nat
  BY DEF AppConnect, AppDisconnect, NetworkChanges, DisconnectReturns, vars, IInv, TypeOK
<1>5. /\ app' \in Stages \cup {"idle"} /\ (app # "idle" => app' # "idle")
      /\ disconnect' \in {"idle", "waiting", "returned"}
      /\ reachable' \in BOOLEAN
  BY DEF AppConnect, AppDisconnect, NetworkChanges, DisconnectReturns, vars, callers, world,
         Stages, IInv, TypeOK
<1>6. mishaps \subseteq mishaps' /\ mishaps' \subseteq Mishaps
  BY DEF AppConnect, AppDisconnect, NetworkChanges, DisconnectReturns, vars, world,
         Happened, IInv, TypeOK
<1>7. "disconnect" \notin mishaps' => connectFailureCount' = connectFailureCount
  BY DEF AppConnect, AppDisconnect, NetworkChanges, DisconnectReturns, vars, Happened
<1>8. TypeOK'
  BY <1>1, <1>2, <1>3, <1>4, <1>5, <1>6 DEF IInv, TypeOK, download
<1>9. DownloadConnected'
  BY <1>1 DEF IInv, DownloadConnected, download
<1>10. LimitReported'
  BY <1>1, <1>6, <1>7 DEF IInv, LimitReported, download
<1>11. SyncHasWorker'
  BY <1>1, <1>2, <1>5, <1>6 DEF IInv, SyncHasWorker
<1> QED
  BY <1>8, <1>9, <1>10, <1>11 DEF IInv

-----------------------------------------------------------------------------
(* The theorems *)

LEMMA StepKeeps == ASSUME IInv, [Next]_vars PROVE IInv'
<1>1. CASE ConnectStep
  BY <1>1, ConnectKeeps
<1>2. ASSUME NEW p \in Peers, PeerStep(p) \/ Unsuitable(p) \/ Fails(p) \/ RelayedBlock(p)
      PROVE  IInv'
  <2>1. CASE SocketOpens(p) \/ Handshake(p) \/ StickWithDownloadPeer(p) \/ Unsuitable(p)
             \/ EndsClosed(p) \/ Fails(p)
    BY <2>1, ThreadStepKeeps
  <2>2. CASE RelayedBlock(p) \/ FilterLoaded(p) \/ MempoolDone(p) \/ PongCanceled(p)
             \/ MempoolCanceled(p)
    BY <2>2, ServingKeeps
  <2>3. CASE SelectDownloadPeer(p)
    BY <2>3, SelectKeeps
  <2>4. CASE Disconnected(p)
    BY <2>4, DisconnectedKeeps
  <2> QED
    BY <1>2, <2>1, <2>2, <2>3, <2>4 DEF PeerStep, Downloads
<1>3. CASE AppConnect \/ AppDisconnect \/ NetworkChanges \/ DisconnectReturns
           \/ UNCHANGED vars
  BY <1>3, WorldKeeps
<1> QED
  BY <1>1, <1>2, <1>3 DEF Next, ThreadStep

\* The inductive invariant holds throughout.
THEOREM PoolInvariant == Spec => []IInv
<1>1. Init => IInv
  BY InitIInv
<1>2. IInv /\ [Next]_vars => IInv'
  BY StepKeeps
<1> QED
  BY <1>1, <1>2, PTL DEF Spec

\* There are never more than maxConnectCount peers, and what is kept of a peer
\* is kept of a connected one.
THEOREM PoolTyped == Spec => []TypeOK
<1>1. IInv => TypeOK
  BY DEF IInv
<1> QED
  BY <1>1, PoolInvariant, PTL

\* The download peer is one of the connected peers.
THEOREM DownloadPeerConnected == Spec => []DownloadConnected
<1>1. IInv => DownloadConnected
  BY DEF IInv
<1> QED
  BY <1>1, PoolInvariant, PTL

\* A sync that is under way is never left with nobody to go on with it, unless
\* the application has disconnected.
THEOREM SyncNotAbandoned == Spec => []SyncHasWorker
<1>1. IInv => SyncHasWorker
  BY DEF IInv
<1> QED
  BY <1>1, PoolInvariant, PTL

\* A download peer is only replaced by a peer with a higher block.
THEOREM DownloadPeerImproves == Spec => BetterDownloadPeer
<1> DEFINE Better == downloadPeer # None /\ downloadPeer' \notin {None, downloadPeer} =>
                        lastblock[downloadPeer'] > lastblock[downloadPeer]
<1>1. IInv /\ [Next]_vars => [Better]_vars
  <2> SUFFICES ASSUME IInv, Next PROVE Better
    BY DEF vars
  <2>1. ASSUME NEW p \in Peers, SelectDownloadPeer(p) PROVE Better
    <3>1. /\ lastblock \in [Peers -> 0 .. MaxHeight] /\ height \in Nat
          /\ downloadPeer \in Peers \cup {None}
      BY DEF IInv, TypeOK
    <3>2. PICK q \in Peers : Best(q) /\ downloadPeer' = q
      BY <2>1 DEF SelectDownloadPeer
    <3>3. lastblock[p] <= lastblock[q]
      BY <2>1, <3>2 DEF SelectDownloadPeer, Best, Connected
    <3>4. lastblock[p] \in Nat /\ lastblock[q] \in Nat
      BY <3>1
    <3>5. downloadPeer # None => ~(lastblock[downloadPeer] >= lastblock[p])
      BY <2>1 DEF SelectDownloadPeer, Sticks
    <3>6. downloadPeer # None => lastblock[downloadPeer] \in Nat
      BY <3>1
    <3> QED
      BY <3>2, <3>3, <3>4, <3>5, <3>6
  <2>2. CASE ~\E p \in Peers : SelectDownloadPeer(p)
    <3>1. downloadPeer' \in {None, downloadPeer}
      BY <2>2 DEF Next, ThreadStep, PeerStep, ConnectStep, ConnectStartsSync, ConnectAgain,
             ConnectStarted, AddPeers, SocketOpens, Handshake, StickWithDownloadPeer,
             Downloads, RelayedBlock, FilterLoaded, MempoolDone, EndsClosed, PongCanceled,
             MempoolCanceled, Disconnected, DisconnectReturns, Unsuitable, Fails, AppConnect,
             AppDisconnect, NetworkChanges, download
    <3> QED
      BY <3>1
  <2> QED
    BY <2>1, <2>2
<1>2. IInv /\ [Next]_vars => [downloadPeer # None /\ downloadPeer' \notin {None, downloadPeer} =>
                        lastblock[downloadPeer'] > lastblock[downloadPeer]]_vars
  BY <1>1
<1> QED
  BY <1>2, PoolInvariant, PTL DEF Spec, BetterDownloadPeer

=============================================================================
