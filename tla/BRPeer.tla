------------------------------- MODULE BRPeer -------------------------------
(***************************************************************************)
(* One connection to a node (BRPeer.c): its socket, the handshake, what    *)
(* was announced and asked for, the merkleblock that is being collected,   *)
(* the callbacks that wait for a pong or for the mempool, the time limits, *)
(* and the end of its thread.                                              *)
(*                                                                         *)
(* The node may send any message at any time; the peer's thread reads      *)
(* them.  The other threads reach the peer through the calls of the        *)
(* manager, at any moment between two of its steps until it has left: some *)
(* of them look at its status first, others (BRPeerManager.c:401, 424) do  *)
(* not.  A read or a write of one field, and of one array, is atomic.      *)
(* Messages that change nothing here but may make the peer reply (addr,    *)
(* getaddr, getdata, notfound, ping, reject, feefilter, headers) are one   *)
(* action, Answer.                                                         *)
(***************************************************************************)
EXTENDS Naturals, Sequences, FiniteSets, SequencesExt

CONSTANTS
    Txs, Blocks,        \* hashes
    Matched,            \* Matched[b]: the transactions of merkleblock b
    Mempool,            \* the transactions that are announced or published
    Invs,               \* the sequences of blocks announced in one message
    Callbacks,          \* completion callbacks, each for one request
    MaxKnown,           \* MAX_GETDATA_HASHES
    MaxAnnounced        \* bound: blocks announced on one connection

None == "none"

ASSUME PeerAssumption ==
    /\ None \notin Blocks
    /\ None \notin Callbacks
    /\ Matched \in [Blocks -> SUBSET Txs]
    /\ Mempool \subseteq Txs
    /\ <<>> \in Invs /\ Invs \subseteq Seq(Blocks)
    /\ MaxKnown \in Nat \ {0, 1}

VARIABLES
    thread,             \* where the peer's thread stands
    status,             \* what BRPeerConnectStatus reports
    waitingForNetwork,
    socket,             \* ctx->socket is a descriptor, not -1
    disconnectTime,     \* the time limit of the handshake runs
    handshake,          \* sentVerack, gotVerack; "connected" was called
    sent,               \* sentFilter, sentMempool, sentGetdata
    needsFilterUpdate,
    knownBlocks,        \* knownBlockHashes
    lastBlockHash,
    announced,          \* history: every block hash that was counted
    knownTxs,           \* knownTxHashSet
    currentBlock,
    missing,            \* currentBlockTxHashes
    collected,          \* history: the transactions that came since currentBlock
    pongs,              \* pongCallback, first in first out
    mempool,            \* mempoolCallback
    mempoolTime,        \* there is one
    given,              \* history: the callbacks handed to the peer
    late,               \* those handed over when it was leaving
    answers             \* how often each callback was called

conn == <<status, waitingForNetwork, socket, disconnectTime, handshake>>
chain == <<needsFilterUpdate, knownBlocks, lastBlockHash, announced>>
block == <<currentBlock, missing, collected>>
calls == <<pongs, mempool, mempoolTime, given, late, answers>>
data == <<sent, chain, knownTxs, block>>
vars == <<thread, conn, data, calls>>

Running == {"reading", "mempool", "timer", "ending", "closed", "draining", "leaving"}
Threads == {"none", "failed", "opening", "connecting", "connecting4", "ended"} \cup Running

-----------------------------------------------------------------------------
(* Parts of the handlers *)

\* BRPeerSendMessage: an error or the time limit disconnects.
Send ==
    /\ socket' \in {socket, FALSE}
    /\ UNCHANGED <<status, waitingForNetwork, disconnectTime, handshake>>

\* The thread takes the next message, which may be one that it had read before
\* the socket was closed; a merkleblock is being collected or not.
Reading == thread = "reading"
Whole == currentBlock = None

Answered(c) == answers' = [answers EXCEPT ![c] = @ + 1]

\* Mutant: hashes above the limit stay.
Untrimmed(hashes) == hashes
\* Mutant: hashes above the limit are dropped from the end.
TrimNewest(hashes) ==
    IF Len(hashes) > MaxKnown THEN SubSeq(hashes, 1, MaxKnown) ELSE hashes
\* knownBlockHashes above the limit loses its oldest third, and so on.
Trim(hashes) ==
    LET trim[n \in Nat] ==
            LET left == Len(hashes) - n
            IN  IF left > MaxKnown THEN trim[n + left \div 3] ELSE n
    IN  SubSeq(hashes, trim[0] + 1, Len(hashes))

-----------------------------------------------------------------------------
(* BRPeerNew, BRPeerConnect *)

Init ==
    /\ thread = "none"
    /\ status = "disconnected"
    /\ waitingForNetwork = FALSE
    /\ socket = FALSE
    /\ disconnectTime = FALSE
    /\ handshake = [sentVerack |-> FALSE, gotVerack |-> FALSE, done |-> FALSE]
    /\ sent = [filter |-> FALSE, mempool |-> FALSE, getdata |-> FALSE]
    /\ needsFilterUpdate = FALSE
    /\ knownBlocks = <<>>
    /\ lastBlockHash = None
    /\ announced = <<>>
    /\ knownTxs = {}
    /\ currentBlock = None
    /\ missing = {}
    /\ collected = {}
    /\ pongs = <<>>
    /\ mempool = None
    /\ mempoolTime = FALSE
    /\ given = {}
    /\ late = {}
    /\ answers = [c \in Callbacks |-> 0]

\* The manager connects a peer it has made, and again, while the network
\* cannot be reached, whenever the application asks.
Connect ==
    /\ thread = "none"
    /\ status = "disconnected" \/ waitingForNetwork
    /\ \/ /\ status' = "connecting"
          /\ waitingForNetwork' = TRUE
          /\ UNCHANGED <<thread, disconnectTime>>
       \/ /\ status' = "connecting"
          /\ waitingForNetwork' = FALSE
          /\ disconnectTime' = TRUE
          /\ thread' = "opening"
       \/ \* "error creating thread"
          /\ status' = "disconnected"
          /\ waitingForNetwork' = FALSE
          /\ disconnectTime' = TRUE
          /\ thread' = "failed"
    /\ UNCHANGED <<socket, handshake, data, calls>>

-----------------------------------------------------------------------------
(* _BRPeerOpenSocket and the start of _peerThreadRoutine *)

CreateSocket ==
    /\ thread = "opening"
    /\ thread' = "connecting"
    /\ socket' = TRUE
    /\ UNCHANGED <<status, waitingForNetwork, disconnectTime, handshake, data, calls>>

\* "fallback to IPv4": a second socket takes the place of the first, whether
\* or not that was disconnected.
Fallback ==
    /\ thread = "connecting"
    /\ thread' = "connecting4"
    /\ socket' = TRUE
    /\ UNCHANGED <<status, waitingForNetwork, disconnectTime, handshake, data, calls>>

\* The node accepts, and gets the version message.
SocketConnected ==
    /\ thread \in {"connecting", "connecting4"}
    /\ thread' = "reading"
    /\ Send
    /\ UNCHANGED <<data, calls>>

\* No socket, a refusal, or no answer in time.
OpenFails ==
    /\ thread \in {"opening", "connecting", "connecting4"}
    /\ thread' = "ending"
    /\ UNCHANGED <<conn, data, calls>>

-----------------------------------------------------------------------------
(* The handshake *)

\* It is acknowledged, and noted as acknowledged whether or not that went out.
AcceptVersion ==
    /\ Reading /\ Whole
    /\ handshake' = [handshake EXCEPT !.sentVerack = TRUE]
    /\ socket' \in {socket, FALSE}
    /\ UNCHANGED <<thread, status, waitingForNetwork, disconnectTime, data, calls>>

\* _BRPeerDidConnect is looked at here only: a verack before the version
\* message never completes the handshake.
AcceptVerack ==
    /\ Reading /\ Whole
    /\ ~handshake.gotVerack
    /\ IF handshake.sentVerack /\ status = "connecting"
       THEN /\ handshake' = [handshake EXCEPT !.gotVerack = TRUE, !.done = TRUE]
            /\ status' = "connected"
            /\ disconnectTime' = FALSE
       ELSE /\ handshake' = [handshake EXCEPT !.gotVerack = TRUE]
            /\ UNCHANGED <<status, disconnectTime>>
    /\ UNCHANGED <<thread, waitingForNetwork, socket, data, calls>>

-----------------------------------------------------------------------------
(* Announcements *)

\* The callback of the mempool request moves on to a ping, in three statements
\* that other threads see one by one: this, MempoolCallbackNull, MempoolTimeMax.
MempoolPing ==
    /\ thread' = "mempool"
    /\ pongs' = Append(pongs, mempool)
    /\ UNCHANGED <<mempool, mempoolTime, given, late, answers>>

\* The first transactions announced after a mempool request end the wait for it.
MempoolAnswer(txs) ==
    IF txs # {} /\ mempool # None THEN MempoolPing ELSE UNCHANGED <<thread, calls>>

\* Without a filter blocks are ignored, and so is the last single one again.
Counted(hashes) ==
    IF ~sent.filter \/ hashes = <<lastBlockHash>> THEN <<>> ELSE hashes

\* Mutant: announcements during a filter update are not remembered.
RememberedUnlessUpdate(hashes) ==
    IF needsFilterUpdate THEN knownBlocks ELSE Trim(knownBlocks \o hashes)
\* "remember blockHashes in case we need to re-request them with an updated
\* bloom filter"
Remembered(hashes) == Trim(knownBlocks \o hashes)

\* What is new is asked for, blocks only if no filter update is under way. (The
\* field sentGetblocks is read here and set nowhere.)
AcceptInv(txs, hashes) ==
    /\ Reading /\ Whole
    /\ txs # {} => sent.filter \/ sent.mempool
    /\ MempoolAnswer(txs)
    /\ LET counted == Counted(hashes)
           asks == \/ ~(txs \subseteq knownTxs)
                   \/ counted # <<>> /\ ~needsFilterUpdate
       IN  /\ Len(announced \o counted) <= MaxAnnounced
           /\ announced' = announced \o counted
           /\ knownBlocks' = Remembered(counted)
           /\ lastBlockHash' = IF Len(counted) = 1 THEN counted[1] ELSE lastBlockHash
           /\ sent' = [sent EXCEPT !.getdata = @ \/ asks]
           /\ IF asks \/ pongs' # pongs THEN Send ELSE UNCHANGED conn
    /\ knownTxs' = knownTxs \cup txs
    /\ UNCHANGED <<needsFilterUpdate, block>>

-----------------------------------------------------------------------------
(* Transactions and merkleblocks *)

\* Mutant: the block waits for one transaction only.
CompletedEarly(t) == t \in missing
\* The last transaction of the block in hand has come.
Completed(t) == missing \subseteq {t}

AcceptTx(t) ==
    /\ Reading
    /\ sent.filter \/ sent.getdata
    /\ IF Whole
       THEN UNCHANGED block
       ELSE /\ missing' = missing \ {t}
            /\ collected' = collected \cup {t}
            /\ currentBlock' = IF Completed(t) THEN None ELSE currentBlock
    /\ UNCHANGED <<thread, conn, sent, chain, knownTxs, calls>>

\* Transactions that were announced or published are not waited for; a block
\* with no others is handed over at once.
AcceptMerkleblock(b) ==
    /\ Reading /\ Whole
    /\ sent.filter \/ sent.getdata
    /\ missing' = missing \cup (Matched[b] \ knownTxs)
    /\ currentBlock' = IF missing' # {} THEN b ELSE None
    /\ collected' = {}
    /\ UNCHANGED <<thread, conn, sent, chain, knownTxs, calls>>

\* "if we receive a non-tx message, merkleblock is done": it is dropped, and
\* the loop ends with EPROTO.
Incomplete ==
    /\ Reading /\ ~Whole
    /\ currentBlock' = None
    /\ missing' = {}
    /\ thread' = "ending"
    /\ UNCHANGED <<conn, sent, chain, knownTxs, collected, calls>>

-----------------------------------------------------------------------------
(* Pongs and the other messages; the limits of time *)

\* Mutant: the ping stays in the list.
AcceptPongKept ==
    /\ Reading /\ Whole
    /\ pongs # <<>>
    /\ Answered(Head(pongs))
    /\ UNCHANGED <<thread, conn, data, pongs, mempool, mempoolTime, given, late>>

AcceptPong ==
    /\ Reading /\ Whole
    /\ pongs # <<>>
    /\ pongs' = Tail(pongs)
    /\ Answered(Head(pongs))
    /\ UNCHANGED <<thread, conn, data, mempool, mempoolTime, given, late>>

Answer ==
    /\ Reading /\ Whole
    /\ Send
    /\ UNCHANGED <<thread, data, calls>>

\* Ten seconds without an answer to the mempool request.
MempoolTimeout ==
    /\ thread = "reading"
    /\ mempoolTime /\ mempool # None
    /\ MempoolPing
    /\ Send
    /\ UNCHANGED data

\* Mutant: mempoolCallback is not reset.
MempoolCallbackKept ==
    /\ thread = "mempool"
    /\ thread' = "timer"
    /\ UNCHANGED <<conn, data, calls>>

MempoolCallbackNull ==
    /\ thread = "mempool"
    /\ thread' = "timer"
    /\ mempool' = None
    /\ UNCHANGED <<conn, data, pongs, mempoolTime, given, late, answers>>

MempoolTimeMax ==
    /\ thread = "timer"
    /\ thread' = "reading"
    /\ mempoolTime' = FALSE
    /\ UNCHANGED <<conn, data, pongs, mempool, given, late, answers>>

\* Mutant: the limit is looked at once the handshake is done.
DisconnectTimeoutLate ==
    /\ thread = "reading" /\ disconnectTime /\ handshake.done
    /\ thread' = "ending"
    /\ UNCHANGED <<conn, data, calls>>

DisconnectTimeout ==
    /\ thread = "reading" /\ disconnectTime
    /\ thread' = "ending"
    /\ UNCHANGED <<conn, data, calls>>

\* Mutant: the loop does not look at the socket again.
LoopEndsOnError ==
    /\ thread = "reading" /\ socket
    /\ thread' = "ending"
    /\ UNCHANGED <<conn, data, calls>>

\* The node closes the connection or sends what is malformed or out of turn,
\* the peer was disconnected, or a time limit passed that the manager had set
\* (BRPeerScheduleDisconnect): after the handshake, at any time.
LoopEnds ==
    /\ thread = "reading"
    /\ thread' = "ending"
    /\ UNCHANGED <<conn, data, calls>>

-----------------------------------------------------------------------------
(* The end of the thread *)

CloseSocket ==
    /\ thread = "ending"
    /\ thread' = "closed"
    /\ socket' = FALSE
    /\ UNCHANGED <<status, waitingForNetwork, disconnectTime, handshake, data, calls>>

SetDisconnected ==
    /\ thread = "closed"
    /\ thread' = "draining"
    /\ status' = "disconnected"
    /\ UNCHANGED <<waitingForNetwork, socket, disconnectTime, handshake, data, calls>>

\* The pings that wait are answered with a failure; the callback of one
\* (_publishTxInvDone) sends the peer another ping even so.
DrainPong ==
    /\ thread = "draining"
    /\ pongs # <<>>
    /\ Answered(Head(pongs))
    /\ \/ pongs' = Tail(pongs) /\ UNCHANGED given
       \/ \E c \in Callbacks \ given :
             pongs' = Append(Tail(pongs), c) /\ given' = given \cup {c}
    /\ UNCHANGED <<thread, conn, data, mempool, mempoolTime, late>>

\* Mutant: only the pings are answered.
DrainMempoolNever ==
    /\ thread = "draining"
    /\ pongs = <<>>
    /\ thread' = "leaving"
    /\ UNCHANGED <<conn, data, calls>>

DrainMempool ==
    /\ thread = "draining"
    /\ pongs = <<>>
    /\ thread' = "leaving"
    /\ mempool' = None
    /\ IF mempool # None THEN Answered(mempool) ELSE UNCHANGED answers
    /\ UNCHANGED <<conn, data, pongs, mempoolTime, given, late>>

\* The manager takes the peer off its list and frees it.
Disconnected ==
    /\ thread = "leaving"
    /\ thread' = "ended"
    /\ UNCHANGED <<conn, data, calls>>

-----------------------------------------------------------------------------
(* The calls of the manager, to a peer that was connected once *)

Called == thread \in Running /\ handshake.done

Give(c) ==
    /\ c \in Callbacks \ given
    /\ given' = given \cup {c}
    /\ late' = IF thread = "leaving" THEN late \cup {c} ELSE late

SendPing(c) ==
    /\ Called
    /\ Give(c)
    /\ pongs' = Append(pongs, c)
    /\ Send
    /\ UNCHANGED <<thread, data, mempool, mempoolTime, answers>>

\* One request for each filter; a second one, or one while a callback waits,
\* fails at once.  An update of the filter asks without a callback.
SendMempool(c, txs) ==
    /\ Called
    /\ IF c = None THEN UNCHANGED <<given, late>> ELSE Give(c)
    /\ sent' = [sent EXCEPT !.mempool = TRUE]
    /\ IF ~sent.mempool /\ mempool = None
       THEN /\ knownTxs' = knownTxs \cup txs
            /\ IF c = None
               THEN UNCHANGED <<mempool, mempoolTime>>
               ELSE mempool' = c /\ mempoolTime' = TRUE
            /\ UNCHANGED answers
            /\ Send
       ELSE /\ IF c = None THEN UNCHANGED answers ELSE Answered(c)
            /\ UNCHANGED <<conn, knownTxs, mempool, mempoolTime>>
    /\ UNCHANGED <<thread, chain, block, pongs>>

SendFilterload ==
    /\ Called
    /\ sent' = [sent EXCEPT !.filter = TRUE, !.mempool = FALSE]
    /\ Send
    /\ UNCHANGED <<thread, chain, knownTxs, block, calls>>

SetNeedsFilterUpdate(needs) ==
    /\ Called
    /\ needsFilterUpdate' = needs
    /\ UNCHANGED <<thread, conn, sent, knownBlocks, lastBlockHash, announced, knownTxs, block,
                   calls>>

\* Everything announced from the last announcement of a block on is asked for.
RerequestBlocks(from) ==
    /\ Called
    /\ from \in Range(knownBlocks)
    /\ knownBlocks' =
         LET i == CHOOSE j \in DOMAIN knownBlocks :
                     /\ knownBlocks[j] = from
                     /\ \A k \in j + 1 .. Len(knownBlocks) : knownBlocks[k] # from
         IN  SubSeq(knownBlocks, i, Len(knownBlocks))
    /\ sent' = [sent EXCEPT !.getdata = TRUE]
    /\ Send
    /\ UNCHANGED <<thread, needsFilterUpdate, lastBlockHash, announced, knownTxs, block, calls>>

SendInv(txs) ==
    /\ Called
    /\ knownTxs' = knownTxs \cup txs
    /\ IF txs \subseteq knownTxs THEN UNCHANGED conn ELSE Send
    /\ UNCHANGED <<thread, sent, chain, block, calls>>

SendGetdata ==
    /\ Called
    /\ sent' = [sent EXCEPT !.getdata = TRUE]
    /\ Send
    /\ UNCHANGED <<thread, chain, knownTxs, block, calls>>

\* BRPeerDisconnect of a peer in any state: one without a socket goes on.
Disconnect ==
    /\ thread # "ended"
    /\ socket
    /\ socket' = FALSE
    /\ UNCHANGED <<thread, status, waitingForNetwork, disconnectTime, handshake, data, calls>>

-----------------------------------------------------------------------------
Open == Connect \/ CreateSocket \/ Fallback \/ SocketConnected \/ OpenFails
Accept ==
    \/ AcceptVersion \/ AcceptVerack \/ AcceptPong \/ Answer \/ Incomplete
    \/ \E txs \in SUBSET Mempool, hashes \in Invs :
          (txs # {} \/ hashes # <<>>) /\ AcceptInv(txs, hashes)
    \/ \E t \in Txs : AcceptTx(t)
    \/ \E b \in Blocks : AcceptMerkleblock(b)
Limits == MempoolTimeout \/ MempoolCallbackNull \/ MempoolTimeMax \/ DisconnectTimeout \/ LoopEnds
End == CloseSocket \/ SetDisconnected \/ DrainPong \/ DrainMempool \/ Disconnected
Calls ==
    \/ \E c \in Callbacks : SendPing(c)
    \/ \E c \in Callbacks \cup {None}, txs \in SUBSET Mempool : SendMempool(c, txs)
    \/ SendFilterload \/ SendGetdata \/ Disconnect
    \/ \E needs \in BOOLEAN : SetNeedsFilterUpdate(needs)
    \/ \E b \in Blocks : RerequestBlocks(b)
    \/ \E t \in Mempool : SendInv({t})

Next == Open \/ Accept \/ Limits \/ End \/ Calls

\* The thread takes its next step: what follows from its own state, or from a
\* limit that the clock passes.  Nothing is assumed of the node.
ThreadStep ==
    \/ CreateSocket \/ SocketConnected \/ OpenFails
    \/ MempoolCallbackNull \/ MempoolTimeMax
    \/ DisconnectTimeout
    \/ ~socket /\ LoopEnds
    \/ End

Spec == Init /\ [][Next]_vars /\ WF_vars(ThreadStep)

-----------------------------------------------------------------------------
(* Properties *)

\* The fields hold values of their types, and knownBlockHashes stays within
\* the limit (BRPeer.c:358).
TypeOK ==
    /\ thread \in Threads
    /\ status \in {"disconnected", "connecting", "connected"}
    /\ {waitingForNetwork, socket, disconnectTime, needsFilterUpdate, mempoolTime} \subseteq BOOLEAN
    /\ handshake \in [sentVerack : BOOLEAN, gotVerack : BOOLEAN, done : BOOLEAN]
    /\ sent \in [filter : BOOLEAN, mempool : BOOLEAN, getdata : BOOLEAN]
    /\ knownBlocks \in Seq(Blocks) /\ Len(knownBlocks) <= MaxKnown
    /\ lastBlockHash \in Blocks \cup {None}
    /\ announced \in Seq(Blocks)
    /\ knownTxs \subseteq Txs
    /\ currentBlock \in Blocks \cup {None}
    /\ missing \subseteq Txs
    /\ collected \subseteq Txs
    /\ pongs \in Seq(Callbacks)
    /\ mempool \in Callbacks \cup {None}
    /\ given \subseteq Callbacks /\ late \subseteq given
    /\ answers \in [Callbacks -> Nat]

\* A completion callback is called once at most: not by the mempool answer, or
\* its time limit, and again by the pong it waits for after that, nor by the
\* end of the thread after either (BRPeer.c:385, 952, 1027, 1036).
AnsweredOnce == \A c \in Callbacks : answers[c] <= 1

\* When the peer is freed every callback has been called, but for those that
\* came after its thread had stopped looking (BRPeer.c:1027-1037).
AnsweredAtEnd ==
    thread = "ended" => \A c \in given \ late : answers[c] # 0

\* A merkleblock is handed to the manager when each transaction that it
\* matched has come since, or was known from an announcement or as published:
\* never half collected, whatever else the thread and the others do meanwhile
\* (BRPeer.c:425, 710).
BlockWhole ==
    [][currentBlock # None /\ currentBlock' # currentBlock /\ thread' = "reading"
          => Matched[currentBlock] \subseteq knownTxs \cup collected']_vars

\* What a re-request after a filter update can ask for is exactly the tail of
\* what the node announced, filter update or not (BRPeer.c:355, 1517).
KnownIsTail == IsSuffix(knownBlocks, announced)

\* A peer whose thread runs completes the handshake or ends, whatever the node
\* sends and in whatever order (BRPeer.c:948, 1150).
HandshakeEnds ==
    thread \in {"opening", "connecting", "connecting4", "reading"} ~>
       handshake.done \/ thread = "ended"

\* A peer that lost its socket after the connection was made, because a send
\* failed or because another thread disconnected it, is taken off the list
\* (BRPeer.c:937).
DisconnectEnds == thread = "reading" /\ ~socket ~> thread = "ended"

-----------------------------------------------------------------------------
(* What it promises of the callbacks *)

Phase ==
    IF thread = "ended" THEN "closed"
    ELSE IF thread \in {"ending", "closed", "draining", "leaving"} THEN "ending" ELSE "open"

\* What came when the thread had stopped looking is not promised to be called.
Owed == {c \in given \ late : answers[c] = 0}

R == INSTANCE Requests WITH phase <- Phase, waiting <- Owed

\* The peer implements Requests: whatever pongs, time limits, answers to the
\* mempool request, refusals and the end of the thread do, and in whatever
\* order, each callback is called as one step of Requests allows, and a thread
\* that ends calls what it owes and is gone (BRPeer.c:385, 950-955, 1027-1037).
ImplementsRequests == R!Spec

=============================================================================
