---------------------------- MODULE BRPeerProofs ----------------------------
(***************************************************************************)
(* Every completion callback is called once at most, and by the end of the *)
(* peer's thread unless it came too late; a merkleblock is handed over     *)
(* whole; what a filter update can ask for again is the end of what was    *)
(* announced.  For any blocks, transactions, callbacks and limits.         *)
(***************************************************************************)
EXTENDS BRPeer, ListLemmas

Distinct(q) == \A i, j \in DOMAIN q : q[i] = q[j] => i = j

\* Adding a callback that does not wait yet.
LEMMA AppendDistinct ==
    ASSUME NEW S, NEW q \in Seq(S), NEW x \in S, Distinct(q), x \notin Range(q)
    PROVE  /\ Append(q, x) \in Seq(S)
           /\ Distinct(Append(q, x))
           /\ Range(Append(q, x)) = Range(q) \cup {x}
<1>1. Append(q, x) \in Seq(S) /\ DOMAIN Append(q, x) = 1 .. Len(q) + 1
  OBVIOUS
<1>2. \A i \in 1 .. Len(q) : i \in DOMAIN q /\ Append(q, x)[i] = q[i]
  OBVIOUS
<1>3. Append(q, x)[Len(q) + 1] = x
  OBVIOUS
<1>4. \A i \in 1 .. Len(q) + 1 : i \in 1 .. Len(q) \/ i = Len(q) + 1
  OBVIOUS
<1>5. \A i \in DOMAIN q : q[i] # x
  BY DEF Range
<1>6. Distinct(Append(q, x))
  BY <1>1, <1>2, <1>3, <1>4, <1>5 DEF Distinct
<1>7. DOMAIN q = 1 .. Len(q) /\ Len(q) \in Nat
  OBVIOUS
<1>8. Range(Append(q, x)) = Range(q) \cup {x}
  BY <1>1, <1>2, <1>3, <1>4, <1>7 DEF Range
<1> QED
  BY <1>1, <1>6, <1>8

\* Taking the callback that waits longest.
LEMMA TailDistinct ==
    ASSUME NEW S, NEW q \in Seq(S), q # <<>>, Distinct(q)
    PROVE  /\ Tail(q) \in Seq(S)
           /\ Head(q) \in S
           /\ Distinct(Tail(q))
           /\ Head(q) \notin Range(Tail(q))
           /\ Range(q) = Range(Tail(q)) \cup {Head(q)}
<1>1. /\ Tail(q) \in Seq(S) /\ Head(q) = q[1] /\ Head(q) \in S
      /\ 1 \in DOMAIN q /\ Len(q) \in Nat \ {0} /\ DOMAIN q = 1 .. Len(q)
      /\ DOMAIN Tail(q) = 1 .. Len(q) - 1
  OBVIOUS
<1>2. \A i \in DOMAIN Tail(q) : i + 1 \in DOMAIN q /\ Tail(q)[i] = q[i + 1]
  OBVIOUS
<1>3. Distinct(Tail(q))
  BY <1>1, <1>2 DEF Distinct
<1>4. \A i \in DOMAIN Tail(q) : Tail(q)[i] # q[1]
  BY <1>1, <1>2 DEF Distinct
<1>5. Head(q) \notin Range(Tail(q))
  BY <1>1, <1>4 DEF Range
<1>6. \A i \in DOMAIN q : i = 1 \/ (i - 1 \in DOMAIN Tail(q) /\ q[i] = Tail(q)[i - 1])
  BY <1>1, <1>2
<1>7. \A i \in DOMAIN q : q[i] = Head(q) \/ q[i] \in Range(Tail(q))
  <2> TAKE i \in DOMAIN q
  <2>1. CASE i = 1
    BY <1>1, <2>1
  <2>2. CASE i - 1 \in DOMAIN Tail(q) /\ q[i] = Tail(q)[i - 1]
    BY <2>2 DEF Range
  <2> QED
    BY <1>6, <2>1, <2>2
<1>8. Range(Tail(q)) \cup {Head(q)} \subseteq Range(q)
  BY <1>1, <1>2 DEF Range
<1>9. Range(q) \subseteq Range(Tail(q)) \cup {Head(q)}
  BY <1>7 DEF Range
<1> QED
  BY <1>1, <1>3, <1>5, <1>8, <1>9

-----------------------------------------------------------------------------
(* The invariant of the callbacks *)

CallsType ==
    /\ thread \in Threads
    /\ pongs \in Seq(Callbacks)
    /\ mempool \in Callbacks \cup {None}
    /\ given \subseteq Callbacks
    /\ late \subseteq given
    /\ answers \in [Callbacks -> Nat]

Waiting == Range(pongs) \cup ({mempool} \ {None})

\* A callback waits in one place, but for the moment in which it moves from
\* the mempool request to a ping.
OnePlace ==
    /\ Distinct(pongs)
    /\ thread = "mempool" <=> mempool \in Range(pongs)

\* What waits was given and not called; what was not given was not called.
NotCalled ==
    /\ Waiting \subseteq given
    /\ \A c \in Waiting : answers[c] = 0
    /\ \A c \in Callbacks \ given : answers[c] = 0

NotLost == \A c \in given \ Waiting : answers[c] # 0

\* Only what came too late waits for a thread that is leaving.
Left == thread \in {"leaving", "ended"} => Waiting \subseteq late

CallsInv == CallsType /\ OnePlace /\ NotCalled /\ NotLost /\ Left /\ AnsweredOnce

-----------------------------------------------------------------------------
(* The ways in which a step can change it *)

Leaving == {"leaving", "ended"}

\* Nothing of the callbacks changes.
LEMMA CallsUnchanged ==
    ASSUME CallsInv, UNCHANGED calls, thread' \in Threads,
           thread' = "mempool" <=> thread = "mempool",
           thread' \in Leaving => thread \in Leaving
    PROVE  CallsInv'
  BY DEF CallsInv, CallsType, OnePlace, NotCalled, NotLost, Left, AnsweredOnce, calls, Waiting,
         Leaving

\* A new callback waits for a pong.
LEMMA NewPong ==
    ASSUME CallsInv, PeerAssumption, NEW c \in Callbacks \ given,
           given' = given \cup {c}, pongs' = Append(pongs, c),
           thread' = thread, mempool' = mempool, answers' = answers,
           late' \in {late, late \cup {c}},
           thread \in Leaving => c \in late'
    PROVE  CallsInv'
<1>1. c \notin Waiting
  BY DEF CallsInv, NotCalled
<1>2. /\ pongs' \in Seq(Callbacks) /\ Distinct(pongs')
      /\ Range(pongs') = Range(pongs) \cup {c}
  BY <1>1, AppendDistinct DEF CallsInv, CallsType, OnePlace, Waiting
<1>3. Waiting' = Waiting \cup {c} /\ c # mempool
  BY <1>1, <1>2 DEF Waiting, PeerAssumption
<1>4. CallsType' /\ OnePlace'
  BY <1>2, <1>3 DEF CallsInv, CallsType, OnePlace
<1>5. NotCalled' /\ NotLost' /\ Left' /\ AnsweredOnce'
  BY <1>3 DEF CallsInv, CallsType, NotCalled, NotLost, Left, AnsweredOnce, Leaving
<1> QED
  BY <1>4, <1>5 DEF CallsInv

\* The callback that waits longest is called.
LEMMA PongCalled ==
    ASSUME CallsInv, PeerAssumption, pongs # <<>>, thread # "mempool",
           pongs' = Tail(pongs), Answered(Head(pongs)),
           thread' = thread, mempool' = mempool, given' = given, late' = late
    PROVE  CallsInv'
<1> DEFINE h == Head(pongs)
<1>1. /\ pongs' \in Seq(Callbacks) /\ Distinct(pongs') /\ h \in Callbacks
      /\ Range(pongs) = Range(pongs') \cup {h} /\ h \notin Range(pongs')
  BY TailDistinct DEF CallsInv, CallsType, OnePlace
<1>2. h \in Waiting /\ h # mempool /\ mempool \notin Range(pongs')
  BY <1>1 DEF CallsInv, OnePlace, Waiting, PeerAssumption
<1>3. Waiting' = Waiting \ {h}
  BY <1>1, <1>2 DEF Waiting
<1>4. /\ answers' \in [Callbacks -> Nat]
      /\ answers'[h] = 1
      /\ \A c \in Callbacks : c # h => answers'[c] = answers[c]
  BY <1>1, <1>2 DEF CallsInv, CallsType, NotCalled, Answered
<1>5. CallsType' /\ OnePlace'
  BY <1>1, <1>2, <1>4 DEF CallsInv, CallsType, OnePlace
<1>6. h \in given /\ Waiting \subseteq Callbacks
  BY <1>2 DEF CallsInv, CallsType, NotCalled
<1> HIDE DEF h
<1>7. NotCalled' /\ NotLost'
  BY <1>3, <1>4, <1>6 DEF CallsInv, CallsType, NotCalled, NotLost
<1>8. Left'
  BY <1>3 DEF CallsInv, Left
<1>9. AnsweredOnce'
  BY <1>4 DEF CallsInv, AnsweredOnce
<1> QED
  BY <1>5, <1>7, <1>8, <1>9 DEF CallsInv

\* The callback of the mempool request waits for a pong too, for the moment.
LEMMA MempoolMoves ==
    ASSUME CallsInv, thread = "reading", mempool # None, MempoolPing
    PROVE  CallsInv'
<1>1. /\ thread' = "mempool" /\ pongs' = Append(pongs, mempool)
      /\ mempool' = mempool /\ given' = given /\ late' = late /\ answers' = answers
  BY DEF MempoolPing
<1>2. mempool \in Callbacks /\ mempool \notin Range(pongs)
  BY DEF CallsInv, CallsType, OnePlace
<1>3. /\ pongs' \in Seq(Callbacks) /\ Distinct(pongs')
      /\ Range(pongs') = Range(pongs) \cup {mempool}
  BY <1>1, <1>2, AppendDistinct DEF CallsInv, CallsType, OnePlace
<1>4. Waiting' = Waiting /\ mempool' \in Range(pongs')
  BY <1>1, <1>3 DEF Waiting
<1> QED
  BY <1>1, <1>3, <1>4
  DEF CallsInv, CallsType, OnePlace, NotCalled, NotLost, Left, AnsweredOnce, Threads, Running

-----------------------------------------------------------------------------
(* Every step keeps it *)

LEMMA CallsStep ==
    ASSUME PeerAssumption, CallsInv, [Next]_vars
    PROVE  CallsInv'
<1>0. thread \in Threads
  BY DEF CallsInv, CallsType
<1>1. CASE UNCHANGED vars
  BY <1>1, <1>0, CallsUnchanged DEF vars, calls
<1>2. CASE Open
  BY <1>2, <1>0, CallsUnchanged
  DEF Open, Connect, CreateSocket, Fallback, SocketConnected, OpenFails, Threads, Running,
      Leaving, calls
<1>3. CASE AcceptVersion \/ AcceptVerack \/ Answer \/ Incomplete
           \/ (\E t \in Txs : AcceptTx(t)) \/ (\E b \in Blocks : AcceptMerkleblock(b))
  BY <1>3, <1>0, CallsUnchanged
  DEF AcceptVersion, AcceptVerack, Answer, Incomplete, AcceptTx, AcceptMerkleblock, Reading,
      Threads, Running, Leaving, calls
<1>4. CASE AcceptPong
  BY <1>4, PongCalled DEF AcceptPong, Reading
<1>5. ASSUME NEW txs, NEW hashes, AcceptInv(txs, hashes)
      PROVE  CallsInv'
  <2>1. thread = "reading" /\ MempoolAnswer(txs)
    BY <1>5 DEF AcceptInv, Reading
  <2>2. CASE txs # {} /\ mempool # None
    BY <2>1, <2>2, MempoolMoves DEF MempoolAnswer
  <2>3. CASE ~(txs # {} /\ mempool # None)
    BY <1>0, <2>1, <2>3, CallsUnchanged DEF MempoolAnswer
  <2> QED
    BY <2>2, <2>3
<1>6. CASE MempoolTimeout
  BY <1>6, MempoolMoves DEF MempoolTimeout
<1>7. CASE MempoolCallbackNull
  <2>1. /\ thread = "mempool" /\ thread' = "timer" /\ mempool' = None
        /\ pongs' = pongs /\ given' = given /\ late' = late /\ answers' = answers
    BY <1>7 DEF MempoolCallbackNull
  <2>2. mempool \in Range(pongs) /\ Range(pongs) \subseteq Callbacks
    BY <2>1 DEF CallsInv, CallsType, OnePlace, Range
  <2>3. Waiting' = Waiting /\ mempool' \notin Range(pongs')
    BY <2>1, <2>2 DEF Waiting, PeerAssumption
  <2> QED
    BY <2>1, <2>3
    DEF CallsInv, CallsType, OnePlace, NotCalled, NotLost, Left, AnsweredOnce, Threads, Running
<1>8. CASE MempoolTimeMax
  <2>1. /\ thread = "timer" /\ thread' = "reading" /\ mempool' = mempool
        /\ pongs' = pongs /\ given' = given /\ late' = late /\ answers' = answers
    BY <1>8 DEF MempoolTimeMax
  <2> QED
    BY <2>1 DEF CallsInv, CallsType, OnePlace, NotCalled, NotLost, Left, AnsweredOnce, Threads,
                Running, Waiting
<1>9. CASE DisconnectTimeout \/ LoopEnds \/ CloseSocket \/ SetDisconnected \/ Disconnected
  BY <1>9, <1>0, CallsUnchanged
  DEF DisconnectTimeout, LoopEnds, CloseSocket, SetDisconnected, Disconnected, Threads, Running,
      Leaving, calls
<1>10. CASE DrainPong
  <2>1. /\ thread = "draining" /\ thread' = thread /\ pongs # <<>>
        /\ Answered(Head(pongs)) /\ mempool' = mempool /\ late' = late
    BY <1>10 DEF DrainPong
  <2>2. CASE pongs' = Tail(pongs) /\ given' = given
    BY <2>1, <2>2, PongCalled
  <2>3. ASSUME NEW c \in Callbacks \ given,
               pongs' = Append(Tail(pongs), c), given' = given \cup {c}
        PROVE  CallsInv'
    <3> DEFINE h == Head(pongs)
               q == Tail(pongs)
    <3>1. /\ q \in Seq(Callbacks) /\ Distinct(q) /\ h \in Callbacks
          /\ Range(pongs) = Range(q) \cup {h} /\ h \notin Range(q)
      BY <2>1, TailDistinct DEF CallsInv, CallsType, OnePlace
    <3>2. c \notin Waiting /\ h \in Waiting /\ h \in given
      BY <3>1 DEF CallsInv, NotCalled, Waiting, PeerAssumption
    <3>3. c \notin Range(q) /\ c # h /\ h # mempool /\ c # mempool /\ mempool \notin Range(q)
      BY <2>1, <3>1, <3>2 DEF CallsInv, OnePlace, Waiting, PeerAssumption
    <3>4. pongs' \in Seq(Callbacks) /\ Distinct(pongs') /\ Range(pongs') = Range(q) \cup {c}
      <4>1. pongs' = Append(q, c) /\ c \in Callbacks
        BY <2>3
      <4> HIDE DEF q, h
      <4>2. /\ Append(q, c) \in Seq(Callbacks)
            /\ Distinct(Append(q, c))
            /\ Range(Append(q, c)) = Range(q) \cup {c}
        BY <3>1, <3>3, <4>1, AppendDistinct
      <4> QED
        BY <4>1, <4>2
    <3>5. Waiting' = (Waiting \ {h}) \cup {c}
      BY <2>1, <3>1, <3>3, <3>4 DEF Waiting, PeerAssumption
    <3>6. /\ answers' \in [Callbacks -> Nat]
          /\ answers'[h] = 1
          /\ \A d \in Callbacks : d # h => answers'[d] = answers[d]
      BY <2>1, <3>1, <3>2 DEF CallsInv, CallsType, NotCalled, Answered
    <3>7. CallsType' /\ OnePlace'
      BY <2>1, <2>3, <3>3, <3>4, <3>6 DEF CallsInv, CallsType, OnePlace
    <3>8. Waiting \subseteq Callbacks
      BY DEF CallsInv, CallsType, NotCalled
    <3> HIDE DEF h, q
    <3>9. NotCalled' /\ NotLost'
      BY <2>3, <3>2, <3>3, <3>5, <3>6, <3>8 DEF CallsInv, CallsType, NotCalled, NotLost
    <3>10. Left'
      BY <2>1 DEF Left
    <3>11. AnsweredOnce'
      BY <3>6 DEF CallsInv, AnsweredOnce
    <3> QED
      BY <3>7, <3>9, <3>10, <3>11 DEF CallsInv
  <2> QED
    BY <1>10, <2>2, <2>3 DEF DrainPong
<1>11. CASE DrainMempool
  <2>1. /\ thread = "draining" /\ thread' = "leaving" /\ pongs = <<>> /\ pongs' = pongs
        /\ mempool' = None /\ given' = given /\ late' = late
        /\ IF mempool # None THEN Answered(mempool) ELSE answers' = answers
    BY <1>11 DEF DrainMempool
  <2>2. Range(pongs) = {} /\ Range(pongs') = {} /\ Waiting' = {}
    BY <2>1 DEF Range, Waiting
  <2>3. CASE mempool # None
    <3>1. mempool \in Waiting /\ mempool \in Callbacks /\ Waiting = {mempool}
      BY <2>2, <2>3 DEF CallsInv, CallsType, Waiting
    <3>2. /\ answers' \in [Callbacks -> Nat]
          /\ answers'[mempool] = 1
          /\ \A d \in Callbacks : d # mempool => answers'[d] = answers[d]
      BY <2>1, <2>3, <3>1 DEF CallsInv, CallsType, NotCalled, Answered
    <3>3. CallsType' /\ OnePlace'
      BY <2>1, <2>2, <3>1, <3>2 DEF CallsInv, CallsType, OnePlace, Threads, Running
    <3>4. NotCalled' /\ NotLost' /\ Left'
      BY <2>1, <2>2, <3>1, <3>2 DEF CallsInv, CallsType, NotCalled, NotLost, Left
    <3>5. AnsweredOnce'
      BY <3>2 DEF CallsInv, AnsweredOnce
    <3> QED
      BY <3>3, <3>4, <3>5 DEF CallsInv
  <2>4. CASE mempool = None
    <3>1. Waiting = {}
      BY <2>2, <2>4 DEF Waiting
    <3> QED
      BY <2>1, <2>2, <2>4, <3>1
      DEF CallsInv, CallsType, OnePlace, NotCalled, NotLost, Left, AnsweredOnce, Threads,
          Running
  <2> QED
    BY <2>3, <2>4
<1>12. ASSUME NEW c \in Callbacks, SendPing(c)
       PROVE  CallsInv'
  BY <1>12, NewPong DEF SendPing, Give, Leaving, Called, Running
<1>13. ASSUME NEW c \in Callbacks \cup {None}, NEW txs, SendMempool(c, txs)
       PROVE  CallsInv'
  <2>1. thread' = thread /\ pongs' = pongs /\ thread \in Running
    BY <1>13 DEF SendMempool, Called
  <2>2. CASE c = None
    BY <1>0, <1>13, <2>1, <2>2 DEF SendMempool, CallsInv, CallsType, OnePlace, NotCalled, NotLost,
        Left, AnsweredOnce, Waiting
  <2>3. CASE c # None /\ ~sent.mempool /\ mempool = None
    <3>1. /\ c \in Callbacks \ given /\ given' = given \cup {c} /\ mempool' = c
          /\ late' = (IF thread = "leaving" THEN late \cup {c} ELSE late)
          /\ answers' = answers
      BY <1>13, <2>3 DEF SendMempool, Give
    <3>2. c \notin Waiting
      BY <3>1 DEF CallsInv, NotCalled
    <3>3. Waiting' = Waiting \cup {c} /\ c \notin Range(pongs') /\ thread # "mempool"
      BY <2>1, <2>3, <3>1, <3>2 DEF Waiting, CallsInv, CallsType, OnePlace, NotCalled,
         PeerAssumption
    <3> QED
      BY <2>1, <3>1, <3>3 DEF CallsInv, CallsType, OnePlace, NotCalled, NotLost, Left,
         AnsweredOnce, Running
  <2>4. CASE c # None /\ ~(~sent.mempool /\ mempool = None)
    <3>1. /\ c \in Callbacks \ given /\ given' = given \cup {c} /\ mempool' = mempool
          /\ late' = (IF thread = "leaving" THEN late \cup {c} ELSE late)
          /\ Answered(c)
      BY <1>13, <2>4 DEF SendMempool, Give
    <3>2. c \notin Waiting /\ answers[c] = 0 /\ Waiting' = Waiting
      BY <2>1, <3>1 DEF CallsInv, NotCalled, Waiting
    <3>3. /\ answers' \in [Callbacks -> Nat]
          /\ answers'[c] = 1
          /\ \A d \in Callbacks : d # c => answers'[d] = answers[d]
      BY <3>1, <3>2 DEF CallsInv, CallsType, Answered
    <3>4. CallsType' /\ OnePlace'
      BY <2>1, <3>1, <3>3 DEF CallsInv, CallsType, OnePlace
    <3>5. Waiting \subseteq Callbacks
      BY DEF CallsInv, CallsType, NotCalled
    <3>6. NotCalled' /\ NotLost'
      BY <3>1, <3>2, <3>3, <3>5 DEF CallsInv, CallsType, NotCalled, NotLost
    <3>7. Left'
      BY <2>1, <3>1, <3>2 DEF CallsInv, Left
    <3>8. AnsweredOnce'
      BY <3>3 DEF CallsInv, AnsweredOnce
    <3> QED
      BY <3>4, <3>6, <3>7, <3>8 DEF CallsInv
  <2> QED
    BY <2>2, <2>3, <2>4
<1>14. CASE SendFilterload \/ SendGetdata \/ Disconnect
            \/ (\E needs \in BOOLEAN : SetNeedsFilterUpdate(needs))
            \/ (\E b \in Blocks : RerequestBlocks(b)) \/ (\E t \in Mempool : SendInv({t}))
  BY <1>14, <1>0, CallsUnchanged
  DEF SendFilterload, SendGetdata, Disconnect, SetNeedsFilterUpdate, RerequestBlocks, SendInv,
      calls
<1> QED
  BY <1>1, <1>2, <1>3, <1>4, <1>5, <1>6, <1>7, <1>8, <1>9, <1>10, <1>11, <1>12, <1>13, <1>14
  DEF Next, Accept, Limits, End, Calls

LEMMA CallsInit ==
    ASSUME PeerAssumption, Init
    PROVE  CallsInv
<1>1. pongs \in Seq(Callbacks) /\ Distinct(pongs) /\ Range(pongs) = {} /\ Waiting = {}
  BY DEF Init, Distinct, Range, Waiting
<1> QED
  BY <1>1 DEF Init, CallsInv, CallsType, OnePlace, NotCalled, NotLost, Left, AnsweredOnce, Threads

\* Every reachable state satisfies the invariant of the callbacks.
THEOREM CallsInvariant == Spec => []CallsInv
<1> USE PeerAssumption
<1>1. Init => CallsInv
  BY CallsInit
<1>2. CallsInv /\ [Next]_vars => CallsInv'
  BY CallsStep
<1> QED
  BY <1>1, <1>2, PTL DEF Spec

\* A completion callback is called once at most (BRPeer.c:385, 952, 1027).
THEOREM CallbacksAnsweredOnce == Spec => []AnsweredOnce
<1>1. CallsInv => AnsweredOnce
  BY DEF CallsInv
<1> QED
  BY <1>1, CallsInvariant, PTL

\* Once the peer has left, every callback that did not come too late was
\* called (BRPeer.c:1027-1037).
THEOREM CallbacksAnsweredAtEnd == Spec => []AnsweredAtEnd
<1>1. ASSUME CallsInv PROVE AnsweredAtEnd
  <2> SUFFICES ASSUME thread = "ended", NEW c \in given \ late
               PROVE  answers[c] # 0
    BY DEF AnsweredAtEnd
  <2> QED
    BY <1>1 DEF CallsInv, Left, NotLost
<1> QED
  BY <1>1, CallsInvariant, PTL

-----------------------------------------------------------------------------
(* The merkleblock that is being collected *)

\* What was matched is known, has come since, or is waited for.
Collecting ==
    currentBlock # None => /\ currentBlock \in Blocks
                           /\ Matched[currentBlock] \subseteq missing \cup knownTxs \cup collected

\* Transactions that get known stay so.
LEMMA CollectingKept ==
    ASSUME Collecting, UNCHANGED block, knownTxs \subseteq knownTxs'
    PROVE  Collecting'
  BY DEF Collecting, block

LEMMA CollectingStep ==
    ASSUME PeerAssumption, Collecting, [Next]_vars
    PROVE  Collecting'
<1>1. CASE UNCHANGED vars
  BY <1>1, CollectingKept DEF vars, data
<1>2. CASE Open \/ Limits \/ End
  BY <1>2, CollectingKept
  DEF Open, Limits, End, Connect, CreateSocket, Fallback, SocketConnected, OpenFails,
      MempoolTimeout, MempoolCallbackNull, MempoolTimeMax, DisconnectTimeout, LoopEnds,
      CloseSocket, SetDisconnected, DrainPong, DrainMempool, Disconnected, data
<1>3. CASE AcceptVersion \/ AcceptVerack \/ AcceptPong \/ Answer
  BY <1>3, CollectingKept DEF AcceptVersion, AcceptVerack, AcceptPong, Answer, data
<1>4. CASE Incomplete
  BY <1>4 DEF Incomplete, Collecting
<1>5. ASSUME NEW txs, NEW hashes, AcceptInv(txs, hashes)
      PROVE  Collecting'
  BY <1>5, CollectingKept DEF AcceptInv
<1>6. ASSUME NEW t \in Txs, AcceptTx(t)
      PROVE  Collecting'
  <2>1. CASE Whole
    BY <1>6, <2>1, CollectingKept DEF AcceptTx
  <2>2. CASE ~Whole
    BY <1>6, <2>2 DEF AcceptTx, Collecting, Whole
  <2> QED
    BY <2>1, <2>2
<1>7. ASSUME NEW b \in Blocks, AcceptMerkleblock(b)
      PROVE  Collecting'
  BY <1>7 DEF AcceptMerkleblock, Collecting
<1>8. CASE Calls
  <2>1. ASSUME NEW c, SendPing(c) PROVE Collecting'
    BY <2>1, CollectingKept DEF SendPing, data
  <2>2. ASSUME NEW c, NEW txs, SendMempool(c, txs) PROVE Collecting'
    BY <2>2, CollectingKept DEF SendMempool
  <2>3. CASE SendFilterload \/ SendGetdata \/ Disconnect
    BY <2>3, CollectingKept DEF SendFilterload, SendGetdata, Disconnect, data
  <2>4. ASSUME NEW x, SetNeedsFilterUpdate(x) \/ RerequestBlocks(x) PROVE Collecting'
    BY <2>4, CollectingKept DEF SetNeedsFilterUpdate, RerequestBlocks
  <2>5. ASSUME NEW txs, SendInv(txs) PROVE Collecting'
    BY <2>5, CollectingKept DEF SendInv
  <2> QED
    BY <1>8, <2>1, <2>2, <2>3, <2>4, <2>5 DEF Calls
<1> QED
  BY <1>1, <1>2, <1>3, <1>4, <1>5, <1>6, <1>7, <1>8 DEF Next, Accept

\* A block is given up only with the loop, and handed over only with its last
\* transaction.
LEMMA BlockStep ==
    ASSUME Collecting, Next, currentBlock # None, currentBlock' # currentBlock,
           thread' = "reading"
    PROVE  Matched[currentBlock] \subseteq knownTxs \cup collected'
<1>1. ASSUME NEW t \in Txs, AcceptTx(t)
      PROVE  Matched[currentBlock] \subseteq knownTxs \cup collected'
  BY <1>1 DEF AcceptTx, Collecting, Whole, Completed
<1>2. ~Open /\ ~Limits /\ ~End
  BY DEF Open, Limits, End, Connect, CreateSocket, Fallback, SocketConnected, OpenFails,
      MempoolTimeout, MempoolCallbackNull, MempoolTimeMax, DisconnectTimeout, LoopEnds,
      CloseSocket, SetDisconnected, DrainPong, DrainMempool, Disconnected, data, block
<1>3. ~AcceptVersion /\ ~AcceptVerack /\ ~AcceptPong /\ ~Answer /\ ~Incomplete
  BY DEF AcceptVersion, AcceptVerack, AcceptPong, Answer, Incomplete, Whole
<1>4. \A txs, hashes : ~AcceptInv(txs, hashes)
  BY DEF AcceptInv, Whole
<1>5. \A b : ~AcceptMerkleblock(b)
  BY DEF AcceptMerkleblock, Whole
<1>6. ~Calls
  BY DEF Calls, SendPing, SendMempool, SendFilterload, SendGetdata, Disconnect,
         SetNeedsFilterUpdate, RerequestBlocks, SendInv, data, block
<1> QED
  BY <1>1, <1>2, <1>3, <1>4, <1>5, <1>6 DEF Next, Accept

\* A merkleblock is handed over with all of its transactions (BRPeer.c:425,
\* 710).
THEOREM BlocksWhole == Spec => BlockWhole
<1> USE PeerAssumption
<1>1. Init => Collecting
  BY DEF Init, Collecting
<1>2. Collecting /\ [Next]_vars => Collecting'
  BY CollectingStep
<1>3. Collecting /\ [Next]_vars
         => [currentBlock # None /\ currentBlock' # currentBlock /\ thread' = "reading"
                => Matched[currentBlock] \subseteq knownTxs \cup collected']_vars
  BY BlockStep
<1> QED
  BY <1>1, <1>2, <1>3, PTL DEF Spec, BlockWhole

-----------------------------------------------------------------------------
(* The peer implements Requests *)

\* Nothing comes late before the thread has stopped looking.
LateLeaving == late # {} => thread \in Leaving

LEMMA LateStep ==
    ASSUME CallsInv, LateLeaving, [Next]_vars
    PROVE  LateLeaving'
<1>1. thread \in Leaving => thread' \in Leaving
  BY DEF Next, Open, Accept, Limits, End, Calls, Leaving, vars, data, Reading, Connect,
         CreateSocket, Fallback, SocketConnected, OpenFails, AcceptVersion, AcceptVerack,
         AcceptPong, Answer, Incomplete, AcceptInv, AcceptTx, AcceptMerkleblock,
         MempoolTimeout, MempoolCallbackNull, MempoolTimeMax, DisconnectTimeout, LoopEnds,
         CloseSocket, SetDisconnected, DrainPong, DrainMempool, Disconnected, SendPing,
         SendMempool, SendFilterload, SendGetdata, Disconnect, SetNeedsFilterUpdate,
         RerequestBlocks, SendInv
<1>2. late' = late \/ \E c : Give(c) /\ thread' = thread
  BY DEF Next, Open, Accept, Limits, End, Calls, vars, data, calls, Connect,
         CreateSocket, Fallback, SocketConnected, OpenFails, AcceptVersion, AcceptVerack,
         AcceptPong, Answer, Incomplete, AcceptInv, AcceptTx, AcceptMerkleblock, MempoolAnswer,
         MempoolTimeout, MempoolPing, MempoolCallbackNull, MempoolTimeMax, DisconnectTimeout, LoopEnds,
         CloseSocket, SetDisconnected, DrainPong, DrainMempool, Disconnected, SendPing,
         SendMempool, SendFilterload, SendGetdata, Disconnect, SetNeedsFilterUpdate,
         RerequestBlocks, SendInv
<1> QED
  BY <1>1, <1>2 DEF LateLeaving, Give, Leaving

\* What waits and did not come late is owed an answer.
LEMMA WaitingOwed == ASSUME CallsInv PROVE Owed = Waiting \ late
  BY DEF CallsInv, CallsType, NotCalled, NotLost, Owed

\* Steps that leave the callbacks alone only move the connection on.
LEMMA PhaseStep ==
    ASSUME CallsInv, UNCHANGED <<given, late, answers>>,
           \/ Phase' = Phase
           \/ Phase = "open" /\ Phase' = "ending"
           \/ thread = "leaving" /\ Phase' = "closed"
    PROVE  [R!Next]_(R!vars)
<1>1. Owed' = Owed
  BY DEF Owed
<1>2. CASE Phase' = Phase
  BY <1>1, <1>2 DEF R!vars
<1>3. CASE Phase = "open" /\ Phase' = "ending"
  BY <1>1, <1>3 DEF R!Next, R!End
<1>4. CASE thread = "leaving" /\ Phase' = "closed"
  <2>1. Owed = {}
    BY <1>4, WaitingOwed DEF CallsInv, Left
  <2> QED
    BY <1>1, <1>4, <2>1 DEF R!Next, R!Close, Phase
<1> QED
  BY <1>2, <1>3, <1>4

\* One of the callbacks that wait is called, and may give the peer another.
LEMMA AnswerStep ==
    ASSUME CallsInv, LateLeaving, thread \notin Leaving, thread' \in Threads,
           NEW c \in Waiting, Answered(c), late' = late, Phase' = Phase,
           \/ given' = given
           \/ \E d \in Callbacks \ given : given' = given \cup {d}
    PROVE  R!AnswerOne
<1>1. c \in Callbacks /\ c \in given /\ answers[c] = 0 /\ late = {}
  BY DEF CallsInv, CallsType, NotCalled, LateLeaving
<1>2. c \in Owed /\ Phase # "closed"
  BY <1>1 DEF Owed, Phase, Leaving
<1>3. PICK following \in {{}} \cup {{d} : d \in Callbacks \ given} :
         given' = given \cup following
  OBVIOUS
<1>4. answers' = [answers EXCEPT ![c] = @ + 1] /\ answers \in [Callbacks -> Nat]
  BY DEF Answered, CallsInv, CallsType
<1>5. \A d \in Callbacks \ given : answers[d] = 0 /\ d \notin Owed /\ d # c
  BY <1>1 DEF CallsInv, NotCalled, Owed
<1>6. Owed' = (Owed \ {c}) \cup following
  <2>1. \A d \in Callbacks : answers'[d] = IF d = c THEN 1 ELSE answers[d]
    BY <1>1, <1>4
  <2>2. given \subseteq Callbacks /\ following \subseteq Callbacks \ given
    BY <1>3 DEF CallsInv, CallsType
  <2> QED
    BY <1>1, <1>3, <1>5, <2>1, <2>2 DEF Owed
<1>7. following \in {{}} \cup {{d} : d \in R!Unused}
  BY <1>3, <1>5 DEF R!Unused
<1>8. R!Answer(c, following)
  BY <1>2, <1>4, <1>6 DEF R!Answer
<1> QED
  BY <1>1, <1>7, <1>8 DEF R!AnswerOne

\* A callback comes with a request, and waits or is refused at once.
LEMMA GiveStep ==
    ASSUME CallsInv, Called, NEW c, Give(c), thread' = thread,
           answers' = answers \/ Answered(c)
    PROVE  [R!Next]_(R!vars)
<1>1. c \in Callbacks \ given /\ answers[c] = 0 /\ c \notin Owed
  BY DEF Give, CallsInv, NotCalled, Owed
<1>2. Phase' = Phase /\ Phase # "closed"
  BY DEF Phase, Called, Running
<1>3. answers \in [Callbacks -> Nat] /\ given \subseteq Callbacks
  BY DEF CallsInv, CallsType
<1>4. c \in R!Unused
  BY <1>1 DEF R!Unused
<1>5. CASE answers' = answers
  <2>1. Owed' = IF thread = "leaving" THEN Owed ELSE Owed \cup {c}
    BY <1>1, <1>3, <1>5 DEF Give, Owed, CallsInv, CallsType
  <2>2. CASE thread = "leaving"
    BY <1>2, <1>5, <2>1, <2>2 DEF R!vars
  <2>3. CASE thread # "leaving"
    BY <1>1, <1>2, <1>4, <1>5, <2>1, <2>3 DEF R!Next, R!Request
  <2> QED
    BY <2>2, <2>3
<1>6. CASE Answered(c)
  <2>1. answers' = [answers EXCEPT ![c] = 1]
    BY <1>1, <1>3, <1>6 DEF Answered
  <2>2. \A d \in Callbacks : answers'[d] = IF d = c THEN 1 ELSE answers[d]
    BY <1>3, <2>1
  <2>3. Owed' = Owed
    BY <1>1, <1>3, <2>2 DEF Give, Owed, CallsInv, CallsType
  <2> QED
    BY <1>1, <1>2, <1>4, <2>1, <2>3 DEF R!Next, R!Refuse
<1> QED
  BY <1>5, <1>6

LEMMA RequestsStep ==
    ASSUME PeerAssumption, CallsInv, LateLeaving, [Next]_vars
    PROVE  [R!Next]_(R!vars)
<1>0. thread \in Threads
  BY DEF CallsInv, CallsType
<1>1. CASE UNCHANGED vars
  BY <1>1, PhaseStep DEF vars, calls, Phase
<1>2. CASE Open
  BY <1>2, PhaseStep
  DEF Open, Connect, CreateSocket, Fallback, SocketConnected, OpenFails, calls, Phase
<1>3. CASE AcceptVersion \/ AcceptVerack \/ Answer \/ Incomplete
           \/ (\E t \in Txs : AcceptTx(t)) \/ (\E b \in Blocks : AcceptMerkleblock(b))
  BY <1>3, PhaseStep
  DEF AcceptVersion, AcceptVerack, Answer, Incomplete, AcceptTx, AcceptMerkleblock, Reading,
      calls, Phase
<1>4. CASE AcceptPong
  <2>1. Head(pongs) \in Waiting
    BY <1>4, TailDistinct DEF AcceptPong, CallsInv, CallsType, OnePlace, Waiting, PeerAssumption
  <2>2. /\ thread \notin Leaving /\ thread' \in Threads /\ Answered(Head(pongs))
        /\ late' = late /\ given' = given /\ Phase' = Phase
    BY <1>0, <1>4 DEF AcceptPong, Reading, Leaving, Phase
  <2> QED
    BY <2>1, <2>2, AnswerStep DEF R!Next
<1>5. CASE \/ (\E txs, hashes : AcceptInv(txs, hashes)) \/ MempoolTimeout
           \/ MempoolCallbackNull \/ MempoolTimeMax
  BY <1>5, PhaseStep
  DEF AcceptInv, MempoolAnswer, MempoolTimeout, MempoolPing, MempoolCallbackNull, MempoolTimeMax,
      Reading, calls, Phase
<1>6. CASE DisconnectTimeout \/ LoopEnds \/ CloseSocket \/ SetDisconnected \/ Disconnected
  BY <1>6, PhaseStep
  DEF DisconnectTimeout, LoopEnds, CloseSocket, SetDisconnected, Disconnected, calls, Phase
<1>7. CASE DrainPong
  <2>1. Head(pongs) \in Waiting
    BY <1>7, TailDistinct DEF DrainPong, CallsInv, CallsType, OnePlace, Waiting, PeerAssumption
  <2>2. /\ thread \notin Leaving /\ thread' \in Threads /\ Answered(Head(pongs))
        /\ late' = late /\ Phase' = Phase
        /\ \/ given' = given
           \/ \E d \in Callbacks \ given : given' = given \cup {d}
    BY <1>0, <1>7 DEF DrainPong, Leaving, Phase
  <2> QED
    BY <2>1, <2>2, AnswerStep DEF R!Next
<1>8. CASE DrainMempool
  <2>1. /\ thread = "draining" /\ thread' = "leaving" /\ Phase' = Phase
        /\ given' = given /\ late' = late
    BY <1>8 DEF DrainMempool, Phase
  <2>2. CASE mempool = None
    BY <1>8, <2>1, <2>2, PhaseStep DEF DrainMempool
  <2>3. CASE mempool # None
    <3>1. mempool \in Waiting /\ Answered(mempool)
      BY <1>8, <2>3 DEF DrainMempool, Waiting
    <3>2. thread \notin Leaving /\ thread' \in Threads
      BY <2>1 DEF Leaving, Threads, Running
    <3> QED
      BY <2>1, <3>1, <3>2, AnswerStep DEF R!Next
  <2> QED
    BY <2>2, <2>3
<1>9. ASSUME NEW c \in Callbacks, SendPing(c)
      PROVE  [R!Next]_(R!vars)
  BY <1>9, GiveStep DEF SendPing
<1>10. ASSUME NEW c \in Callbacks \cup {None}, NEW txs, SendMempool(c, txs)
       PROVE  [R!Next]_(R!vars)
  <2>1. CASE c = None
    BY <1>10, <2>1, PhaseStep DEF SendMempool, Phase
  <2>2. CASE c # None
    BY <1>10, <2>2, GiveStep DEF SendMempool
  <2> QED
    BY <2>1, <2>2
<1>11. CASE \/ SendFilterload \/ SendGetdata \/ Disconnect
            \/ (\E needs \in BOOLEAN : SetNeedsFilterUpdate(needs))
            \/ (\E b \in Blocks : RerequestBlocks(b)) \/ (\E t \in Mempool : SendInv({t}))
  BY <1>11, PhaseStep
  DEF SendFilterload, SendGetdata, Disconnect, SetNeedsFilterUpdate, RerequestBlocks, SendInv,
      calls, Phase
<1> QED
  BY <1>1, <1>2, <1>3, <1>4, <1>5, <1>6, <1>7, <1>8, <1>9, <1>10, <1>11
  DEF Next, Accept, Limits, End, Calls

\* Every behaviour of the peer is one of Requests, as far as safety goes: its
\* callbacks are called as promised (BRPeer.c:385, 950-955, 1027-1037).
THEOREM PeerImplementsRequests == Spec => R!SafeSpec
<1> USE PeerAssumption
<1>1. Init => R!Init /\ LateLeaving
  BY DEF Init, R!Init, Phase, Owed, LateLeaving
<1>2. CallsInv /\ LateLeaving /\ [Next]_vars => LateLeaving'
  BY LateStep
<1>3. CallsInv /\ LateLeaving /\ [Next]_vars => [R!Next]_(R!vars)
  BY RequestsStep
<1> QED
  BY <1>1, <1>2, <1>3, CallsInvariant, PTL DEF Spec, R!SafeSpec

-----------------------------------------------------------------------------
(* knownBlockHashes *)

\* A third of three or more is some but not all of it.
LEMMA ThirdOf ==
    ASSUME NEW a \in Nat, a >= 3
    PROVE  a \div 3 \in Nat /\ 1 <= a \div 3 /\ a \div 3 < a
  OBVIOUS

Cut(f, n, len) == IF len - n > MaxKnown THEN f[n + (len - n) \div 3] ELSE n
CutEquation(f, len) == f = [n \in Nat |-> Cut(f, n, len)]

\* Cutting thirds comes to an end: the recursion of Trim has a solution.
LEMMA CutExists ==
    ASSUME PeerAssumption, NEW len \in Nat
    PROVE  \E f : CutEquation(f, len)
<1> DEFINE Solves(f, k) == \A n \in Nat : n >= len - k => f[n] = Cut(f, n, len)
           K == {k \in 0..len : \E f \in [Nat -> Nat] : Solves(f, k)}
<1>0. MaxKnown \in Nat /\ MaxKnown >= 2
  BY DEF PeerAssumption
<1>1. 0 \in K
  <2>1. [n \in Nat |-> n] \in [Nat -> Nat]
    OBVIOUS
  <2>2. Solves([n \in Nat |-> n], 0)
    BY <1>0 DEF Cut
  <2>3. 0 \in 0..len
    OBVIOUS
  <2> HIDE DEF Solves
  <2> QED
    BY <2>1, <2>2, <2>3
<1>2. ASSUME NEW k \in K, k < len PROVE k + 1 \in K
  <2>1. k \in Nat /\ k + 1 \in 0..len
    BY <1>2
  <2>2. PICK f \in [Nat -> Nat] : Solves(f, k)
    BY <1>2
  <2> DEFINE m == len - (k + 1)
             g == [f EXCEPT ![m] = Cut(f, m, len)]
  <2>3. m \in Nat /\ m <= len
    BY <1>2, <2>1
  <2>4. len - m > MaxKnown =>
          (len - m) \div 3 \in Nat /\ (len - m) \div 3 >= 1
    <3> SUFFICES ASSUME len - m > MaxKnown
                 PROVE  (len - m) \div 3 \in Nat /\ (len - m) \div 3 >= 1
      OBVIOUS
    <3>1. len - m \in Nat /\ len - m >= 3
      BY <1>0, <2>3
    <3> HIDE DEF m
    <3> QED
      BY <3>1, ThirdOf
  <2>5. Cut(f, m, len) \in Nat
    <3> DEFINE d == (len - m) \div 3
    <3>1. len - m > MaxKnown => m + d \in Nat
      <4> HIDE DEF m
      <4> QED
        BY <2>3, <2>4
    <3> HIDE DEF m
    <3> QED
      BY <2>3, <3>1 DEF Cut
  <2>6. g \in [Nat -> Nat] /\ g[m] = Cut(f, m, len) /\ \A n \in Nat : n # m => g[n] = f[n]
    BY <2>3, <2>5
  <2>7. Cut(g, m, len) = Cut(f, m, len)
    <3> HIDE DEF g, m
    <3> QED
      BY <2>3, <2>4, <2>6 DEF Cut
  <2>8. ASSUME NEW n \in Nat, n >= len - (k + 1), n # m PROVE g[n] = Cut(g, n, len)
    <3>1. n >= len - k /\ n > m
      BY <2>1, <2>8
    <3>2. f[n] = Cut(f, n, len)
      BY <2>2, <3>1
    <3>3. len - n > MaxKnown => (len - n) \div 3 \in Nat
      <4> SUFFICES ASSUME len - n > MaxKnown PROVE (len - n) \div 3 \in Nat
        OBVIOUS
      <4>1. len - n \in Nat /\ len - n >= 3
        BY <1>0
      <4> QED
        BY <4>1, ThirdOf
    <3> HIDE DEF g, m
    <3>4. Cut(g, n, len) = Cut(f, n, len)
      BY <2>3, <2>6, <3>1, <3>3 DEF Cut
    <3> QED
      BY <2>6, <2>8, <3>2, <3>4
  <2>9. Solves(g, k + 1)
    <3> HIDE DEF g
    <3> QED
      BY <2>6, <2>7, <2>8
  <2> QED
    BY <2>1, <2>6, <2>9
<1>3. len \in K
  <2>1. K \in SUBSET (0..len)
    OBVIOUS
  <2> HIDE DEF K
  <2> QED
    BY <1>1, <1>2, <2>1, PrefixesReached
<1>4. PICK f \in [Nat -> Nat] : Solves(f, len)
  BY <1>3
<1>5. \A n \in Nat : f[n] = Cut(f, n, len)
  BY <1>4
<1> QED
  BY <1>5 DEF CutEquation

\* It stops within the list, with no more left than the limit.
LEMMA CutStops ==
    ASSUME PeerAssumption, NEW len \in Nat, NEW f, CutEquation(f, len)
    PROVE  f[0] \in 0..len /\ len - f[0] <= MaxKnown
<1> DEFINE Stops(n) == f[n] \in n..len /\ len - f[n] <= MaxKnown
           K == {k \in 0..len : \A n \in (len - k)..len : Stops(n)}
<1>0. MaxKnown \in Nat /\ MaxKnown >= 2
  BY DEF PeerAssumption
<1>1. \A n \in Nat : f[n] = Cut(f, n, len)
  BY DEF CutEquation
<1>2. 0 \in K
  <2>1. Stops(len)
    BY <1>0, <1>1 DEF Cut
  <2> HIDE DEF Stops
  <2> QED
    BY <2>1
<1>3. ASSUME NEW k \in K, k < len PROVE k + 1 \in K
  <2> DEFINE m == len - (k + 1)
  <2>1. k \in Nat /\ k + 1 \in 0..len /\ m \in 0..len
    BY <1>3
  <2>2. \A n \in (len - k)..len : Stops(n)
    BY <1>3
  <2>3. Stops(m)
    <3>1. CASE ~(len - m > MaxKnown)
      BY <1>0, <1>1, <2>1, <3>1 DEF Cut
    <3>2. CASE len - m > MaxKnown
      <4> DEFINE s == m + (len - m) \div 3
      <4>1. len - m \in Nat /\ len - m >= 3
        BY <1>0, <2>1, <3>2
      <4>2. /\ (len - m) \div 3 \in Nat /\ (len - m) \div 3 >= 1
            /\ (len - m) \div 3 < len - m
        <5> HIDE DEF m
        <5> QED
          BY <4>1, ThirdOf
      <4>3. s \in Nat /\ m < s /\ s < len
        <5> DEFINE d == (len - m) \div 3
        <5>1. d \in Nat /\ d >= 1 /\ d < len - m
          BY <4>2
        <5> HIDE DEF d, m
        <5> QED
          BY <2>1, <5>1 DEF d
      <4>4. f[m] = f[s]
        BY <1>1, <2>1, <3>2 DEF Cut
      <4>5. s \in (len - k)..len
        <5> HIDE DEF s
        <5> QED
          BY <2>1, <4>3
      <4> HIDE DEF s, m
      <4> QED
        BY <2>1, <2>2, <4>3, <4>4, <4>5
    <3> QED
      BY <3>1, <3>2
  <2>4. \A n \in (len - (k + 1))..len : n = m \/ n \in (len - k)..len
    BY <2>1
  <2> HIDE DEF Stops
  <2> QED
    BY <2>1, <2>2, <2>3, <2>4
<1>4. len \in K
  <2>1. K \in SUBSET (0..len)
    OBVIOUS
  <2> HIDE DEF K
  <2> QED
    BY <1>2, <1>3, <2>1, PrefixesReached
<1>5. 0 \in (len - len)..len
  OBVIOUS
<1> QED
  BY <1>4, <1>5

\* array_rm_range: the limit of knownBlockHashes is kept, and what stays is
\* what was announced last.
LEMMA TrimTail ==
    ASSUME PeerAssumption, NEW S, NEW hashes \in Seq(S)
    PROVE  \E k \in 0..Len(hashes) : /\ Trim(hashes) = SubSeq(hashes, k + 1, Len(hashes))
                                     /\ Len(hashes) - k <= MaxKnown
<1> DEFINE len == Len(hashes)
<1>1. len \in Nat
  OBVIOUS
<1>2. PICK f : /\ Trim(hashes) = SubSeq(hashes, f[0] + 1, Len(hashes))
               /\ f = CHOOSE e : CutEquation(e, len)
  BY DEF Trim, CutEquation, Cut
<1>3. CutEquation(f, len)
  BY <1>1, <1>2, CutExists
<1>4. f[0] \in 0..len /\ len - f[0] <= MaxKnown
  <2> HIDE DEF len
  <2> QED
    BY <1>1, <1>3, CutStops
<1> QED
  BY <1>2, <1>4

-----------------------------------------------------------------------------
(* The types of the other fields *)

ConnType ==
    /\ status \in {"disconnected", "connecting", "connected"}
    /\ waitingForNetwork \in BOOLEAN
    /\ socket \in BOOLEAN
    /\ disconnectTime \in BOOLEAN
    /\ handshake \in [sentVerack : BOOLEAN, gotVerack : BOOLEAN, done : BOOLEAN]

\* What was announced, and the part of it that can be asked for again.
AnnouncedInv ==
    /\ announced \in Seq(Blocks)
    /\ lastBlockHash \in Blocks \cup {None}
    /\ TailOf(knownBlocks, announced)
    /\ Len(knownBlocks) <= MaxKnown

DataType ==
    /\ sent \in [filter : BOOLEAN, mempool : BOOLEAN, getdata : BOOLEAN]
    /\ needsFilterUpdate \in BOOLEAN
    /\ mempoolTime \in BOOLEAN
    /\ knownTxs \subseteq Txs

BlockType ==
    /\ currentBlock \in Blocks \cup {None}
    /\ missing \subseteq Txs
    /\ collected \subseteq Txs

\* A send changes the socket at most.
LEMMA ConnSent == ASSUME ConnType, Send \/ UNCHANGED conn PROVE ConnType'
  BY DEF ConnType, Send, conn

\* Socket, status and handshake keep their types.
LEMMA ConnStep ==
    ASSUME ConnType, [Next]_vars
    PROVE  ConnType'
<1>1. CASE Open
  BY <1>1, ConnSent
  DEF Open, Connect, CreateSocket, Fallback, SocketConnected, OpenFails, ConnType
<1>2. CASE AcceptVersion \/ AcceptVerack
  BY <1>2 DEF AcceptVersion, AcceptVerack, ConnType
<1>3. CASE CloseSocket \/ SetDisconnected \/ Disconnect
  BY <1>3 DEF CloseSocket, SetDisconnected, Disconnect, ConnType
<1>4. CASE \/ AcceptPong \/ Answer \/ Incomplete
           \/ \E t : AcceptTx(t)
           \/ \E b : AcceptMerkleblock(b)
           \/ \E txs, hashes : AcceptInv(txs, hashes)
           \/ Limits \/ DrainPong \/ DrainMempool \/ Disconnected \/ UNCHANGED vars
  BY <1>4, ConnSent
  DEF AcceptPong, Answer, Incomplete, AcceptTx, AcceptMerkleblock, AcceptInv, Limits,
      MempoolTimeout, MempoolCallbackNull, MempoolTimeMax, DisconnectTimeout, LoopEnds,
      DrainPong, DrainMempool, Disconnected, vars
<1>5. CASE \/ \E c : SendPing(c)
           \/ \E c, txs : SendMempool(c, txs)
           \/ SendFilterload \/ SendGetdata
           \/ \E x : SetNeedsFilterUpdate(x) \/ RerequestBlocks(x) \/ SendInv(x)
  BY <1>5, ConnSent
  DEF SendPing, SendMempool, SendFilterload, SendGetdata, SetNeedsFilterUpdate,
      RerequestBlocks, SendInv
<1> QED
  BY <1>1, <1>2, <1>3, <1>4, <1>5 DEF Next, Accept, End, Calls

\* A merkleblock holds transactions.
LEMMA BlockTypeStep ==
    ASSUME PeerAssumption, BlockType, DataType, [Next]_vars
    PROVE  BlockType'
<1>1. CASE Open \/ Limits \/ End \/ UNCHANGED vars
  BY <1>1
  DEF Open, Limits, End, Connect, CreateSocket, Fallback, SocketConnected, OpenFails,
      MempoolTimeout, MempoolCallbackNull, MempoolTimeMax, DisconnectTimeout, LoopEnds,
      CloseSocket, SetDisconnected, DrainPong, DrainMempool, Disconnected, vars, data, block,
      BlockType
<1>2. CASE AcceptVersion \/ AcceptVerack \/ AcceptPong \/ Answer \/ Incomplete
  BY <1>2
  DEF AcceptVersion, AcceptVerack, AcceptPong, Answer, Incomplete, data, block, BlockType
<1>3. ASSUME NEW txs, NEW hashes, AcceptInv(txs, hashes) PROVE BlockType'
  BY <1>3 DEF AcceptInv, block, BlockType
<1>4. ASSUME NEW t \in Txs, AcceptTx(t) PROVE BlockType'
  BY <1>4 DEF AcceptTx, block, BlockType
<1>5. ASSUME NEW b \in Blocks, AcceptMerkleblock(b) PROVE BlockType'
  BY <1>5 DEF AcceptMerkleblock, BlockType, PeerAssumption
<1>6. CASE Calls
  BY <1>6
  DEF Calls, SendPing, SendMempool, SendFilterload, SendGetdata, Disconnect,
      SetNeedsFilterUpdate, RerequestBlocks, SendInv, data, block, BlockType
<1> QED
  BY <1>1, <1>2, <1>3, <1>4, <1>5, <1>6 DEF Next, Accept

\* So do the requests sent and the transactions known.
LEMMA DataStep ==
    ASSUME PeerAssumption, DataType, [Next]_vars
    PROVE  DataType'
<1>1. CASE Open \/ Limits \/ End \/ UNCHANGED vars
  BY <1>1
  DEF Open, Limits, End, Connect, CreateSocket, Fallback, SocketConnected, OpenFails,
      MempoolTimeout, MempoolPing, MempoolCallbackNull, MempoolTimeMax, DisconnectTimeout, LoopEnds,
      CloseSocket, SetDisconnected, DrainPong, DrainMempool, Disconnected, vars, data, chain,
      calls, DataType
<1>2. CASE \/ AcceptVersion \/ AcceptVerack \/ AcceptPong \/ Answer \/ Incomplete
           \/ \E t : AcceptTx(t)
           \/ \E b : AcceptMerkleblock(b)
  BY <1>2
  DEF AcceptVersion, AcceptVerack, AcceptPong, Answer, Incomplete, AcceptTx,
      AcceptMerkleblock, data, chain, calls, DataType
<1>3. ASSUME NEW txs \in SUBSET Mempool, NEW hashes, AcceptInv(txs, hashes) PROVE DataType'
  <2>1. sent' \in [filter : BOOLEAN, mempool : BOOLEAN, getdata : BOOLEAN]
    <3>1. PICK g \in BOOLEAN : sent' = [sent EXCEPT !.getdata = g]
      BY <1>3 DEF AcceptInv, DataType
    <3> QED
      BY <3>1 DEF DataType
  <2> QED
    BY <1>3, <2>1 DEF AcceptInv, MempoolAnswer, MempoolPing, calls, DataType, PeerAssumption
<1>4. CASE \/ \E c : SendPing(c)
           \/ SendFilterload \/ SendGetdata \/ Disconnect
           \/ \E needs \in BOOLEAN : SetNeedsFilterUpdate(needs)
           \/ \E b : RerequestBlocks(b)
  BY <1>4
  DEF SendPing, SendFilterload, SendGetdata, Disconnect, SetNeedsFilterUpdate,
      RerequestBlocks, data, chain, calls, DataType
<1>5. ASSUME NEW c, NEW txs \in SUBSET Mempool, SendMempool(c, txs) PROVE DataType'
  BY <1>5 DEF SendMempool, chain, DataType, PeerAssumption
<1>6. ASSUME NEW t \in Mempool, SendInv({t}) PROVE DataType'
  BY <1>6 DEF SendInv, chain, calls, DataType, PeerAssumption
<1> QED
  BY <1>1, <1>2, <1>3, <1>4, <1>5, <1>6 DEF Next, Accept, Calls

\* An announcement is added, and the limit kept by what stays.
LEMMA InvAnnounced ==
    ASSUME PeerAssumption, AnnouncedInv, NEW txs, NEW hashes \in Invs, AcceptInv(txs, hashes)
    PROVE  AnnouncedInv'
<1> DEFINE counted == Counted(hashes)
<1>1. counted \in Seq(Blocks)
  BY DEF Counted, PeerAssumption
<1>2. /\ announced' = announced \o counted
      /\ knownBlocks' = Trim(knownBlocks \o counted)
      /\ lastBlockHash' = IF Len(counted) = 1 THEN counted[1] ELSE lastBlockHash
  BY DEF AcceptInv, Remembered
<1> HIDE DEF counted
<1>3. PICK j \in 0..Len(announced) : knownBlocks = SubSeq(announced, j + 1, Len(announced))
  BY DEF AnnouncedInv, TailOf
<1>4. knownBlocks \in Seq(Blocks) /\ announced \in Seq(Blocks)
  BY <1>3, TailElements DEF AnnouncedInv
<1> DEFINE grown == knownBlocks \o counted
<1>5. grown \in Seq(Blocks) /\ announced' \in Seq(Blocks)
  BY <1>1, <1>2, <1>4
<1>6. TailOf(grown, announced')
  BY <1>1, <1>2, <1>4, TailOfConcat DEF AnnouncedInv
<1> HIDE DEF grown
<1>7. PICK k \in 0..Len(grown) : /\ Trim(grown) = SubSeq(grown, k + 1, Len(grown))
                                 /\ Len(grown) - k <= MaxKnown
  BY <1>5, TrimTail
<1>8. knownBlocks' = SubSeq(grown, k + 1, Len(grown))
  BY <1>2, <1>7 DEF grown
<1>9. TailOf(knownBlocks', announced')
  BY <1>5, <1>6, <1>8, TailOfTail
<1>10. Len(knownBlocks') <= MaxKnown
  BY <1>5, <1>7, <1>8, TailElements
<1>11. lastBlockHash' \in Blocks \cup {None}
  <2>1. Len(counted) = 1 => counted[1] \in Blocks
    <3>1. Len(counted) = 1 => 1 \in 1..Len(counted)
      OBVIOUS
    <3> QED
      BY <1>1, <3>1, ElementOfSeq
  <2> QED
    BY <1>2, <2>1 DEF AnnouncedInv
<1> QED
  BY <1>5, <1>9, <1>10, <1>11 DEF AnnouncedInv

\* A re-request cuts the list off before the last announcement of a block.
LEMMA RerequestAnnounced ==
    ASSUME PeerAssumption, AnnouncedInv, NEW from, RerequestBlocks(from)
    PROVE  AnnouncedInv'
<1>1. PICK j \in 0..Len(announced) : knownBlocks = SubSeq(announced, j + 1, Len(announced))
  BY DEF AnnouncedInv, TailOf
<1>2. knownBlocks \in Seq(Blocks) /\ announced \in Seq(Blocks)
  BY <1>1, TailElements DEF AnnouncedInv
<1> DEFINE I == {i \in 1..Len(knownBlocks) : knownBlocks[i] = from}
           P(i) == /\ knownBlocks[i] = from
                   /\ \A k \in i + 1 .. Len(knownBlocks) : knownBlocks[k] # from
           i0 == CHOOSE i \in DOMAIN knownBlocks : P(i)
<1>3. Len(knownBlocks) \in Nat /\ DOMAIN knownBlocks = 1..Len(knownBlocks)
  BY <1>2, LenProperties
<1>4. I # {} /\ I \in SUBSET (1..Len(knownBlocks))
  BY <1>3 DEF RerequestBlocks, Range
<1>5. Max(I) \in I /\ \A k \in I : k <= Max(I)
  <2> HIDE DEF I
  <2> QED
    BY <1>3, <1>4, MaxIndex
<1>6. P(Max(I)) /\ Max(I) \in DOMAIN knownBlocks
  <2> DEFINE top == Max(I)
  <2>1. top \in 1..Len(knownBlocks) /\ knownBlocks[top] = from
    BY <1>5
  <2>2. ASSUME NEW k \in top + 1 .. Len(knownBlocks) PROVE knownBlocks[k] # from
    <3> HIDE DEF top
    <3>1. k \in 1..Len(knownBlocks) /\ ~(k <= top)
      BY <1>3, <2>1
    <3> QED
      BY <1>5, <3>1 DEF top
  <2> QED
    BY <1>3, <2>1, <2>2
<1>7. i0 \in 1..Len(knownBlocks)
  <2> HIDE DEF P, I
  <2> QED
    BY <1>3, <1>6
<1>8. knownBlocks' = SubSeq(knownBlocks, i0, Len(knownBlocks))
  BY DEF RerequestBlocks
<1> HIDE DEF i0
<1>9. i0 - 1 \in 0..Len(knownBlocks) /\ (i0 - 1) + 1 = i0 /\ i0 - 1 \in Nat
  BY <1>3, <1>7
<1>10. knownBlocks' = SubSeq(knownBlocks, (i0 - 1) + 1, Len(knownBlocks))
  BY <1>8, <1>9
<1>11. TailOf(knownBlocks', announced)
  BY <1>2, <1>9, <1>10, TailOfTail DEF AnnouncedInv
<1>12. Len(knownBlocks') = Len(knownBlocks) - (i0 - 1)
  BY <1>2, <1>9, <1>10, TailElements
<1>13. Len(knownBlocks') <= MaxKnown
  BY <1>3, <1>9, <1>12 DEF AnnouncedInv, PeerAssumption
<1> QED
  BY <1>11, <1>13 DEF AnnouncedInv, RerequestBlocks

\* Only announcements and re-requests touch the list.
LEMMA AnnouncedStep ==
    ASSUME PeerAssumption, AnnouncedInv, [Next]_vars
    PROVE  AnnouncedInv'
<1>1. ASSUME NEW txs, NEW hashes \in Invs, AcceptInv(txs, hashes) PROVE AnnouncedInv'
  BY <1>1, InvAnnounced
<1>2. ASSUME NEW from, RerequestBlocks(from) PROVE AnnouncedInv'
  BY <1>2, RerequestAnnounced
<1>3. ASSUME UNCHANGED <<knownBlocks, lastBlockHash, announced>> PROVE AnnouncedInv'
  BY <1>3 DEF AnnouncedInv
<1>4. CASE Open \/ Limits \/ End \/ UNCHANGED vars
  BY <1>3, <1>4
  DEF Open, Limits, End, Connect, CreateSocket, Fallback, SocketConnected, OpenFails,
      MempoolTimeout, MempoolCallbackNull, MempoolTimeMax, DisconnectTimeout, LoopEnds,
      CloseSocket, SetDisconnected, DrainPong, DrainMempool, Disconnected, vars, data, chain
<1>5. CASE \/ AcceptVersion \/ AcceptVerack \/ AcceptPong \/ Answer \/ Incomplete
           \/ \E t : AcceptTx(t)
           \/ \E b : AcceptMerkleblock(b)
  BY <1>3, <1>5
  DEF AcceptVersion, AcceptVerack, AcceptPong, Answer, Incomplete, AcceptTx,
      AcceptMerkleblock, data, chain
<1>6. CASE \/ \E c : SendPing(c)
           \/ \E c, txs : SendMempool(c, txs)
           \/ SendFilterload \/ SendGetdata \/ Disconnect
           \/ \E x : SetNeedsFilterUpdate(x) \/ SendInv(x)
  BY <1>3, <1>6
  DEF SendPing, SendMempool, SendFilterload, SendGetdata, Disconnect, SetNeedsFilterUpdate,
      SendInv, data, chain
<1> QED
  BY <1>1, <1>2, <1>4, <1>5, <1>6 DEF Next, Accept, Calls

\* Every field keeps its type.
FieldsInv == ConnType /\ DataType /\ BlockType /\ AnnouncedInv

\* A new peer knows nothing.
LEMMA FieldsInit ==
    ASSUME PeerAssumption, Init
    PROVE  FieldsInv
<1>1. <<>> \in Seq(Blocks) /\ Len(<<>>) = 0 /\ SubSeq(<<>>, 1, 0) = <<>>
  OBVIOUS
<1>2. 0 \in 0..Len(<<>>) /\ <<>> = SubSeq(<<>>, 0 + 1, Len(<<>>))
  OBVIOUS
<1>3. TailOf(<<>>, <<>>)
  BY <1>2 DEF TailOf
<1>4. AnnouncedInv
  BY <1>1, <1>3 DEF Init, AnnouncedInv, PeerAssumption
<1> QED
  BY <1>4 DEF Init, FieldsInv, ConnType, DataType, BlockType

\* Every field keeps its type in every reachable state.
THEOREM FieldsInvariant == Spec => []FieldsInv
<1> USE PeerAssumption
<1>1. Init => FieldsInv
  BY FieldsInit
<1>2. FieldsInv /\ [Next]_vars => FieldsInv'
  BY ConnStep, DataStep, BlockTypeStep, AnnouncedStep DEF FieldsInv
<1> QED
  BY <1>1, <1>2, PTL DEF Spec

\* What can be asked for again is the end of what was announced (BRPeer.c:355,
\* 1517).
THEOREM KnownBlocksAreTail == Spec => []KnownIsTail
<1>1. FieldsInv => KnownIsTail
  BY TailIsSuffix DEF FieldsInv, AnnouncedInv, KnownIsTail
<1> QED
  BY <1>1, FieldsInvariant, PTL

\* All fields have their types, and the limit of knownBlockHashes holds.
THEOREM PeerTyped == Spec => []TypeOK
<1>1. FieldsInv /\ CallsInv => TypeOK
  <2> SUFFICES ASSUME FieldsInv, CallsInv PROVE TypeOK
    OBVIOUS
  <2>1. PICK j \in 0..Len(announced) : knownBlocks = SubSeq(announced, j + 1, Len(announced))
    BY DEF FieldsInv, AnnouncedInv, TailOf
  <2>2. knownBlocks \in Seq(Blocks)
    BY <2>1, TailElements DEF FieldsInv, AnnouncedInv
  <2> QED
    BY <2>2 DEF TypeOK, FieldsInv, ConnType, DataType, BlockType, AnnouncedInv, CallsInv,
                CallsType
<1> QED
  BY <1>1, FieldsInvariant, CallsInvariant, PTL

=============================================================================
