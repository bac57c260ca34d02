-------------------------- MODULE BRTxRelayProofs --------------------------
(***************************************************************************)
(* The callback of a publication is called once at most, its object has    *)
(* one owner until it is freed, and the peers that were told of it have a  *)
(* time limit.  For any transactions, publications and peers, any number   *)
(* of messages and connections.                                            *)
(***************************************************************************)
EXTENDS BRTxRelay, TLAPS

USE RelayAssumption

\* What is reached from t stays in any set that the graph does not leave.
LEMMA ReachStays ==
    ASSUME NEW t \in Txs, NEW graph, NEW S \in SUBSET Txs, t \in S,
           \A y \in S : graph[y] \subseteq S
    PROVE  Reach(t, graph) \subseteq S
  BY DEF Reach

\* Listing a transaction leaves the entries of the list as they are, and takes
\* the others from the wallet.
LEMMA AddsNew ==
    ASSUME NEW t \in Txs, NEW object, NEW w, publishedTx \in [Txs -> Objects \cup {None, Gone}]
    PROVE  /\ Adds(t, object, w) \in [Txs -> {Adds(t, object, w)[x] : x \in Txs}]
           /\ \A x \in Txs :
                 \/ Adds(t, object, w)[x] = publishedTx[x]
                 \/ publishedTx[x] = None /\ x = t /\ Adds(t, object, w)[x] = object
                 \/ publishedTx[x] = None /\ x # t /\ Adds(t, object, w)[x] = w[x]
<1>1. CASE publishedTx[t] # None
  BY <1>1 DEF Adds
<1>2. CASE publishedTx[t] = None
  <2> DEFINE inputs == [x \in Txs |-> {i \in Inputs[x] : /\ w[i] # None
                                                         /\ i \notin confirmed
                                                         /\ publishedTx[i] = None}]
             free == {x \in Txs : publishedTx[x] = None}
  <2>1. Reach(t, inputs) \subseteq free
    <3>1. \A y \in free : inputs[y] \subseteq free
      OBVIOUS
    <3> HIDE DEF inputs
    <3> QED
      BY <1>2, <3>1, ReachStays
  <2>2. Adds(t, object, w) =
          [x \in Txs |-> IF x = t THEN object
                         ELSE IF x \in Reach(t, inputs) THEN w[x] ELSE publishedTx[x]]
    BY <1>2 DEF Adds
  <2> HIDE DEF inputs
  <2> QED
    BY <1>2, <2>1, <2>2
<1> QED
  BY <1>1, <1>2

LEMMA CountTyped ==
    ASSUME NEW counts \in [Publications -> Nat], NEW ks
    PROVE  /\ Count(counts, ks) \in [Publications -> Nat]
           /\ \A k \in Publications :
                 Count(counts, ks)[k] = IF k \in ks THEN counts[k] + 1 ELSE counts[k]
  BY DEF Count

-----------------------------------------------------------------------------
(* Types *)

ListTyped ==
    /\ wallet \in [Txs -> Objects \cup {None}]
    /\ publishedTx \in [Txs -> Objects \cup {None, Gone}]
    /\ callback \in [Txs -> Publications \cup {None}]
    /\ call \in [Publications -> {"none", "checking", "made"}]
    /\ answers \in [Publications -> Nat]
    /\ frees \in [Publications -> Nat]

\* Who holds the object of a publication, and which answer is due.
Holders ==
    /\ \A t \in Txs : callback[t] # None => publishedTx[t] = callback[t]
    /\ \A t \in Txs, k \in Publications :
          publishedTx[t] = k => t = TxOf[k] /\ call[k] = "made" /\ frees[k] = 0
    /\ \A t \in Txs, k \in Publications :
          wallet[t] = k =>
              t = TxOf[k] /\ call[k] = "made" /\ frees[k] = 0 /\ callback[t] # k
    /\ \A k \in Publications : callback[TxOf[k]] = k => answers[k] = 0
    /\ \A k \in Publications : call[k] # "made" => answers[k] = 0 /\ frees[k] = 0
    /\ \A k \in Publications : answers[k] <= 1 /\ frees[k] <= 1

OwnInv == ListTyped /\ Holders

LEMMA NamesApart == \A k \in Publications : k \notin {None, Copy, Gone}
  OBVIOUS

USE NamesApart

LEMMA OwnInit == Init => OwnInv
  BY DEF Init, OwnInv, ListTyped, Holders, Objects

LEMMA PublishOwned ==
    ASSUME OwnInv, NEW k \in Publications, Publish(k)
    PROVE  OwnInv'
<1> DEFINE t == TxOf[k]
<1>1. t \in Txs
  OBVIOUS
<1>2. /\ \A x \in Txs : \/ publishedTx'[x] = publishedTx[x]
                        \/ publishedTx[x] = None /\ x = t /\ publishedTx'[x] = k
                        \/ publishedTx[x] = None /\ x # t /\ publishedTx'[x] = wallet[x]
      /\ publishedTx' \in [Txs -> {publishedTx'[x] : x \in Txs}]
  BY <1>1, AddsNew DEF Publish, OwnInv, ListTyped
<1>3. callback' = IF publishedTx[t] = None THEN [callback EXCEPT ![t] = k] ELSE callback
  BY DEF Publish
<1>4. /\ call[k] # "made"
      /\ call' = [call EXCEPT ![k] = "made"]
      /\ UNCHANGED <<wallet, answers, frees>>
  BY DEF Publish
<1>5. publishedTx[t] = None => publishedTx'[t] = k
  <2>1. ASSUME publishedTx[t] = None
        PROVE  publishedTx'[t] = k
    BY <1>1, <2>1 DEF Publish, Adds
  <2> QED
    BY <2>1
<1> HIDE DEF t
<1>6. ListTyped'
  <2>1. publishedTx' \in [Txs -> Objects \cup {None, Gone}]
    <3>1. \A x \in Txs : publishedTx'[x] \in Objects \cup {None, Gone}
      BY <1>2 DEF OwnInv, ListTyped, Objects
    <3> QED
      BY <1>2, <3>1
  <2>2. callback' \in [Txs -> Publications \cup {None}]
    BY <1>1, <1>3 DEF OwnInv, ListTyped
  <2>3. call' \in [Publications -> {"none", "checking", "made"}]
    BY <1>4 DEF OwnInv, ListTyped
  <2> QED
    BY <1>4, <2>1, <2>2, <2>3 DEF OwnInv, ListTyped
<1>7. Holders'
  <2> USE DEF OwnInv, ListTyped, Holders
  <2>1. \A x \in Txs : callback'[x] # None => publishedTx'[x] = callback'[x]
    BY <1>1, <1>2, <1>3, <1>5
  <2>2. \A x \in Txs, j \in Publications :
           publishedTx'[x] = j => x = TxOf[j] /\ call'[j] = "made" /\ frees'[j] = 0
    BY <1>1, <1>2, <1>4 DEF t
  <2>3. \A x \in Txs, j \in Publications :
           wallet'[x] = j =>
               x = TxOf[j] /\ call'[j] = "made" /\ frees'[j] = 0 /\ callback'[x] # j
    BY <1>1, <1>3, <1>4
  <2>4. \A j \in Publications : callback'[TxOf[j]] = j => answers'[j] = 0
    BY <1>1, <1>3, <1>4
  <2>5. \A j \in Publications : call'[j] # "made" => answers'[j] = 0 /\ frees'[j] = 0
    BY <1>4
  <2>6. \A j \in Publications : answers'[j] <= 1 /\ frees'[j] <= 1
    BY <1>4
  <2> QED
    BY <2>1, <2>2, <2>3, <2>4, <2>5, <2>6
<1> QED
  BY <1>6, <1>7 DEF OwnInv

LEMMA RefusedOwned ==
    ASSUME OwnInv, NEW k \in Publications, PublishChecks(k) \/ PublishRefused(k)
    PROVE  OwnInv'
<1>1. CASE PublishChecks(k)
  BY <1>1 DEF PublishChecks, OwnInv, ListTyped, Holders, list
<1>2. CASE PublishRefused(k)
  <2>1. /\ answers' \in [Publications -> Nat]
        /\ \A j \in Publications : answers'[j] = IF j = k THEN answers[j] + 1 ELSE answers[j]
        /\ frees' \in [Publications -> Nat]
        /\ \A j \in Publications : frees'[j] = IF j = k THEN frees[j] + 1 ELSE frees[j]
    BY <1>2, CountTyped DEF PublishRefused, Free, OwnInv, ListTyped
  <2>2. /\ call[k] = "checking"
        /\ call' = [call EXCEPT ![k] = "made"]
        /\ UNCHANGED <<wallet, publishedTx, callback>>
    BY <1>2 DEF PublishRefused, list
  <2> USE DEF OwnInv, ListTyped, Holders
  <2>3. ListTyped'
    BY <2>1, <2>2
  <2>4. \A x \in Txs, j \in Publications :
           publishedTx'[x] = j => x = TxOf[j] /\ call'[j] = "made" /\ frees'[j] = 0
    BY <2>1, <2>2
  <2>5. \A x \in Txs, j \in Publications :
           wallet'[x] = j =>
               x = TxOf[j] /\ call'[j] = "made" /\ frees'[j] = 0 /\ callback'[x] # j
    BY <2>1, <2>2
  <2>6. callback[TxOf[k]] # k
    BY <2>2
  <2>7. \A j \in Publications : /\ callback'[TxOf[j]] = j => answers'[j] = 0
                                /\ call'[j] # "made" => answers'[j] = 0 /\ frees'[j] = 0
                                /\ answers'[j] <= 1 /\ frees'[j] <= 1
    BY <2>1, <2>2, <2>6
  <2> QED
    BY <2>2, <2>3, <2>4, <2>5, <2>7
<1> QED
  BY <1>1, <1>2

\* What Answer does, publication by publication.
LEMMA AnswerTyped ==
    ASSUME OwnInv, NEW txs \in SUBSET Txs, Answer(txs)
    PROVE  /\ callback' \in [Txs -> Publications \cup {None}]
           /\ \A t \in Txs : callback'[t] = IF t \in txs THEN None ELSE callback[t]
           /\ answers' \in [Publications -> Nat]
           /\ \A k \in Publications :
                 answers'[k] = IF TxOf[k] \in txs /\ callback[TxOf[k]] = k THEN answers[k] + 1
                               ELSE answers[k]
<1>1. \A k \in Publications, t \in Txs : callback[t] = k => t = TxOf[k]
  BY DEF OwnInv, ListTyped, Holders
<1>2. \A k \in Publications :
         k \in {callback[t] : t \in txs} <=> TxOf[k] \in txs /\ callback[TxOf[k]] = k
  BY <1>1
<1> QED
  BY <1>2, CountTyped DEF Answer, OwnInv, ListTyped

\* A handler that takes the callback of t, may list t and what it spends from
\* the wallet, and registers t with the object of the list or a copy.
LEMMA HeardOwned ==
    ASSUME OwnInv, NEW t \in Txs, Answer({t}), UNCHANGED <<call, frees>>,
           NEW object \in {Copy, publishedTx[t]}, object \in Objects \/ wallet[t] # None,
           Register(t, object),
           \/ UNCHANGED publishedTx
           \/ publishedTx' = Adds(t, wallet'[t], wallet')
    PROVE  OwnInv'
<1>1. /\ wallet' \in [Txs -> Objects \cup {None}]
      /\ \A x \in Txs : \/ wallet'[x] = wallet[x]
                        \/ x = t /\ wallet[x] = None /\ wallet'[x] = object
  BY DEF Register, OwnInv, ListTyped
<1>2. /\ publishedTx' \in [Txs -> Objects \cup {None, Gone}]
      /\ \A x \in Txs : \/ publishedTx'[x] = publishedTx[x]
                        \/ publishedTx[x] = None /\ publishedTx'[x] = wallet'[x]
  <2>1. CASE UNCHANGED publishedTx
    BY <2>1 DEF OwnInv, ListTyped
  <2>2. CASE publishedTx' = Adds(t, wallet'[t], wallet')
    <3>1. /\ publishedTx' \in [Txs -> {publishedTx'[x] : x \in Txs}]
          /\ \A x \in Txs : \/ publishedTx'[x] = publishedTx[x]
                            \/ publishedTx[x] = None /\ publishedTx'[x] = wallet'[x]
      BY <2>2, AddsNew DEF OwnInv, ListTyped
    <3> QED
      BY <1>1, <3>1 DEF OwnInv, ListTyped, Objects
  <2> QED
    BY <2>1, <2>2
<1>3. /\ callback' \in [Txs -> Publications \cup {None}]
      /\ \A x \in Txs : callback'[x] = IF x = t THEN None ELSE callback[x]
      /\ answers' \in [Publications -> Nat]
      /\ \A k \in Publications :
            answers'[k] = IF TxOf[k] = t /\ callback[t] = k THEN answers[k] + 1 ELSE answers[k]
  BY AnswerTyped
<1> USE DEF OwnInv, ListTyped, Holders
<1>4. ListTyped'
  BY <1>1, <1>2, <1>3
<1>5. \A x \in Txs : callback'[x] # None => publishedTx'[x] = callback'[x]
  BY <1>2, <1>3
<1>6. \A x \in Txs, k \in Publications :
         wallet'[x] = k =>
             x = TxOf[k] /\ call'[k] = "made" /\ frees'[k] = 0 /\ callback'[x] # k
  BY <1>1, <1>3
<1>7. \A x \in Txs, k \in Publications :
         publishedTx'[x] = k => x = TxOf[k] /\ call'[k] = "made" /\ frees'[k] = 0
  BY <1>2, <1>6
<1>8. \A k \in Publications : /\ callback'[TxOf[k]] = k => answers'[k] = 0
                              /\ call'[k] # "made" => answers'[k] = 0 /\ frees'[k] = 0
                              /\ answers'[k] <= 1 /\ frees'[k] <= 1
  BY <1>3
<1> QED
  BY <1>4, <1>5, <1>6, <1>7, <1>8

\* A handler that drops the entries of txs: their callbacks are answered or
\* lost, and what it frees was the list's alone.
LEMMA DroppedOwned ==
    ASSUME OwnInv, NEW txs \in SUBSET Txs, NEW freed,
           UNCHANGED <<wallet, call>>,
           publishedTx' = [t \in Txs |-> IF t \in txs THEN None ELSE publishedTx[t]],
           callback' = [t \in Txs |-> IF t \in txs THEN None ELSE callback[t]],
           Free(freed),
           \A k \in Publications :
               k \in freed => \E t \in txs : publishedTx[t] = k /\ wallet[t] # k,
           answers' \in [Publications -> Nat],
           \A k \in Publications :
               \/ answers'[k] = answers[k]
               \/ TxOf[k] \in txs /\ callback[TxOf[k]] = k /\ answers'[k] = answers[k] + 1
    PROVE  OwnInv'
<1>1. /\ frees' \in [Publications -> Nat]
      /\ \A k \in Publications : frees'[k] = IF k \in freed THEN frees[k] + 1 ELSE frees[k]
  BY CountTyped DEF Free, OwnInv, ListTyped
<1> USE DEF OwnInv, ListTyped, Holders
<1>2. \A k \in Publications :
         k \in freed => /\ TxOf[k] \in txs
                        /\ publishedTx[TxOf[k]] = k
                        /\ wallet[TxOf[k]] # k
                        /\ frees[k] = 0
                        /\ call[k] = "made"
  OBVIOUS
<1>3. ListTyped'
  BY <1>1
<1>4. \A t \in Txs : callback'[t] # None => publishedTx'[t] = callback'[t]
  OBVIOUS
<1>5. \A t \in Txs, k \in Publications :
         publishedTx'[t] = k => t = TxOf[k] /\ call'[k] = "made" /\ frees'[k] = 0
  BY <1>1, <1>2
<1>6. \A t \in Txs, k \in Publications :
         wallet'[t] = k =>
             t = TxOf[k] /\ call'[k] = "made" /\ frees'[k] = 0 /\ callback'[t] # k
  BY <1>1, <1>2
<1>7. \A k \in Publications : callback'[TxOf[k]] = k => answers'[k] = 0
  OBVIOUS
<1>8. \A k \in Publications : call'[k] # "made" => answers'[k] = 0 /\ frees'[k] = 0
  BY <1>1, <1>2
<1>9. \A k \in Publications : answers'[k] <= 1 /\ frees'[k] <= 1
  BY <1>1, <1>2
<1> QED
  BY <1>3, <1>4, <1>5, <1>6, <1>7, <1>8, <1>9

LEMMA InvalidOwned ==
    ASSUME OwnInv, NEW p \in Peers, NEW t \in Txs, RequestedInvalid(p, t)
    PROVE  OwnInv'
<1> DEFINE freed == IF wallet[t] = None THEN {publishedTx[t]} ELSE {}
<1>1. /\ UNCHANGED <<wallet, call>>
      /\ Answer({t})
      /\ Free(freed)
      /\ publishedTx' = [publishedTx EXCEPT ![t] = None]
  BY DEF RequestedInvalid
<1>2. publishedTx' = [x \in Txs |-> IF x \in {t} THEN None ELSE publishedTx[x]]
  BY <1>1 DEF OwnInv, ListTyped
<1>3. callback' = [x \in Txs |-> IF x \in {t} THEN None ELSE callback[x]]
  BY <1>1 DEF Answer
<1>4. \A k \in Publications : k \in freed => \E x \in {t} : publishedTx[x] = k /\ wallet[x] # k
  OBVIOUS
<1> HIDE DEF freed
<1>5. /\ {t} \in SUBSET Txs
      /\ answers' \in [Publications -> Nat]
      /\ \A k \in Publications :
            \/ answers'[k] = answers[k]
            \/ TxOf[k] \in {t} /\ callback[TxOf[k]] = k /\ answers'[k] = answers[k] + 1
  BY <1>1, AnswerTyped
<1> QED
  BY <1>1, <1>2, <1>3, <1>4, <1>5, DroppedOwned

LEMMA BlockOwned ==
    ASSUME OwnInv, NEW p \in Peers, NEW txs \in SUBSET Txs, RelayedBlock(p, txs)
    PROVE  OwnInv'
<1> DEFINE freed == UNION {Unowned(t) : t \in txs}
<1>1. /\ UNCHANGED <<wallet, call, answers>>
      /\ Free(freed)
      /\ publishedTx' = [t \in Txs |-> IF t \in txs THEN None ELSE publishedTx[t]]
      /\ callback' = [t \in Txs |-> IF t \in txs THEN None ELSE callback[t]]
  BY DEF RelayedBlock, Confirm
<1>2. \A k \in Publications : k \in freed => \E t \in txs : publishedTx[t] = k /\ wallet[t] # k
  BY DEF Unowned
<1>3. answers' \in [Publications -> Nat] /\ \A k \in Publications : answers'[k] = answers[k]
  BY <1>1 DEF OwnInv, ListTyped
<1> HIDE DEF freed
<1> QED
  BY <1>1, <1>2, <1>3, DroppedOwned

ownVars == <<wallet, publishedTx, callback, call, answers, frees>>

LEMMA SameOwned == ASSUME OwnInv, UNCHANGED ownVars PROVE OwnInv'
  BY DEF ownVars, OwnInv, ListTyped, Holders

LEMMA DisconnectedOwned ==
    ASSUME OwnInv, NEW p \in Peers, Disconnected(p)
    PROVE  OwnInv'
<1> DEFINE freed == {publishedTx[t] : t \in Canceled}
<1>1. UNCHANGED <<wallet, call>>
  BY DEF Disconnected
<1>2. CASE UNCHANGED <<publishedTx, callback, answers, frees>>
  BY <1>1, <1>2, SameOwned DEF ownVars
<1>3. CASE /\ Answer(Canceled)
           /\ publishedTx' = [t \in Txs |-> IF t \in Canceled THEN None ELSE publishedTx[t]]
           /\ Free(freed)
  <2>1. Canceled \in SUBSET Txs
    BY DEF Canceled, Pending
  <2>2. callback' = [t \in Txs |-> IF t \in Canceled THEN None ELSE callback[t]]
    BY <1>3 DEF Answer
  <2>3. \A k \in Publications :
           k \in freed => \E t \in Canceled : publishedTx[t] = k /\ wallet[t] # k
    BY DEF Canceled, Pending, OwnInv, Holders
  <2> HIDE DEF freed
  <2> QED
    BY <1>1, <1>3, <2>1, <2>2, <2>3, AnswerTyped, DroppedOwned
<1> QED
  BY <1>2, <1>3 DEF Disconnected

\* The wallet removes only what no publication waits for.
LEMMA RemovedOwned ==
    ASSUME OwnInv, RemoveUnrelayed, UNCHANGED <<callback, call, answers>>
    PROVE  OwnInv'
<1> DEFINE freed == {wallet[t] : t \in Removed}
<1>1. /\ wallet' = [t \in Txs |-> IF t \in Removed THEN None ELSE wallet[t]]
      /\ publishedTx' = [t \in Txs |-> IF t \in Removed /\ publishedTx[t] = wallet[t] THEN Gone
                                      ELSE publishedTx[t]]
      /\ Free(freed)
  BY DEF RemoveUnrelayed
<1>2. Removed \subseteq Txs
  BY DEF Removed, Reach
<1>3. /\ frees' \in [Publications -> Nat]
      /\ \A k \in Publications : frees'[k] = IF k \in freed THEN frees[k] + 1 ELSE frees[k]
  <2> HIDE DEF freed
  <2> QED
    BY <1>1, CountTyped DEF Free, OwnInv, ListTyped
<1> USE DEF OwnInv, ListTyped, Holders
<1>4. \A k \in Publications :
         k \in freed => /\ TxOf[k] \in Removed
                        /\ wallet[TxOf[k]] = k
                        /\ frees[k] = 0
                        /\ call[k] = "made"
  BY <1>2
<1> HIDE DEF freed
<1>5. ListTyped'
  BY <1>1, <1>3
<1>6. \A t \in Txs : callback'[t] # None => publishedTx'[t] = callback'[t]
  BY <1>1
<1>7. \A t \in Txs, k \in Publications :
         publishedTx'[t] = k => t = TxOf[k] /\ call'[k] = "made" /\ frees'[k] = 0
  BY <1>1, <1>3, <1>4
<1>8. \A t \in Txs, k \in Publications :
         wallet'[t] = k =>
             t = TxOf[k] /\ call'[k] = "made" /\ frees'[k] = 0 /\ callback'[t] # k
  BY <1>1, <1>3, <1>4
<1>9. \A k \in Publications : /\ callback'[TxOf[k]] = k => answers'[k] = 0
                              /\ call'[k] # "made" => answers'[k] = 0 /\ frees'[k] = 0
                              /\ answers'[k] <= 1 /\ frees'[k] <= 1
  BY <1>3, <1>4
<1> QED
  BY <1>5, <1>6, <1>7, <1>8, <1>9

LEMMA HeardStep ==
    ASSUME OwnInv, NEW p \in Peers, NEW t \in Txs, Heard(p, t)
    PROVE  OwnInv'
<1>1. CASE RelayedTx(p, t)
  <2>1. /\ Answer({t})
        /\ Register(t, Copy)
        /\ UNCHANGED <<call, frees>>
        /\ UNCHANGED publishedTx \/ publishedTx' = Adds(t, wallet'[t], wallet')
    BY <1>1 DEF RelayedTx
  <2> QED
    BY <2>1, HeardOwned DEF Objects
<1>2. CASE HasTx(p, t)
  <2>1. /\ Answer({t})
        /\ Register(t, publishedTx[t])
        /\ UNCHANGED <<call, frees, publishedTx>>
        /\ wallet[t] # None \/ publishedTx[t] \in Objects
    BY <1>2 DEF HasTx, OwnInv, ListTyped
  <2> QED
    BY <2>1, HeardOwned
<1>3. CASE RequestedTx(p, t)
  <2>1. /\ Answer({t})
        /\ Register(t, publishedTx[t])
        /\ UNCHANGED <<call, frees, publishedTx>>
        /\ publishedTx[t] \in Objects
    BY <1>3 DEF RequestedTx, OwnInv, ListTyped
  <2> QED
    BY <2>1, HeardOwned
<1>4. CASE RequestedInvalid(p, t)
  BY <1>4, InvalidOwned
<1>5. CASE Disowned(p, t)
  BY <1>5, SameOwned DEF Disowned, list, app, ownVars
<1> QED
  BY <1>1, <1>2, <1>3, <1>4, <1>5 DEF Heard

LEMMA PeerOwned ==
    ASSUME OwnInv, NEW p \in Peers, PeerStep(p)
    PROVE  OwnInv'
<1> USE DEF ownVars, list, app
<1>1. CASE Connects(p) \/ StickWithDownloadPeer(p)
  BY <1>1, SameOwned DEF Connects, StickWithDownloadPeer
<1>2. CASE \E q \in Peers : SelectDownloadPeer(p, q)
  BY <1>2, SameOwned DEF SelectDownloadPeer
<1>3. CASE MempoolDone(p) \/ MempoolRefused(p) \/ LoadLost(p) \/ InvDone(p)
  BY <1>3, SameOwned DEF MempoolDone, MempoolRefused, LoadLost, InvDone
<1>4. CASE DataDone(p)
  <2>1. CASE RemoveUnrelayed
    BY <1>4, <2>1, RemovedOwned DEF DataDone
  <2>2. CASE UNCHANGED <<wallet, publishedTx, frees>>
    BY <1>4, <2>2, SameOwned DEF DataDone
  <2> QED
    BY <1>4, <2>1, <2>2 DEF DataDone
<1>5. CASE \E txs \in SUBSET Txs : RelayedBlock(p, txs)
  BY <1>5, BlockOwned
<1>6. CASE OtherTx(p)
  BY <1>6, SameOwned DEF OtherTx
<1>7. CASE \E how \in {"timedOut", "leaving"} : Ends(p, how)
  BY <1>7, SameOwned DEF Ends
<1>8. CASE Disconnected(p)
  BY <1>8, DisconnectedOwned
<1>9. CASE \E back, txs \in SUBSET Txs : Reorganise(p, back, txs)
  BY <1>9, SameOwned DEF Reorganise
<1> QED
  BY <1>1, <1>2, <1>3, <1>4, <1>5, <1>6, <1>7, <1>8, <1>9 DEF PeerStep

LEMMA OwnStep == OwnInv /\ [Next]_vars => OwnInv'
<1> SUFFICES ASSUME OwnInv, [Next]_vars PROVE OwnInv'
  OBVIOUS
<1>1. ASSUME NEW k \in Publications, Published(k) PROVE OwnInv'
  BY <1>1, PublishOwned, RefusedOwned DEF Published
<1>2. ASSUME NEW p \in Peers, PeerStep(p) PROVE OwnInv'
  BY <1>2, PeerOwned
<1>3. ASSUME NEW p \in Peers, NEW t \in Txs, Heard(p, t) PROVE OwnInv'
  BY <1>3, HeardStep
<1>4. CASE SyncStarts \/ NoPeers
  BY <1>4, SameOwned DEF SyncStarts, NoPeers, list, app, ownVars
<1>5. CASE UNCHANGED vars
  BY <1>5, SameOwned DEF vars, list, app, ownVars
<1> QED
  BY <1>1, <1>2, <1>3, <1>4, <1>5 DEF Next

\* What is written about who holds the object of a publication is true from the
\* start on, whatever the threads of the peers do.
THEOREM OwnershipInvariant == Spec => []OwnInv
  BY OwnInit, OwnStep, PTL DEF Spec

\* The application's callback is called once at most (BRPeerManager.c:894-918,
\* 968-977, 1052-1062, 1516-1536, 2009).
THEOREM CallbacksCalledOnce == Spec => []CallbackOnce
<1>1. OwnInv => CallbackOnce
  BY DEF OwnInv, Holders, CallbackOnce
<1> QED
  BY <1>1, OwnershipInvariant, PTL

\* The object of a publication is freed once at most, when neither the wallet
\* nor the list hold it any more (BRPeerManager.c:476, 528, 901, 1529, 2007).
THEOREM ObjectsOwned == Spec => []Owned
<1>1. OwnInv => Owned
  BY DEF OwnInv, ListTyped, Holders, Owned
<1> QED
  BY <1>1, OwnershipInvariant, PTL

-----------------------------------------------------------------------------
(* Time limits *)

\* What is kept of the peers that were told: they are past their handshake,
\* and are forgotten with the publication.
TimedInv ==
    /\ callback \in [Txs -> Publications \cup {None}]
    /\ told \in [Txs -> SUBSET Peers]
    /\ timed \in SUBSET Peers
    /\ peer \in [Peers -> PeerStates]
    /\ \A t \in Txs : told[t] # {} => callback[t] # None
    /\ \A t \in Txs : \A p \in told[t] : peer[p] \in {"connected", "timedOut", "leaving"}
    /\ PendingTimed

LEMMA TimedInit == Init => TimedInv
  BY DEF Init, TimedInv, PendingTimed, Pending, PeerStates

\* Every pending publication is told to the same peers, which get a limit.
LEMMA ToldTimed ==
    ASSUME TimedInv, NEW targets \in SUBSET Peers, NEW limits \in SUBSET Peers,
           PublishPending(targets, limits), timed \subseteq limits,
           callback' \in [Txs -> Publications \cup {None}],
           peer' \in [Peers -> PeerStates],
           \A p \in targets : peer'[p] = "connected",
           \A p \in Peers : peer'[p] = peer[p] \/ peer[p] = "connecting"
    PROVE  TimedInv'
<1> DEFINE pending == {t \in Txs : callback'[t] # None}
<1>1. /\ timed' = limits \cup (IF pending = {} THEN {} ELSE targets)
      /\ told' = [t \in Txs |-> IF t \in pending THEN told[t] \cup targets ELSE {}]
  BY DEF PublishPending
<1>2. \A t \in Txs : told'[t] # {} => callback'[t] # None
  BY <1>1
<1>3. \A t \in Txs : \A p \in told'[t] : peer'[p] \in {"connected", "timedOut", "leaving"}
  BY <1>1 DEF TimedInv
<1>4. \A t \in Txs : \A p \in told'[t] : peer'[p] = "connected" => p \in timed'
  BY <1>1 DEF TimedInv, PendingTimed, Pending
<1>5. told' \in [Txs -> SUBSET Peers] /\ timed' \in SUBSET Peers
  BY <1>1 DEF TimedInv
<1> QED
  BY <1>2, <1>3, <1>4, <1>5 DEF TimedInv, PendingTimed, Pending

\* A limit ends only when no other publication is pending.
LEMMA AnsweredTimed ==
    ASSUME TimedInv, NEW txs, Answer(txs), UNCHANGED peer,
           timed' \in SUBSET Peers, timed \subseteq timed' \/ Pending \ txs = {}
    PROVE  TimedInv'
<1>1. /\ callback' = [t \in Txs |-> IF t \in txs THEN None ELSE callback[t]]
      /\ told' = [t \in Txs |-> IF t \in txs THEN {} ELSE told[t]]
  BY DEF Answer
<1>2. /\ callback' \in [Txs -> Publications \cup {None}]
      /\ told' \in [Txs -> SUBSET Peers]
      /\ peer' \in [Peers -> PeerStates]
  BY <1>1 DEF TimedInv
<1>3. \A t \in Txs : told'[t] # {} => t \notin txs /\ told'[t] = told[t] /\ callback'[t] = callback[t]
  BY <1>1
<1>4. \A t \in Txs : told'[t] # {} => callback'[t] # None
  BY <1>3 DEF TimedInv
<1>5. \A t \in Txs : \A p \in told'[t] : peer'[p] \in {"connected", "timedOut", "leaving"}
  BY <1>3 DEF TimedInv
<1>6. \A t \in Txs : \A p \in told'[t] : peer'[p] = "connected" => p \in timed'
  BY <1>3 DEF TimedInv, PendingTimed, Pending
<1> QED
  BY <1>2, <1>4, <1>5, <1>6 DEF TimedInv, PendingTimed, Pending

LEMMA LimitTimed ==
    ASSUME TimedInv, NEW p \in Peers, NEW t \in Txs, NEW prolongs,
           Answer({t}), Limit(p, t, prolongs), UNCHANGED peer
    PROVE  TimedInv'
<1>1. /\ timed' \in SUBSET Peers
      /\ timed \subseteq timed' \/ Pending \ {t} = {}
  BY DEF Limit, TimedInv
<1> QED
  BY <1>1, AnsweredTimed

\* Nothing about publications changes, and a peer moves on: the limits stay,
\* but for a peer that leaves its loop.
LEMMA MovedTimed ==
    ASSUME TimedInv, UNCHANGED <<callback, told>>, timed' \in SUBSET Peers,
           peer' \in [Peers -> PeerStates],
           \A p \in Peers : \/ peer'[p] = peer[p] /\ (p \in timed => p \in timed')
                            \/ peer[p] = "none" /\ peer'[p] = "connecting"
                            \/ peer'[p] \in {"timedOut", "leaving"}
    PROVE  TimedInv'
  BY DEF TimedInv, PendingTimed, Pending

LEMMA QuietTimed ==
    ASSUME TimedInv, UNCHANGED <<callback, told, peer>>,
           UNCHANGED timed \/ (timed' \subseteq timed /\ Pending = {})
    PROVE  TimedInv'
  BY DEF TimedInv, PendingTimed, Pending

LEMMA PublishedTimed ==
    ASSUME OwnInv', TimedInv, NEW k \in Publications, Published(k)
    PROVE  TimedInv'
<1>1. CASE Publish(k)
  <2>1. /\ PublishPending(Targets, timed)
        /\ UNCHANGED peer
        /\ Targets \in SUBSET Peers
        /\ \A p \in Targets : peer[p] = "connected"
    BY <1>1 DEF Publish, Targets, Connected
  <2> QED
    BY <2>1, ToldTimed DEF TimedInv, OwnInv, ListTyped
<1>2. CASE PublishChecks(k) \/ PublishRefused(k)
  BY <1>2, QuietTimed DEF PublishChecks, PublishRefused, list, links
<1> QED
  BY <1>1, <1>2 DEF Published

LEMMA HeardTimed ==
    ASSUME TimedInv, NEW p \in Peers, NEW t \in Txs, Heard(p, t)
    PROVE  TimedInv'
<1>1. CASE RelayedTx(p, t) \/ HasTx(p, t)
  BY <1>1, LimitTimed DEF RelayedTx, HasTx
<1>2. CASE RequestedTx(p, t) \/ RequestedInvalid(p, t)
  BY <1>2, LimitTimed DEF RequestedTx, RequestedInvalid
<1>3. CASE Disowned(p, t)
  BY <1>3, QuietTimed DEF Disowned, list, links
<1> QED
  BY <1>1, <1>2, <1>3 DEF Heard

\* The filter goes to all that are connected, and what is pending with it.
LEMMA LoadedTimed ==
    ASSUME TimedInv, NEW conn \in SUBSET Peers, NEW d,
           NEW limits \in SUBSET Peers, NEW first \in SUBSET Peers,
           LoadMempools(conn, d, limits, first), timed \subseteq limits,
           callback' \in [Txs -> Publications \cup {None}],
           peer' \in [Peers -> PeerStates],
           \A p \in conn \cup first : peer'[p] = "connected",
           \A p \in Peers : peer'[p] = peer[p] \/ peer[p] = "connecting"
    PROVE  TimedInv'
<1>1. PICK degraded \in BOOLEAN :
         PublishPending((IF degraded THEN conn ELSE conn \ {d}) \cup first, limits)
  BY DEF LoadMempools
<1> DEFINE targets == (IF degraded THEN conn ELSE conn \ {d}) \cup first
<1>2. /\ targets \in SUBSET Peers
      /\ \A p \in targets : peer'[p] = "connected"
  OBVIOUS
<1> HIDE DEF targets
<1>3. PublishPending(targets, limits)
  BY <1>1 DEF targets
<1> QED
  BY <1>2, <1>3, ToldTimed

LEMMA BlockTimed ==
    ASSUME OwnInv', TimedInv, NEW p \in Peers, NEW txs \in SUBSET Txs, RelayedBlock(p, txs)
    PROVE  TimedInv'
<1>1. /\ UNCHANGED peer
      /\ callback' \in [Txs -> Publications \cup {None}]
      /\ Connected \in SUBSET Peers
      /\ \A q \in Connected : peer[q] = "connected"
  BY DEF RelayedBlock, OwnInv, ListTyped, Connected
<1>2. CASE PublishPending({}, IF behind THEN timed \cup ({p} \cap {downloadPeer}) ELSE timed)
  <2> DEFINE limits == IF behind THEN timed \cup ({p} \cap {downloadPeer}) ELSE timed
  <2>1. limits \in SUBSET Peers /\ timed \subseteq limits
    BY DEF TimedInv
  <2> HIDE DEF limits
  <2>2. PublishPending({}, limits)
    BY <1>2 DEF limits
  <2> QED
    BY <1>1, <2>1, <2>2, ToldTimed DEF TimedInv
<1>3. CASE LoadMempools(Connected, downloadPeer, timed, {})
  BY <1>1, <1>3, LoadedTimed DEF TimedInv
<1> QED
  BY <1>2, <1>3 DEF RelayedBlock

LEMMA ConnectedTimed ==
    ASSUME TimedInv, NEW p \in Peers,
           StickWithDownloadPeer(p) \/ \E q \in Peers : SelectDownloadPeer(p, q)
    PROVE  TimedInv'
<1>1. /\ peer[p] = "connecting"
      /\ peer' = [peer EXCEPT ![p] = "connected"]
      /\ UNCHANGED callback
  BY DEF StickWithDownloadPeer, SelectDownloadPeer
<1>2. /\ peer' \in [Peers -> PeerStates]
      /\ \A q \in Peers : peer'[q] = IF q = p THEN "connected" ELSE peer[q]
      /\ callback' \in [Txs -> Publications \cup {None}]
      /\ Connected \in SUBSET Peers
      /\ \A q \in Connected \cup {p} : peer'[q] = "connected"
      /\ \A q \in Peers : peer'[q] = peer[q] \/ peer[q] = "connecting"
      /\ timed \in SUBSET Peers
  BY <1>1 DEF TimedInv, PeerStates, Connected
<1>3. CASE StickWithDownloadPeer(p)
  <2>1. CASE PublishPending({p}, timed)
    <3>1. {p} \in SUBSET Peers /\ \A q \in {p} : peer'[q] = "connected"
      BY <1>2
    <3> QED
      BY <1>2, <2>1, <3>1, ToldTimed
  <2>2. CASE UNCHANGED <<timed, told>>
    BY <1>1, <1>2, <2>2 DEF TimedInv, PendingTimed, Pending
  <2> QED
    BY <1>3, <2>1, <2>2 DEF StickWithDownloadPeer
<1>4. ASSUME NEW q \in Peers, SelectDownloadPeer(p, q) PROVE TimedInv'
  <2>1. /\ {q} \in SUBSET Peers
        /\ Connected \cup {p} \in SUBSET Peers
        /\ \A r \in {q} : peer'[r] = "connected"
        /\ \A r \in (Connected \cup {p}) \cup {q} : peer'[r] = "connected"
    BY <1>2, <1>4 DEF SelectDownloadPeer
  <2>2. CASE PublishPending({q}, timed \cup {q})
    <3>1. timed \cup {q} \in SUBSET Peers /\ timed \subseteq timed \cup {q}
      BY <1>2
    <3> QED
      BY <1>2, <2>1, <2>2, <3>1, ToldTimed
  <2>3. CASE LoadMempools(Connected \cup {p}, q, timed, {q})
    BY <1>2, <2>1, <2>3, LoadedTimed
  <2> QED
    BY <1>4, <2>2, <2>3 DEF SelectDownloadPeer
<1> QED
  BY <1>3, <1>4

LEMMA DisconnectedTimed ==
    ASSUME TimedInv, NEW p \in Peers, Disconnected(p)
    PROVE  TimedInv'
<1>1. /\ peer' = [peer EXCEPT ![p] = "none"]
      /\ UNCHANGED timed
      /\ peer[p] # "connected"
  BY DEF Disconnected, Leaving
<1>2. CASE Answer(Canceled)
  <2>1. callback' = [t \in Txs |-> None] /\ told' = [t \in Txs |-> {}]
    BY <1>2 DEF Answer, Canceled, Pending, TimedInv
  <2> QED
    BY <1>1, <2>1 DEF TimedInv, PendingTimed, Pending, PeerStates
<1>3. CASE told' = [t \in Txs |-> told[t] \ {p}] /\ UNCHANGED callback
  BY <1>1, <1>3 DEF TimedInv, PendingTimed, Pending, PeerStates
<1> QED
  BY <1>2, <1>3 DEF Disconnected

LEMMA PeerTimed ==
    ASSUME OwnInv', TimedInv, NEW p \in Peers, PeerStep(p)
    PROVE  TimedInv'
<1> USE DEF list, links
<1>1. CASE Connects(p)
  BY <1>1, MovedTimed DEF Connects, TimedInv, PeerStates
<1>2. CASE StickWithDownloadPeer(p) \/ \E q \in Peers : SelectDownloadPeer(p, q)
  BY <1>2, ConnectedTimed
<1>3. CASE MempoolDone(p)
  <2>1. UNCHANGED timed \/ (timed' \subseteq timed /\ Pending = {})
    BY <1>3 DEF MempoolDone, CancelSyncTimeout
  <2> QED
    BY <1>3, <2>1, QuietTimed DEF MempoolDone
<1>4. CASE MempoolRefused(p) \/ LoadLost(p) \/ InvDone(p) \/ DataDone(p)
  BY <1>4, QuietTimed DEF MempoolRefused, LoadLost, InvDone, DataDone
<1>5. CASE \E txs \in SUBSET Txs : RelayedBlock(p, txs)
  BY <1>5, BlockTimed
<1>6. CASE OtherTx(p)
  BY <1>6, QuietTimed DEF OtherTx
<1>7. ASSUME NEW how \in {"timedOut", "leaving"}, Ends(p, how) PROVE TimedInv'
  BY <1>7, MovedTimed DEF Ends, TimedInv, PeerStates
<1>8. CASE Disconnected(p)
  BY <1>8, DisconnectedTimed
<1>9. ASSUME NEW back, NEW txs, Reorganise(p, back, txs) PROVE TimedInv'
  <2>1. CASE UNCHANGED <<timed, told>>
    BY <1>9, <2>1, QuietTimed DEF Reorganise
  <2>2. CASE LoadMempools(Connected, downloadPeer, timed, {})
    <3>1. /\ UNCHANGED peer
          /\ callback' \in [Txs -> Publications \cup {None}]
          /\ Connected \in SUBSET Peers
          /\ \A q \in Connected : peer[q] = "connected"
      BY <1>9 DEF Reorganise, OwnInv, ListTyped, Connected
    <3> QED
      BY <2>2, <3>1, LoadedTimed DEF TimedInv
  <2> QED
    BY <1>9, <2>1, <2>2 DEF Reorganise
<1> QED
  BY <1>1, <1>2, <1>3, <1>4, <1>5, <1>6, <1>7, <1>8, <1>9 DEF PeerStep

LEMMA TimedStep == OwnInv' /\ TimedInv /\ [Next]_vars => TimedInv'
<1> SUFFICES ASSUME OwnInv', TimedInv, [Next]_vars PROVE TimedInv'
  OBVIOUS
<1>1. ASSUME NEW k \in Publications, Published(k) PROVE TimedInv'
  BY <1>1, PublishedTimed
<1>2. ASSUME NEW p \in Peers, PeerStep(p) PROVE TimedInv'
  BY <1>2, PeerTimed
<1>3. ASSUME NEW p \in Peers, NEW t \in Txs, Heard(p, t) PROVE TimedInv'
  BY <1>3, HeardTimed
<1>4. CASE SyncStarts \/ NoPeers
  BY <1>4, QuietTimed DEF SyncStarts, NoPeers, list, links
<1>5. CASE UNCHANGED vars
  BY <1>5, QuietTimed DEF vars, list, links
<1> QED
  BY <1>1, <1>2, <1>3, <1>4, <1>5 DEF Next

\* A peer that was told of a pending publication has a time limit
\* (BRPeerManager.c:219-222, 573-577, 979-982, 1064-1067, 1538-1541).
THEOREM PublicationsTimed == Spec => []PendingTimed
<1>1. TimedInv => PendingTimed
  BY DEF TimedInv
<1> QED
  BY <1>1, TimedInit, TimedStep, OwnershipInvariant, PTL DEF Spec

-----------------------------------------------------------------------------
(* Types of the rest *)

LinkTyped ==
    /\ peer \in [Peers -> PeerStates]
    /\ timed \subseteq Connected
    /\ closed \subseteq Connected
    /\ pongs \in [Peers -> Seq(PongKinds)]
    /\ loading \subseteq connectedPeers
    /\ synced \subseteq connectedPeers
    /\ downloadPeer \in Peers \cup {None}
    /\ downloadPeer # None => peer[downloadPeer] \notin {"none", "connecting"}
    /\ syncing \in BOOLEAN
    /\ behind \in BOOLEAN
    /\ connects \in Nat
    /\ messages \in Nat

LEMMA LinkInit == Init => LinkTyped
<1> SUFFICES ASSUME Init PROVE LinkTyped
  OBVIOUS
<1>1. pongs \in [Peers -> Seq(PongKinds)]
  <2>1. <<>> \in Seq(PongKinds)
    OBVIOUS
  <2> QED
    BY <2>1 DEF Init
<1> QED
  BY <1>1 DEF Init, LinkTyped, PeerStates

\* The limits of peers that are told are those of connected peers.
LEMMA LimitsTyped ==
    ASSUME NEW targets, NEW limits, NEW conn, PublishPending(targets, limits),
           targets \subseteq conn, limits \subseteq conn
    PROVE  timed' \subseteq conn
  BY DEF PublishPending

LEMMA LoadedTyped ==
    ASSUME NEW conn, NEW d, NEW limits, NEW first, NEW all,
           LoadMempools(conn, d, limits, first),
           conn \subseteq all, limits \subseteq all, first \subseteq all
    PROVE  timed' \subseteq all /\ loading' = loading \cup conn
  BY DEF LoadMempools, PublishPending

LEMMA PongTyped ==
    ASSUME NEW q \in Seq(PongKinds), NEW kind \in PongKinds
    PROVE  Append(q, kind) \in Seq(PongKinds)
  OBVIOUS

LEMMA UnrelayedTyped ==
    ASSUME LinkTyped, NEW p \in Peers, peer[p] # "none",
           NEW owed \in Seq(PongKinds), RequestUnrelayed(p, owed)
    PROVE  /\ pongs' \in [Peers -> Seq(PongKinds)]
           /\ synced' \subseteq connectedPeers
<1>1. Append(owed, "data") \in Seq(PongKinds)
  BY PongTyped DEF PongKinds
<1> QED
  BY <1>1 DEF RequestUnrelayed, LinkTyped, connectedPeers

LEMMA LinkPublished ==
    ASSUME LinkTyped, NEW k \in Publications, Published(k)
    PROVE  LinkTyped'
<1>1. CASE Publish(k)
  <2>1. timed' \subseteq Connected
    BY <1>1, LimitsTyped DEF Publish, LinkTyped, Targets
  <2>2. pongs' \in [Peers -> Seq(PongKinds)]
    <3>1. \A p \in Peers : Append(pongs[p], "inv") \in Seq(PongKinds)
      BY PongTyped DEF LinkTyped, PongKinds
    <3> QED
      BY <1>1, <3>1 DEF Publish, Ping, LinkTyped
  <2> QED
    BY <1>1, <2>1, <2>2 DEF Publish, LinkTyped, download, Connected, connectedPeers
<1>2. CASE PublishChecks(k) \/ PublishRefused(k)
  BY <1>2 DEF PublishChecks, PublishRefused, LinkTyped, links, download, Connected, connectedPeers
<1> QED
  BY <1>1, <1>2 DEF Published

LEMMA LinkHeard ==
    ASSUME LinkTyped, NEW p \in Peers, NEW t \in Txs, Heard(p, t)
    PROVE  LinkTyped'
<1>1. CASE Disowned(p, t)
  BY <1>1 DEF Disowned, LinkTyped, links, download, Connected, connectedPeers
<1>2. CASE \/ RelayedTx(p, t) \/ HasTx(p, t) \/ RequestedTx(p, t) \/ RequestedInvalid(p, t)
  <2>1. Message(p) /\ \E prolongs \in BOOLEAN : Limit(p, t, prolongs)
    BY <1>2 DEF RelayedTx, HasTx, RequestedTx, RequestedInvalid
  <2>2. UNCHANGED <<peer, closed, pongs, loading, synced, connects, downloadPeer, syncing, behind>>
    BY <1>2 DEF RelayedTx, HasTx, RequestedTx, RequestedInvalid, download
  <2>3. timed' \subseteq Connected
    BY <2>1 DEF Message, Limit, LinkTyped, Connected
  <2>4. messages' \in Nat
    BY <2>1 DEF Message, LinkTyped
  <2> QED
    BY <2>2, <2>3, <2>4 DEF LinkTyped, Connected, connectedPeers
<1> QED
  BY <1>1, <1>2 DEF Heard

LEMMA LinkConnected ==
    ASSUME LinkTyped, NEW p \in Peers,
           StickWithDownloadPeer(p) \/ \E q \in Peers : SelectDownloadPeer(p, q)
    PROVE  LinkTyped'
<1>1. /\ peer' = [peer EXCEPT ![p] = "connected"]
      /\ peer[p] = "connecting"
      /\ closed' \subseteq Connected \cup {p}
      /\ UNCHANGED <<pongs, synced, connects, syncing, messages>>
  BY DEF StickWithDownloadPeer, SelectDownloadPeer, download, LinkTyped
<1>2. /\ peer' \in [Peers -> PeerStates]
      /\ Connected' = Connected \cup {p}
      /\ connectedPeers' = connectedPeers
  BY <1>1 DEF LinkTyped, PeerStates, Connected, connectedPeers
<1>3. CASE StickWithDownloadPeer(p)
  <2>1. timed' \subseteq Connected \cup {p}
    <3>1. timed \subseteq Connected \cup {p} /\ {p} \subseteq Connected \cup {p}
      BY DEF LinkTyped
    <3>2. PublishPending({p}, timed) \/ UNCHANGED timed
      BY <1>3 DEF StickWithDownloadPeer
    <3> QED
      BY <3>1, <3>2, LimitsTyped
  <2>2. loading' \subseteq connectedPeers
    BY <1>3 DEF StickWithDownloadPeer, LinkTyped, connectedPeers
  <2>3. UNCHANGED <<downloadPeer, behind>>
    BY <1>3 DEF StickWithDownloadPeer, download
  <2> QED
    BY <1>1, <1>2, <2>1, <2>2, <2>3 DEF LinkTyped
<1>4. ASSUME NEW q \in Peers, SelectDownloadPeer(p, q) PROVE LinkTyped'
  <2>1. q \in Connected \cup {p} /\ downloadPeer' = q /\ behind' \in BOOLEAN
    BY <1>4 DEF SelectDownloadPeer
  <2>2. timed' \subseteq Connected' /\ loading' \subseteq connectedPeers
    <3>1. CASE PublishPending({q}, timed \cup {q}) /\ UNCHANGED loading
      BY <1>2, <2>1, <3>1, LimitsTyped DEF LinkTyped
    <3>2. CASE LoadMempools(Connected \cup {p}, q, timed, {q})
      <4>1. timed' \subseteq Connected' /\ loading' = loading \cup (Connected \cup {p})
        <5> DEFINE conn == Connected \cup {p}
        <5>1. conn \subseteq conn /\ timed \subseteq conn /\ {q} \subseteq conn
          BY <2>1 DEF LinkTyped
        <5>2. LoadMempools(conn, q, timed, {q})
          BY <3>2
        <5> HIDE DEF conn
        <5>3. timed' \subseteq conn /\ loading' = loading \cup conn
          BY <5>1, <5>2 DEF LoadMempools, PublishPending
        <5> QED
          BY <1>2, <5>3 DEF conn
      <4>2. Connected \cup {p} \subseteq connectedPeers
        BY <1>1 DEF Connected, connectedPeers
      <4> QED
        BY <4>1, <4>2 DEF LinkTyped
    <3> QED
      BY <1>4, <3>1, <3>2 DEF SelectDownloadPeer
  <2>3. q \in Peers \cup {None} /\ peer'[q] = "connected"
    BY <1>1, <1>2, <2>1 DEF Connected, LinkTyped
  <2> QED
    BY <1>1, <1>2, <2>1, <2>2, <2>3 DEF LinkTyped
<1> QED
  BY <1>3, <1>4

LEMMA LinkBlock ==
    ASSUME LinkTyped, NEW p \in Peers, NEW txs \in SUBSET Txs, RelayedBlock(p, txs)
    PROVE  LinkTyped'
<1>1. /\ UNCHANGED <<peer, closed, pongs, synced, connects, downloadPeer, syncing>>
      /\ behind' \in BOOLEAN
      /\ messages' \in Nat
      /\ p \in Connected
  <2>1. p \in Connected /\ messages' \in Nat
    BY DEF RelayedBlock, Message, LinkTyped, Connected
  <2>2. behind' \in BOOLEAN
    BY DEF RelayedBlock, LinkTyped
  <2> QED
    BY <2>1, <2>2 DEF RelayedBlock
<1>2. timed' \subseteq Connected /\ loading' \subseteq connectedPeers
  <2>1. CASE /\ PublishPending({}, IF behind THEN timed \cup ({p} \cap {downloadPeer}) ELSE timed)
             /\ UNCHANGED loading
    <3> DEFINE limits == IF behind THEN timed \cup ({p} \cap {downloadPeer}) ELSE timed
    <3>1. limits \subseteq Connected /\ {} \subseteq Connected
      BY <1>1 DEF LinkTyped
    <3>2. PublishPending({}, limits)
      BY <2>1
    <3> HIDE DEF limits
    <3>3. timed' \subseteq Connected
      BY <3>1, <3>2, LimitsTyped
    <3> QED
      BY <2>1, <3>3 DEF LinkTyped
  <2>2. CASE LoadMempools(Connected, downloadPeer, timed, {})
    <3>1. timed' \subseteq Connected /\ loading' = loading \cup Connected
      <4>1. Connected \subseteq Connected /\ timed \subseteq Connected /\ {} \subseteq Connected
        BY DEF LinkTyped
      <4> QED
        BY <2>2, <4>1, LoadedTyped
    <3> QED
      BY <3>1 DEF LinkTyped, Connected, connectedPeers
  <2> QED
    BY <2>1, <2>2 DEF RelayedBlock
<1> QED
  BY <1>1, <1>2 DEF LinkTyped, Connected, connectedPeers

LEMMA LinkReorganised ==
    ASSUME LinkTyped, NEW p \in Peers, NEW back, NEW txs, Reorganise(p, back, txs)
    PROVE  LinkTyped'
<1>1. /\ UNCHANGED <<peer, closed, pongs, synced, connects, downloadPeer, syncing>>
      /\ behind' \in BOOLEAN
      /\ messages' \in Nat
  <2>1. messages' \in Nat
    BY DEF Reorganise, Message, LinkTyped
  <2>2. behind' \in BOOLEAN
    BY DEF Reorganise, LinkTyped
  <2> QED
    BY <2>1, <2>2 DEF Reorganise
<1>2. timed' \subseteq Connected /\ loading' \subseteq connectedPeers
  <2>1. CASE UNCHANGED <<timed, loading>>
    BY <2>1 DEF LinkTyped
  <2>2. CASE LoadMempools(Connected, downloadPeer, timed, {})
    <3>1. Connected \subseteq Connected /\ timed \subseteq Connected /\ {} \subseteq Connected
      BY DEF LinkTyped
    <3>2. timed' \subseteq Connected /\ loading' = loading \cup Connected
      BY <2>2, <3>1, LoadedTyped
    <3> QED
      BY <3>2 DEF LinkTyped, Connected, connectedPeers
  <2> QED
    BY <2>1, <2>2 DEF Reorganise
<1> QED
  BY <1>1, <1>2 DEF LinkTyped, Connected, connectedPeers

LEMMA LinkEnds ==
    ASSUME LinkTyped, NEW p \in Peers,
           \/ Connects(p) \/ Disconnected(p)
           \/ \E how \in {"timedOut", "leaving"} : Ends(p, how)
    PROVE  LinkTyped'
<1>1. CASE Connects(p)
  <2>1. /\ peer[p] = "none"
        /\ peer' = [peer EXCEPT ![p] = "connecting"]
        /\ connects' \in Nat
        /\ UNCHANGED <<timed, closed, pongs, loading, synced, downloadPeer, syncing, behind, messages>>
    BY <1>1 DEF Connects, LinkTyped, download
  <2> QED
    BY <2>1 DEF LinkTyped, PeerStates, Connected, connectedPeers
<1>2. ASSUME NEW how \in {"timedOut", "leaving"}, Ends(p, how) PROVE LinkTyped'
  <2>1. /\ peer[p] \in {"connecting", "connected"}
        /\ peer' = [peer EXCEPT ![p] = how]
        /\ timed' = timed \ {p}
        /\ closed' = closed \ {p}
        /\ UNCHANGED <<connects, pongs, loading, synced, downloadPeer, syncing, behind, messages>>
    BY <1>2 DEF Ends, download
  <2> QED
    BY <2>1 DEF LinkTyped, PeerStates, Connected, connectedPeers
<1>3. CASE Disconnected(p)
  <2>1. /\ peer[p] # "connected"
        /\ p \notin loading
        /\ peer' = [peer EXCEPT ![p] = "none"]
        /\ downloadPeer' = IF p = downloadPeer THEN None ELSE downloadPeer
        /\ synced' = synced \ {p}
        /\ syncing' \in BOOLEAN
        /\ UNCHANGED <<timed, closed, pongs, loading, connects, behind, messages>>
    BY <1>3 DEF Disconnected, Leaving
  <2> QED
    BY <2>1 DEF LinkTyped, PeerStates, Connected, connectedPeers
<1> QED
  BY <1>1, <1>2, <1>3

LEMMA LinkPong ==
    ASSUME LinkTyped, NEW p \in Peers,
           MempoolDone(p) \/ MempoolRefused(p) \/ LoadLost(p) \/ InvDone(p) \/ DataDone(p)
    PROVE  LinkTyped'
<1> USE DEF download
<1>1. CASE MempoolRefused(p) \/ LoadLost(p)
  BY <1>1 DEF MempoolRefused, LoadLost, LinkTyped, Connected, connectedPeers
<1>2. CASE MempoolDone(p)
  <2>1. /\ pongs' \in [Peers -> Seq(PongKinds)]
        /\ synced' \subseteq connectedPeers
    <3>1. peer[p] # "none" /\ pongs[p] \in Seq(PongKinds)
      BY <1>2 DEF MempoolDone, LinkTyped
    <3> QED
      BY <1>2, <3>1, UnrelayedTyped DEF MempoolDone
  <2>2. timed' \subseteq timed /\ syncing' \in BOOLEAN
    BY <1>2 DEF MempoolDone, CancelSyncTimeout, LinkTyped
  <2> QED
    BY <1>2, <2>1, <2>2 DEF MempoolDone, LinkTyped, Connected, connectedPeers
<1>3. ASSUME Owes(p, "inv") \/ Owes(p, "data") PROVE Tail(pongs[p]) \in Seq(PongKinds)
  BY <1>3 DEF Owes, LinkTyped
<1>4. CASE InvDone(p)
  <2>1. /\ pongs' \in [Peers -> Seq(PongKinds)]
        /\ synced' \subseteq connectedPeers
    <3>1. peer[p] # "none" /\ Tail(pongs[p]) \in Seq(PongKinds)
      BY <1>3, <1>4 DEF InvDone, Leaving
    <3> QED
      BY <1>4, <3>1, UnrelayedTyped DEF InvDone
  <2> QED
    BY <1>4, <2>1 DEF InvDone, LinkTyped, Connected, connectedPeers
<1>5. CASE DataDone(p)
  <2>1. pongs' \in [Peers -> Seq(PongKinds)]
    BY <1>3, <1>5 DEF DataDone, LinkTyped
  <2>2. synced' \subseteq connectedPeers
    BY <1>5 DEF DataDone, LinkTyped, connectedPeers
  <2> QED
    BY <1>5, <2>1, <2>2 DEF DataDone, LinkTyped, Connected, connectedPeers
<1> QED
  BY <1>1, <1>2, <1>4, <1>5

LEMMA LinkStep == LinkTyped /\ [Next]_vars => LinkTyped'
<1> SUFFICES ASSUME LinkTyped, [Next]_vars PROVE LinkTyped'
  OBVIOUS
<1>1. ASSUME NEW k \in Publications, Published(k) PROVE LinkTyped'
  BY <1>1, LinkPublished
<1>2. ASSUME NEW p \in Peers, PeerStep(p) PROVE LinkTyped'
  <2>1. CASE OtherTx(p)
    BY <2>1 DEF OtherTx, Message, LinkTyped, download, Connected, connectedPeers
  <2> QED
    BY <1>2, <2>1, LinkConnected, LinkBlock, LinkReorganised, LinkEnds, LinkPong DEF PeerStep
<1>3. ASSUME NEW p \in Peers, NEW t \in Txs, Heard(p, t) PROVE LinkTyped'
  BY <1>3, LinkHeard
<1>4. CASE SyncStarts \/ NoPeers
  BY <1>4 DEF SyncStarts, NoPeers, LinkTyped, links, Connected, connectedPeers
<1>5. CASE UNCHANGED vars
  BY <1>5 DEF vars, LinkTyped, links, download, Connected, connectedPeers
<1> QED
  BY <1>1, <1>2, <1>3, <1>4, <1>5 DEF Next

\* What is known of a transaction: a relay count is one of connected peers.
RelayTyped ==
    /\ confirmed \subseteq {t \in Txs : wallet[t] # None}
    /\ txRelays \in [Txs -> SUBSET connectedPeers]
    /\ txRequests \in [Txs -> SUBSET Peers]
    /\ forsaken \subseteq Pending

LEMMA RelayInit == Init => RelayTyped
<1> SUFFICES ASSUME Init PROVE RelayTyped
  OBVIOUS
<1>1. confirmed \subseteq {t \in Txs : wallet[t] # None}
  BY RelayAssumption DEF Init, RelayAssumption, Copy, None
<1> QED
  BY <1>1 DEF Init, RelayTyped, Pending

\* The wallet loses nothing, the peers stay, and so do the publications that
\* are given up on.
LEMMA RelayKept ==
    ASSUME RelayTyped,
           \A t \in Txs : wallet[t] # None => wallet'[t] # None,
           UNCHANGED <<confirmed, txRelays, forsaken>>,
           txRequests' \in [Txs -> SUBSET Peers],
           \A t \in forsaken : callback'[t] # None,
           connectedPeers \subseteq connectedPeers'
    PROVE  RelayTyped'
<1>1. /\ confirmed' \subseteq {t \in Txs : wallet'[t] # None}
      /\ forsaken' \subseteq {t \in Txs : callback'[t] # None}
  BY DEF RelayTyped, Pending
<1>2. txRelays' \in [Txs -> SUBSET connectedPeers']
  BY DEF RelayTyped
<1> QED
  BY <1>1, <1>2 DEF RelayTyped, Pending

LEMMA RelaySame ==
    ASSUME RelayTyped,
           UNCHANGED <<wallet, confirmed, txRelays, forsaken, callback>>,
           txRequests' \in [Txs -> SUBSET Peers],
           connectedPeers \subseteq connectedPeers'
    PROVE  RelayTyped'
  BY RelayKept DEF RelayTyped, Pending

LEMMA RelayPublished ==
    ASSUME OwnInv, RelayTyped, NEW k \in Publications, Published(k)
    PROVE  RelayTyped'
<1> USE DEF list, peers, links, connectedPeers
<1>1. CASE Publish(k)
  <2>1. \A t \in forsaken : callback'[t] # None
    BY <1>1 DEF Publish, OwnInv, ListTyped, RelayTyped, Pending
  <2>2. UNCHANGED <<wallet, confirmed, forsaken, txRelays, txRequests, peer>>
    BY <1>1 DEF Publish
  <2> QED
    BY <2>1, <2>2, RelayKept DEF RelayTyped
<1>2. CASE PublishChecks(k) \/ PublishRefused(k)
  BY <1>2, RelaySame DEF PublishChecks, PublishRefused, RelayTyped
<1> QED
  BY <1>1, <1>2 DEF Published

LEMMA RelayHeard ==
    ASSUME OwnInv, RelayTyped, NEW p \in Peers, NEW t \in Txs, Heard(p, t)
    PROVE  RelayTyped'
<1> USE DEF list, peers, links
<1>1. p \in connectedPeers /\ UNCHANGED <<peer, confirmed>> /\ connectedPeers' = connectedPeers
  BY DEF Heard, RelayedTx, HasTx, RequestedTx, RequestedInvalid, Disowned, Message,
         connectedPeers
<1>2. txRelays' \in [Txs -> SUBSET connectedPeers]
  <2>1. CASE Relays(p, t)
    <3>1. txRelays[t] \cup {p} \in SUBSET connectedPeers
      BY <1>1 DEF RelayTyped
    <3> QED
      BY <2>1, <3>1 DEF Relays, RelayTyped
  <2>2. CASE RequestedTx(p, t)
    BY <1>1, <2>2 DEF RequestedTx, RelayTyped
  <2>3. CASE RequestedInvalid(p, t) \/ Disowned(p, t)
    <3>1. UNCHANGED txRelays \/ txRelays' = [txRelays EXCEPT ![t] = @ \ {p}]
      BY <2>3 DEF RequestedInvalid, Disowned
    <3>2. txRelays[t] \ {p} \in SUBSET connectedPeers
      BY DEF RelayTyped
    <3> QED
      BY <3>1, <3>2 DEF RelayTyped
  <2> QED
    BY <2>1, <2>2, <2>3 DEF Heard, RelayedTx, HasTx
<1>3. txRequests' \in [Txs -> SUBSET Peers]
  <2>1. txRequests' = [txRequests EXCEPT ![t] = @ \ {p}] \/ UNCHANGED txRequests
    BY DEF Heard, RelayedTx, HasTx, RequestedTx, RequestedInvalid, Disowned
  <2> QED
    BY <2>1 DEF RelayTyped
<1>4. \A x \in Txs : wallet[x] # None => wallet'[x] # None
  BY DEF Heard, RelayedTx, HasTx, RequestedTx, RequestedInvalid, Disowned, Register,
         OwnInv, ListTyped
<1>5. forsaken' \subseteq {x \in Txs : callback'[x] # None}
  <2>1. CASE Answer({t})
    BY <2>1 DEF Answer, RelayTyped, Pending
  <2>2. CASE Disowned(p, t)
    BY <2>2 DEF Disowned, RelayTyped, Pending
  <2> QED
    BY <2>1, <2>2 DEF Heard, RelayedTx, HasTx, RequestedTx, RequestedInvalid
<1> QED
  BY <1>1, <1>2, <1>3, <1>4, <1>5 DEF RelayTyped, Pending

LEMMA RelayBlock ==
    ASSUME RelayTyped, NEW p \in Peers, NEW txs \in SUBSET Txs, RelayedBlock(p, txs)
    PROVE  RelayTyped'
<1>1. Confirm(txs) /\ UNCHANGED <<wallet, txRequests, peer>>
  BY DEF RelayedBlock
<1>2. connectedPeers' = connectedPeers
  BY <1>1 DEF connectedPeers
<1>3. /\ confirmed' \subseteq {t \in Txs : wallet'[t] # None}
      /\ forsaken' \subseteq {t \in Txs : callback'[t] # None}
  BY <1>1 DEF Confirm, RelayTyped, Pending
<1>4. txRelays' \in [Txs -> SUBSET connectedPeers]
  BY <1>1 DEF Confirm, RelayTyped
<1> QED
  BY <1>1, <1>2, <1>3, <1>4 DEF RelayTyped, Pending

LEMMA RelayDisconnected ==
    ASSUME LinkTyped, RelayTyped, NEW p \in Peers, Disconnected(p)
    PROVE  RelayTyped'
<1>1. /\ peer' = [peer EXCEPT ![p] = "none"]
      /\ txRelays' = RelaysWithout(p)
      /\ UNCHANGED <<wallet, confirmed, txRequests>>
  BY DEF Disconnected
<1>2. connectedPeers' = connectedPeers \ {p}
  BY <1>1 DEF connectedPeers, LinkTyped
<1>3. txRelays' \in [Txs -> SUBSET connectedPeers']
  BY <1>1, <1>2 DEF RelaysWithout, RelayTyped
<1>4. forsaken' \subseteq {t \in Txs : callback'[t] # None}
  <2>1. CASE Answer(Canceled)
    BY <2>1 DEF Answer, Canceled, RelayTyped, Pending
  <2>2. CASE /\ forsaken' = forsaken \cup
                    {t \in Pending : p \in told[t] /\ (peer[p] = "timedOut" => Spared(p))}
             /\ UNCHANGED callback
    BY <2>2 DEF RelayTyped, Pending
  <2> QED
    BY <2>1, <2>2 DEF Disconnected
<1> QED
  BY <1>1, <1>3, <1>4 DEF RelayTyped, Pending

\* A confirmed transaction does not depend on one that no peer has: only
\* unconfirmed ones are removed.
LEMMA RemovedUnconfirmed == Removed \subseteq Unconfirmed
<1> DEFINE dependents == [x \in Txs |-> {t \in Unconfirmed : x \in Inputs[t]}]
<1>1. Unconfirmed \in SUBSET Txs /\ Unrelayed \subseteq Unconfirmed
  BY DEF Unconfirmed, Unrelayed
<1>2. \A y \in Unconfirmed : dependents[y] \subseteq Unconfirmed
  BY <1>1
<1>3. Removed = UNION {Reach(t, dependents) : t \in Unrelayed}
  BY DEF Removed
<1> HIDE DEF dependents
<1>4. \A t \in Unrelayed : Reach(t, dependents) \subseteq Unconfirmed
  BY <1>1, <1>2, ReachStays
<1> QED
  BY <1>3, <1>4

LEMMA RelayPong ==
    ASSUME OwnInv, RelayTyped, NEW p \in Peers,
           MempoolDone(p) \/ MempoolRefused(p) \/ LoadLost(p) \/ InvDone(p) \/ DataDone(p)
    PROVE  RelayTyped'
<1> USE DEF list, peers
<1>1. UNCHANGED <<confirmed, callback, forsaken, txRelays, peer>>
  BY DEF MempoolDone, MempoolRefused, LoadLost, InvDone, DataDone, RequestUnrelayed
<1>2. txRequests' \in [Txs -> SUBSET Peers]
  BY DEF MempoolDone, MempoolRefused, LoadLost, InvDone, DataDone, RequestUnrelayed, RelayTyped
<1>3. confirmed' \subseteq {t \in Txs : wallet'[t] # None}
  <2>1. CASE RemoveUnrelayed
    BY <1>1, <2>1, RemovedUnconfirmed DEF RemoveUnrelayed, Unconfirmed, RelayTyped
  <2>2. CASE UNCHANGED wallet
    BY <1>1, <2>2 DEF RelayTyped
  <2> QED
    BY <2>1, <2>2 DEF MempoolDone, MempoolRefused, LoadLost, InvDone, DataDone
<1> QED
  BY <1>1, <1>2, <1>3 DEF RelayTyped, Pending, connectedPeers

LEMMA RelayPeer ==
    ASSUME OwnInv, LinkTyped, RelayTyped, NEW p \in Peers, PeerStep(p)
    PROVE  RelayTyped'
<1> USE DEF list, peers, links
<1>1. CASE \/ Connects(p) \/ StickWithDownloadPeer(p) \/ OtherTx(p)
           \/ \E q \in Peers : SelectDownloadPeer(p, q)
           \/ \E how \in {"timedOut", "leaving"} : Ends(p, how)
  <2>1. UNCHANGED <<wallet, confirmed, callback, forsaken, txRelays, txRequests>>
    BY <1>1 DEF Connects, StickWithDownloadPeer, OtherTx, SelectDownloadPeer, Ends
  <2>2. connectedPeers \subseteq connectedPeers'
    BY <1>1 DEF Connects, StickWithDownloadPeer, OtherTx, SelectDownloadPeer, Ends,
                LinkTyped, connectedPeers
  <2> QED
    BY <2>1, <2>2, RelaySame DEF RelayTyped
<1>2. CASE MempoolDone(p) \/ MempoolRefused(p) \/ LoadLost(p) \/ InvDone(p) \/ DataDone(p)
  BY <1>2, RelayPong
<1>3. CASE \E txs \in SUBSET Txs : RelayedBlock(p, txs)
  BY <1>3, RelayBlock
<1>4. CASE Disconnected(p)
  BY <1>4, RelayDisconnected
<1>5. ASSUME NEW back, NEW txs, Reorganise(p, back, txs) PROVE RelayTyped'
  <2>1. /\ confirmed' = (confirmed \ back) \cup txs
        /\ txs \subseteq Unconfirmed \cup confirmed
        /\ UNCHANGED <<wallet, callback, forsaken, txRelays, txRequests, peer>>
    BY <1>5 DEF Reorganise
  <2>2. confirmed' \subseteq {t \in Txs : wallet'[t] # None}
    BY <2>1 DEF RelayTyped, Unconfirmed
  <2> QED
    BY <2>1, <2>2 DEF RelayTyped, Pending, connectedPeers
<1> QED
  BY <1>1, <1>2, <1>3, <1>4, <1>5 DEF PeerStep

LEMMA RelayStep == OwnInv /\ LinkTyped /\ RelayTyped /\ [Next]_vars => RelayTyped'
<1> SUFFICES ASSUME OwnInv, LinkTyped, RelayTyped, [Next]_vars PROVE RelayTyped'
  OBVIOUS
<1>1. ASSUME NEW k \in Publications, Published(k) PROVE RelayTyped'
  BY <1>1, RelayPublished
<1>2. ASSUME NEW p \in Peers, PeerStep(p) PROVE RelayTyped'
  BY <1>2, RelayPeer
<1>3. ASSUME NEW p \in Peers, NEW t \in Txs, Heard(p, t) PROVE RelayTyped'
  BY <1>3, RelayHeard
<1>4. CASE SyncStarts \/ NoPeers
  BY <1>4, RelaySame DEF SyncStarts, NoPeers, list, peers, links, RelayTyped, connectedPeers
<1>5. CASE UNCHANGED vars
  BY <1>5, RelaySame DEF vars, list, peers, links, RelayTyped, connectedPeers
<1> QED
  BY <1>1, <1>2, <1>3, <1>4, <1>5 DEF Next

\* What is kept of a peer, or of a publication that is pending, ends with it
\* (BRPeerManager.c:869-875, 894-905, 2046).
THEOREM PublicationsTyped == Spec => []TypeOK
<1>1. OwnInv /\ TimedInv /\ LinkTyped /\ RelayTyped => TypeOK
  <2> SUFFICES ASSUME OwnInv, TimedInv, LinkTyped, RelayTyped PROVE TypeOK
    OBVIOUS
  <2>1. told \in [Txs -> SUBSET connectedPeers]
    BY DEF TimedInv, connectedPeers
  <2> QED
    BY <2>1 DEF TypeOK, OwnInv, ListTyped, LinkTyped, RelayTyped
<1>2. Spec => []LinkTyped
  BY LinkInit, LinkStep, PTL DEF Spec
<1>3. Spec => []RelayTyped
  BY <1>2, RelayInit, RelayStep, OwnershipInvariant, PTL DEF Spec
<1>4. Spec => []TimedInv
  BY TimedInit, TimedStep, OwnershipInvariant, PTL DEF Spec
<1> QED
  BY <1>1, <1>2, <1>3, <1>4, OwnershipInvariant, PTL

=============================================================================
