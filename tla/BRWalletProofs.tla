--------------------------- MODULE BRWalletProofs ---------------------------
(***************************************************************************)
(* The wallet, for every set of transactions, chain height and             *)
(* interleaving of the calls.  First wallet->transactions: sorted by       *)
(* height, no transaction twice, nothing left above the join point of a    *)
(* reorganisation.  Then the ledger that _BRWalletUpdateBalance adds up    *)
(* from that list, one transaction of the pass after the other; the        *)
(* heights and the database rows, which are of one chain between calls;    *)
(* the removals, which never reach a confirmed transaction; and WalletInv, *)
(* which puts them together.                                               *)
(***************************************************************************)
EXTENDS BRWallet, ListLemmas

HeightValues == Heights \cup {Unconfirmed}

-----------------------------------------------------------------------------
(* The insertion sort *)

\* A height is a natural number.
LEMMA HeightIsNat == HeightValues \subseteq Nat
  BY HeightAssumption DEF HeightValues, Heights

\* The comparison of _BRWalletTxCompare never goes against the heights.
LEMMA CompareHeight ==
    ASSUME NEW h \in [Txs -> HeightValues], NEW known, NEW a \in Txs, NEW b \in Txs
    PROVE  /\ TxCompareAfter(a, b, h, known) => h[b] <= h[a]
           /\ ~TxCompareAfter(a, b, h, known) => h[a] <= h[b]
<1>1. h[a] \in Nat /\ h[b] \in Nat
  BY HeightIsNat
<1>2. TxIsAscending(a, b, h, known) => h[b] <= h[a]
  BY <1>1 DEF TxIsAscending
<1>3. ~TxIsAscending(b, a, h, known) => h[b] <= h[a]
  BY <1>1 DEF TxIsAscending
<1>4. ~TxIsAscending(a, b, h, known) => h[a] <= h[b]
  BY <1>1 DEF TxIsAscending
<1> QED
  BY <1>2, <1>3, <1>4 DEF TxCompareAfter

\* InsertTx puts the transaction at a position that everything after it
\* compares later than, and the element before it does not.
LEMMA InsertTxPosition ==
    ASSUME NEW list \in Seq(Txs), NEW t, NEW h, NEW known
    PROVE  \E k \in 0..Len(list) :
              /\ InsertTx(list, t, h, known) = InsertAt(list, k + 1, t)
              /\ \A i \in (k + 1)..Len(list) : TxCompareAfter(list[i], t, h, known)
              /\ k > 0 => ~TxCompareAfter(list[k], t, h, known)
<1> DEFINE I == {i \in 1..Len(list) : ~TxCompareAfter(list[i], t, h, known)}
           k == IF I # {} THEN Max(I) ELSE 0
<1>0. Len(list) \in Nat
  OBVIOUS
<1>1. InsertTx(list, t, h, known) = InsertAt(list, k + 1, t)
  BY DEF InsertTx, SelectLastInSeq
<1>2. CASE I = {}
  <2>1. k = 0
    BY <1>2
  <2>2. \A i \in 1..Len(list) : TxCompareAfter(list[i], t, h, known)
    BY <1>2
  <2> HIDE DEF k
  <2> QED
    BY <1>0, <1>1, <2>1, <2>2
<1>3. CASE I # {}
  <2>1. k \in I /\ \A j \in I : j <= k
    BY <1>0, <1>3, MaxIndex
  <2>2. k \in 1..Len(list) /\ ~TxCompareAfter(list[k], t, h, known)
    BY <2>1
  <2>3. \A i \in (k + 1)..Len(list) : TxCompareAfter(list[i], t, h, known)
    <3> TAKE i \in (k + 1)..Len(list)
    <3>1. i \in 1..Len(list) /\ ~(i <= k)
      BY <1>0, <2>2
    <3> QED
      BY <2>1, <3>1
  <2> HIDE DEF k
  <2> QED
    BY <1>0, <1>1, <2>2, <2>3
<1> QED
  BY <1>2, <1>3

\* Inserting a new transaction keeps the list sorted and free of duplicates.
LEMMA InsertTxOrdered ==
    ASSUME NEW list \in Seq(Txs), NEW t \in Txs, NEW known,
           NEW h \in [Txs -> HeightValues],
           HeightSorted(list, h), Once(list), t \notin Range(list)
    PROVE  /\ InsertTx(list, t, h, known) \in Seq(Txs)
           /\ HeightSorted(InsertTx(list, t, h, known), h)
           /\ Once(InsertTx(list, t, h, known))
           /\ Range(InsertTx(list, t, h, known)) = Range(list) \cup {t}
<1> DEFINE r == InsertTx(list, t, h, known)
<1>1. PICK n \in Nat : n = Len(list)
  OBVIOUS
<1>2. PICK k \in 0..n :
         /\ r = InsertAt(list, k + 1, t)
         /\ \A i \in (k + 1)..n : TxCompareAfter(list[i], t, h, known)
         /\ k > 0 => ~TxCompareAfter(list[k], t, h, known)
  BY <1>1, InsertTxPosition
<1>3. /\ r \in Seq(Txs)
      /\ Len(r) = n + 1
      /\ \A i \in 1..(n + 1) :
            r[i] = IF i <= k THEN list[i] ELSE IF i = k + 1 THEN t ELSE list[i - 1]
  <2> HIDE DEF r
  <2> DEFINE q == InsertAt(list, k + 1, t)
  <2>1. k \in 0..Len(list)
    BY <1>1
  <2>2. /\ q \in Seq(Txs)
        /\ Len(q) = Len(list) + 1
        /\ \A i \in 1..(Len(list) + 1) :
              q[i] = IF i <= k THEN list[i] ELSE IF i = k + 1 THEN t ELSE list[i - 1]
    BY <2>1, InsertAtElements
  <2>3. r = q
    BY <1>2
  <2> HIDE DEF q
  <2> QED
    BY <1>1, <2>2, <2>3
<1> HIDE DEF r
\* The list and its image, position by position.
<1>4. /\ DOMAIN list = 1..n /\ DOMAIN r = 1..(n + 1)
      /\ \A i \in 1..n : list[i] \in Txs /\ list[i] # t
  BY <1>1, <1>3, ElementOfSeq DEF Range
<1>5. /\ \A i \in 1..n : h[list[i]] \in Nat
      /\ h[t] \in Nat
  BY <1>4, HeightIsNat
<1>6. \A i, j \in 1..n : i < j => h[list[i]] <= h[list[j]] /\ list[i] # list[j]
  BY <1>1 DEF HeightSorted, Once
<1>7. \A i \in 1..k : i \in 1..n /\ i \in 1..(n + 1) /\ r[i] = list[i]
  BY <1>3
<1>8. k + 1 \in 1..(n + 1) /\ r[k + 1] = t
  BY <1>3
<1>9. \A i \in (k + 2)..(n + 1) : i - 1 \in (k + 1)..n /\ i - 1 \in 1..n /\ r[i] = list[i - 1]
  BY <1>3
<1>10. \A i \in (k + 1)..n : i \in 1..n /\ h[t] <= h[list[i]]
  BY <1>2, <1>4, CompareHeight
<1>11. \A i \in 1..k : h[list[i]] <= h[t]
  <2> TAKE i \in 1..k
  <2>1. k > 0 /\ k \in 1..n /\ i \in 1..n /\ (i < k \/ i = k)
    OBVIOUS
  <2>2. h[list[k]] <= h[t]
    BY <1>2, <1>4, <2>1, CompareHeight
  <2>3. i < k => h[list[i]] <= h[list[k]]
    BY <1>6, <2>1
  <2> QED
    BY <1>5, <2>1, <2>2, <2>3
<1>12. ASSUME NEW i \in 1..(n + 1), NEW j \in 1..(n + 1), i < j
       PROVE  h[r[i]] <= h[r[j]] /\ r[i] # r[j]
  <2>1. CASE j \in 1..k
    <3>1. i \in 1..k
      BY <2>1, <1>12
    <3> QED
      BY <1>6, <1>7, <1>12, <2>1, <3>1
  <2>2. CASE j = k + 1
    <3>1. i \in 1..k
      BY <2>2, <1>12
    <3> QED
      BY <1>4, <1>7, <1>8, <1>11, <2>2, <3>1
  <2>3. CASE j \in (k + 2)..(n + 1) /\ i \in 1..k
    <3>1. i < j - 1
      BY <2>3
    <3> QED
      BY <1>6, <1>7, <1>9, <2>3, <3>1
  <2>4. CASE j \in (k + 2)..(n + 1) /\ i = k + 1
    BY <1>4, <1>8, <1>9, <1>10, <2>4
  <2>5. CASE j \in (k + 2)..(n + 1) /\ i \in (k + 2)..(n + 1)
    <3>1. i - 1 < j - 1
      BY <1>12
    <3> QED
      BY <1>6, <1>9, <2>5, <3>1
  <2>6. /\ j \in 1..k \/ j = k + 1 \/ j \in (k + 2)..(n + 1)
        /\ i \in 1..k \/ i = k + 1 \/ i \in (k + 2)..(n + 1)
    OBVIOUS
  <2> QED
    BY <2>1, <2>2, <2>3, <2>4, <2>5, <2>6
<1>13. HeightSorted(r, h)
  BY <1>3, <1>12 DEF HeightSorted
<1>14. Once(r)
  <2> SUFFICES ASSUME NEW i \in 1..(n + 1), NEW j \in 1..(n + 1), i # j
               PROVE  r[i] # r[j]
    BY <1>3 DEF Once
  <2>1. i < j \/ j < i
    OBVIOUS
  <2> QED
    BY <1>12, <2>1
<1>15. Range(r) = Range(list) \cup {t}
  <2>1. ASSUME NEW i \in 1..(n + 1) PROVE r[i] \in {list[j] : j \in 1..n} \cup {t}
    <3>1. i \in 1..k \/ i = k + 1 \/ i \in (k + 2)..(n + 1)
      OBVIOUS
    <3> QED
      BY <1>7, <1>8, <1>9, <3>1
  <2>2. ASSUME NEW i \in 1..n PROVE list[i] \in {r[j] : j \in 1..(n + 1)}
    <3>1. CASE i \in 1..k
      BY <1>7, <3>1
    <3>2. CASE i \in (k + 1)..n
      <4>1. i + 1 \in (k + 2)..(n + 1) /\ i + 1 \in 1..(n + 1) /\ (i + 1) - 1 = i
        BY <3>2
      <4>2. r[i + 1] = list[i]
        BY <1>9, <4>1
      <4> QED
        BY <4>1, <4>2
    <3>3. i \in 1..k \/ i \in (k + 1)..n
      OBVIOUS
    <3> QED
      BY <3>1, <3>2, <3>3
  <2>3. t \in {r[j] : j \in 1..(n + 1)}
    BY <1>8
  <2> QED
    BY <1>4, <2>1, <2>2, <2>3 DEF Range
<1> QED
  BY <1>3, <1>13, <1>14, <1>15 DEF r

\* Removing the transaction keeps the rest of the list as it was.
LEMMA RemoveFirstOrdered ==
    ASSUME NEW list \in Seq(Txs), NEW t, NEW h, HeightSorted(list, h), Once(list)
    PROVE  /\ RemoveFirst(list, t) \in Seq(Txs)
           /\ HeightSorted(RemoveFirst(list, t), h)
           /\ Once(RemoveFirst(list, t))
           /\ Range(RemoveFirst(list, t)) = Range(list) \ {t}
<1> DEFINE r == RemoveFirst(list, t)
           I == {i \in 1..Len(list) : list[i] = t}
<1>1. PICK n \in Nat : n = Len(list)
  OBVIOUS
<1>2. DOMAIN list = 1..n
  BY <1>1
<1>3. CASE I = {}
  <2>1. r = list
    BY <1>3 DEF RemoveFirst
  <2>2. t \notin Range(list)
    BY <1>1, <1>2, <1>3 DEF Range
  <2> HIDE DEF r
  <2> QED
    BY <2>1, <2>2 DEF r
<1>4. CASE I # {}
  <2>1. PICK k \in 1..n : list[k] = t /\ r = RemoveAt(list, k)
    <3>1. Min(I) \in I
      BY <1>1, <1>4, MinIndex
    <3>2. r = RemoveAt(list, Min(I))
      BY <1>4 DEF RemoveFirst, SelectInSeq
    <3> QED
      BY <1>1, <3>1, <3>2
  <2>2. /\ r \in Seq(Txs)
        /\ Len(r) = n - 1
        /\ \A i \in 1..(n - 1) : r[i] = IF i < k THEN list[i] ELSE list[i + 1]
    <3> HIDE DEF r
    <3> DEFINE q == RemoveAt(list, k)
    <3>1. k \in 1..Len(list)
      BY <1>1
    <3>2. /\ q \in Seq(Txs)
          /\ Len(q) = Len(list) - 1
          /\ \A i \in 1..(Len(list) - 1) : q[i] = IF i < k THEN list[i] ELSE list[i + 1]
      BY <3>1, RemoveAtElements
    <3>3. r = q
      BY <2>1
    <3> HIDE DEF q
    <3> QED
      BY <1>1, <3>2, <3>3
  <2> HIDE DEF r, I
  <2>3. DOMAIN r = 1..(n - 1)
    BY <2>2
  \* Where each position of the result comes from, in order.
  <2>4. PICK f \in [1..(n - 1) -> 1..n] :
          \A i \in 1..(n - 1) : f[i] = IF i < k THEN i ELSE i + 1
    <3> DEFINE g == [i \in 1..(n - 1) |-> IF i < k THEN i ELSE i + 1]
    <3>1. g \in [1..(n - 1) -> 1..n]
      OBVIOUS
    <3> QED
      BY <3>1
  <2>5. \A i \in 1..(n - 1) : f[i] \in 1..n /\ f[i] # k /\ r[i] = list[f[i]]
    <3> TAKE i \in 1..(n - 1)
    <3>1. f[i] = IF i < k THEN i ELSE i + 1
      BY <2>4
    <3>2. r[i] = IF i < k THEN list[i] ELSE list[i + 1]
      BY <2>2
    <3>3. CASE i < k
      BY <3>1, <3>2, <3>3
    <3>4. CASE i >= k
      BY <3>1, <3>2, <3>4
    <3> QED
      BY <3>3, <3>4
  <2>6. \A i, j \in 1..(n - 1) : i < j => f[i] < f[j]
    <3> TAKE i, j \in 1..(n - 1)
    <3>1. f[i] = i \/ (f[i] = i + 1 /\ ~(i < k))
      BY <2>4
    <3>2. (f[j] = j /\ j < k) \/ f[j] = j + 1
      BY <2>4
    <3> QED
      BY <3>1, <3>2
  <2>7. \A i, j \in 1..n : i < j => h[list[i]] <= h[list[j]]
    BY <1>1 DEF HeightSorted
  <2>8. \A i, j \in 1..n : i # j => list[i] # list[j]
    BY <1>1 DEF Once
  <2>9. HeightSorted(r, h)
    <3> SUFFICES ASSUME NEW i \in 1..(n - 1), NEW j \in 1..(n - 1), i < j
                 PROVE  h[r[i]] <= h[r[j]]
      BY <2>2 DEF HeightSorted
    <3> QED
      BY <2>5, <2>6, <2>7
  <2>10. Once(r)
    <3> SUFFICES ASSUME NEW i \in 1..(n - 1), NEW j \in 1..(n - 1), i # j
                 PROVE  r[i] # r[j]
      BY <2>2 DEF Once
    <3>1. f[i] # f[j]
      <4>1. i < j \/ j < i
        OBVIOUS
      <4> QED
        BY <2>5, <2>6, <4>1
    <3> QED
      BY <2>5, <2>8, <3>1
  <2>11. \A i \in 1..(n - 1) : r[i] \in Range(list) /\ r[i] # t
    BY <1>2, <2>1, <2>5, <2>8 DEF Range
  <2>12. ASSUME NEW i \in 1..n, i # k PROVE list[i] \in Range(r)
    <3>1. CASE i < k
      <4>1. i \in 1..(n - 1) /\ r[i] = list[i]
        BY <2>2, <3>1
      <4> QED
        BY <2>3, <4>1 DEF Range
    <3>2. CASE i > k
      <4>1. i - 1 \in 1..(n - 1) /\ ~(i - 1 < k) /\ (i - 1) + 1 = i
        BY <3>2
      <4>2. r[i - 1] = list[i]
        BY <2>2, <4>1
      <4> QED
        BY <2>3, <4>1, <4>2 DEF Range
    <3> QED
      BY <2>12, <3>1, <3>2
  <2>13. Range(r) = Range(list) \ {t}
    <3>1. Range(r) = {r[i] : i \in 1..(n - 1)}
      BY <2>3 DEF Range
    <3>2. Range(list) = {list[i] : i \in 1..n}
      BY <1>2 DEF Range
    <3>3. Range(r) \subseteq Range(list) \ {t}
      BY <2>11, <3>1
    <3>4. Range(list) \ {t} \subseteq Range(r)
      BY <2>1, <2>12, <3>2
    <3> QED
      BY <3>3, <3>4
  <2> QED
    BY <2>2, <2>9, <2>10, <2>13 DEF r
<1> QED
  BY <1>3, <1>4

\* A list of transactions has transactions as its elements.
LEMMA RegisteredAreTxs ==
    ASSUME NEW list \in Seq(Txs)
    PROVE  Range(list) \subseteq Txs
<1>1. DOMAIN list = 1..Len(list)
  OBVIOUS
<1>2. \A i \in 1..Len(list) : list[i] \in Txs
  BY ElementOfSeq
<1> QED
  BY <1>1, <1>2 DEF Range

\* The order only depends on the heights of the transactions in the list.
LEMMA SameHeights ==
    ASSUME NEW list \in Seq(Txs), NEW h, NEW g, HeightSorted(list, h),
           \A u \in Range(list) : g[u] = h[u]
    PROVE  HeightSorted(list, g)
<1>1. \A i \in 1..Len(list) : list[i] \in Range(list)
  BY DEF Range
<1> QED
  BY <1>1 DEF HeightSorted

-----------------------------------------------------------------------------
(* The inductive invariant *)

Types ==
    /\ allTx \subseteq Txs
    /\ transactions \in Seq(Txs)
    /\ height \in [Txs -> HeightValues]

Loading == call.op = "load" => call \in [op : {"load"}, first : Txs \cup {None}]

\* Only transactions that are unconfirmed already are set unconfirmed.
Updating ==
    call.op = "update" =>
        /\ call \in [op : {"update"}, todo : Seq(Txs), height : HeightValues,
                     stale : BOOLEAN]
        /\ call.height = Unconfirmed =>
              \A i \in 1..Len(call.todo) : height[call.todo[i]] = Unconfirmed

IInv == Types /\ Loading /\ Updating /\ ListOrdered

\* The wallet starts empty.
LEMMA InitInv == Init => IInv
<1> SUFFICES ASSUME Init PROVE IInv
  OBVIOUS
<1>1. transactions \in Seq(Txs) /\ Len(transactions) = 0
  BY DEF Init
<1>2. Types
  BY <1>1 DEF Init, Types, HeightValues
<1>3. Loading /\ Updating
  BY DEF Init, Loading, Updating
<1>4. ListOrdered
  BY <1>1 DEF ListOrdered, HeightSorted, Once
<1> QED
  BY <1>2, <1>3, <1>4 DEF IInv

\* BRWalletNew inserts a row.
LEMMA LoadTxInv ==
    ASSUME IInv, NEW t \in Txs, NEW h \in HeightValues, LoadTx(t, h)
    PROVE  IInv' /\ Registered' = Registered \cup {t}
<1> USE DEF IInv, LoadTx, Calling
<1>1. /\ t \notin Registered
      /\ call \in [op : {"load"}, first : Txs \cup {None}]
  BY DEF Loading, NoDangling
<1>2. height' \in [Txs -> HeightValues] /\ \A u \in Registered : height'[u] = height[u]
  BY <1>1, RegisteredAreTxs DEF Types, Registered
<1>3. HeightSorted(transactions, height') /\ Once(transactions)
  BY <1>2, SameHeights DEF ListOrdered, Types, Registered
<1>4. /\ transactions' \in Seq(Txs)
      /\ HeightSorted(transactions', height')
      /\ Once(transactions')
      /\ Registered' = Registered \cup {t}
  BY <1>1, <1>2, <1>3, InsertTxOrdered DEF Types, Registered
<1>5. Types'
  BY <1>2, <1>4 DEF Types
<1>6. Loading'
  BY <1>1 DEF Loading
<1>7. call'.op = "load"
  BY <1>1
<1> QED
  BY <1>4, <1>5, <1>6, <1>7 DEF Updating, ListOrdered

\* BRWalletRegisterTransaction inserts a wallet transaction.
LEMMA RegisterInv ==
    ASSUME IInv, NEW t \in Txs, RegisterWalletTx(t)
    PROVE  IInv' /\ Registered' = Registered \cup {t}
<1> USE DEF IInv, RegisterWalletTx, Calling
<1>1. t \notin Registered
  BY DEF NoDangling
<1>2. HeightSorted(transactions, height) /\ Once(transactions)
  BY DEF ListOrdered
<1>3. /\ transactions' \in Seq(Txs)
      /\ HeightSorted(transactions', height)
      /\ Once(transactions')
      /\ Registered' = Registered \cup {t}
  BY <1>1, <1>2, InsertTxOrdered DEF Types, Registered
<1>4. call' = [op |-> "added"]
  OBVIOUS
<1> QED
  BY <1>3, <1>4 DEF Types, Loading, Updating, ListOrdered

\* BRWalletRemoveTransaction frees a transaction.
LEMMA RemoveInv ==
    ASSUME IInv, RemoveAndFree
    PROVE  IInv' /\ Registered' = Registered \ {Head(call.work)}
<1> DEFINE t == Head(call.work)
<1> USE DEF IInv, RemoveAndFree, Calling
<1>1. t \in Txs
  BY DEF Types
<1>2. /\ transactions' \in Seq(Txs)
      /\ HeightSorted(transactions', height)
      /\ Once(transactions')
      /\ Registered' = Registered \ {t}
  BY RemoveFirstOrdered DEF ListOrdered, Types, Registered
<1>3. height' = [height EXCEPT ![t] = Unconfirmed]
  BY DEF NewObject
<1>4. height' \in [Txs -> HeightValues] /\ \A u \in Registered' : height'[u] = height[u]
  <2>1. \A u \in Registered' : u \in Txs /\ u # t
    BY <1>2, RegisteredAreTxs DEF Types, Registered
  <2>2. height \in [Txs -> HeightValues] /\ Unconfirmed \in HeightValues
    BY DEF Types, HeightValues
  <2> HIDE DEF t
  <2> QED
    BY <1>1, <1>3, <2>1, <2>2
<1>5. HeightSorted(transactions', height')
  BY <1>2, <1>4, SameHeights DEF Registered
<1>6. call'.op \in {"idle", "remove"}
  BY DEF Return, Idle
<1> QED
  BY <1>2, <1>4, <1>5, <1>6 DEF Types, Loading, Updating, ListOrdered

\* BRWalletUpdateTransactions removes a transaction and inserts it again.
LEMMA UpdateWalletInv ==
    ASSUME IInv, UpdateWalletTx
    PROVE  IInv' /\ Registered' = Registered
<1> DEFINE t == NextHash
           rest == RemoveFirst(transactions, t)
<1> USE DEF IInv, UpdateWalletTx, Calling
<1>1. /\ call \in [op : {"update"}, todo : Seq(Txs), height : HeightValues, stale : BOOLEAN]
      /\ call.todo # <<>>
      /\ t \in Txs
      /\ HeightSorted(transactions, height) /\ Once(transactions)
      /\ transactions \in Seq(Txs)
  BY DEF Updating, Types, ListOrdered
<1>2. height' \in [Txs -> HeightValues] /\ height' = [height EXCEPT ![t] = call.height]
  BY <1>1 DEF Types
<1>3. ASSUME t \in Registered
      PROVE  /\ transactions' \in Seq(Txs)
             /\ HeightSorted(transactions', height')
             /\ Once(transactions')
             /\ Registered' = Registered
  <2>1. /\ rest \in Seq(Txs) /\ HeightSorted(rest, height) /\ Once(rest)
        /\ Range(rest) = Registered \ {t}
    BY <1>1, RemoveFirstOrdered DEF Registered
  <2>2. t \notin Range(rest) /\ \A u \in Range(rest) : u \in Txs /\ u # t
    <3> HIDE DEF rest, t
    <3> QED
      BY <1>1, <2>1, RegisteredAreTxs DEF Registered
  <2>3. HeightSorted(rest, height')
    <3>1. \A u \in Range(rest) : height'[u] = height[u]
      BY <1>2, <2>2 DEF Types
    <3> HIDE DEF rest
    <3> QED
      BY <2>1, <3>1, SameHeights
  <2>4. transactions' = InsertTx(rest, t, height', allTx)
    BY <1>3
  <2>5. /\ InsertTx(rest, t, height', allTx) \in Seq(Txs)
        /\ HeightSorted(InsertTx(rest, t, height', allTx), height')
        /\ Once(InsertTx(rest, t, height', allTx))
        /\ Range(InsertTx(rest, t, height', allTx)) = Range(rest) \cup {t}
    <3> HIDE DEF rest, t
    <3> QED
      BY <1>1, <1>2, <2>1, <2>2, <2>3, InsertTxOrdered
  <2>6. Registered' = Range(transactions')
    BY DEF Registered
  <2> HIDE DEF rest, t
  <2> QED
    BY <1>3, <2>1, <2>4, <2>5, <2>6
<1>4. ASSUME t \notin Registered
      PROVE  /\ transactions' \in Seq(Txs)
             /\ HeightSorted(transactions', height')
             /\ Once(transactions')
             /\ Registered' = Registered
  <2>1. transactions' = transactions
    BY <1>4
  <2>2. \A u \in Registered : height'[u] = height[u]
    BY <1>1, <1>2, <1>4, ElementOfSeq DEF Types, Registered, Range
  <2> QED
    BY <1>1, <2>1, <2>2, SameHeights DEF Registered
<1>5. Types' /\ ListOrdered'
  BY <1>2, <1>3, <1>4 DEF Types, ListOrdered
<1>6. /\ call' \in [op : {"update"}, todo : Seq(Txs), height : HeightValues, stale : BOOLEAN]
      /\ call'.height = call.height
      /\ call'.todo = Tail(call.todo)
  BY <1>1, HeadTailProperties
<1>7. call.height = Unconfirmed =>
        \A i \in 1..Len(call'.todo) : height'[call'.todo[i]] = Unconfirmed
  <2> SUFFICES ASSUME call.height = Unconfirmed, NEW i \in 1..Len(call'.todo)
               PROVE  height'[call'.todo[i]] = Unconfirmed
    OBVIOUS
  <2>1. call'.todo[i] = call.todo[i + 1] /\ i + 1 \in 1..Len(call.todo)
    BY <1>1, <1>6, HeadTailProperties
  <2>2. call.todo[i + 1] \in Txs /\ height[call.todo[i + 1]] = Unconfirmed
    BY <1>1, <2>1, ElementOfSeq DEF Updating
  <2> QED
    BY <1>2, <2>1, <2>2 DEF Types
<1>8. Registered' = Registered
  BY <1>3, <1>4
<1> QED
  BY <1>5, <1>6, <1>7, <1>8 DEF Loading, Updating

\* BRWalletUpdateTransactions frees or skips a transaction that is not the
\* wallet's; freeing one that is in the list leaves it dangling.
LEMMA UpdateOtherInv ==
    ASSUME IInv, UpdateOtherTx
    PROVE  IInv'
<1> DEFINE t == NextHash
<1> USE DEF IInv, UpdateOtherTx, Calling
<1>1. /\ call \in [op : {"update"}, todo : Seq(Txs), height : HeightValues, stale : BOOLEAN]
      /\ call.todo # <<>>
      /\ t \in Txs
      /\ t = call.todo[1] /\ 1 \in 1..Len(call.todo)
  BY DEF Updating, Types, NextHash
<1>2. height' = [height EXCEPT ![t] = Unconfirmed] /\ height' \in [Txs -> HeightValues]
  BY <1>1 DEF NewObject, Types, HeightValues
<1>3. Types'
  BY <1>2 DEF Types
<1>4. call.height = Unconfirmed => height' = height
  BY <1>1, <1>2 DEF Updating, Types
<1>5. ListOrdered'
  <2> SUFFICES ASSUME NoDangling' PROVE HeightSorted(transactions, height') /\ Once(transactions)
    BY DEF ListOrdered
  <2>1. HeightSorted(transactions, height) /\ Once(transactions) /\ transactions \in Seq(Txs)
    BY DEF ListOrdered, Types
  <2>2. CASE call.height = Unconfirmed
    BY <1>4, <2>1, <2>2
  <2>3. CASE call.height # Unconfirmed
    <3>1. t \notin Registered
      BY <2>3 DEF NoDangling, Registered
    <3>2. Registered \subseteq Txs
      BY <2>1, RegisteredAreTxs DEF Registered
    <3>3. \A u \in Registered : height'[u] = height[u]
      <4> HIDE DEF t
      <4> QED
        BY <1>2, <3>1, <3>2 DEF Types
    <3> QED
      BY <2>1, <3>3, SameHeights DEF Registered
  <2> QED
    BY <2>2, <2>3
<1>6. /\ call' \in [op : {"update"}, todo : Seq(Txs), height : HeightValues, stale : BOOLEAN]
      /\ call'.height = call.height
      /\ call'.todo = Tail(call.todo)
  BY <1>1, HeadTailProperties
<1>7. call.height = Unconfirmed =>
        \A i \in 1..Len(call'.todo) : height'[call'.todo[i]] = Unconfirmed
  <2> SUFFICES ASSUME call.height = Unconfirmed, NEW i \in 1..Len(call'.todo)
               PROVE  height'[call'.todo[i]] = Unconfirmed
    OBVIOUS
  <2>1. call'.todo[i] = call.todo[i + 1] /\ i + 1 \in 1..Len(call.todo)
    BY <1>1, <1>6, HeadTailProperties
  <2> QED
    BY <1>1, <1>4, <2>1 DEF Updating
<1> QED
  BY <1>3, <1>5, <1>6, <1>7 DEF Loading, Updating

\* BRWalletUpdateTransactions goes on to the next hash.
LEMMA UpdateSkipInv ==
    ASSUME IInv, UpdateSkip
    PROVE  IInv'
<1> USE DEF IInv, UpdateSkip, Calling
<1>1. /\ call \in [op : {"update"}, todo : Seq(Txs), height : HeightValues, stale : BOOLEAN]
      /\ call.todo # <<>>
  BY DEF Updating
<1>2. /\ call' \in [op : {"update"}, todo : Seq(Txs), height : HeightValues, stale : BOOLEAN]
      /\ call'.height = call.height
      /\ call'.todo = Tail(call.todo)
  BY <1>1, HeadTailProperties
<1>3. call.height = Unconfirmed =>
        \A i \in 1..Len(call'.todo) : height[call'.todo[i]] = Unconfirmed
  <2> SUFFICES ASSUME call.height = Unconfirmed, NEW i \in 1..Len(call'.todo)
               PROVE  height[call'.todo[i]] = Unconfirmed
    OBVIOUS
  <2>1. call'.todo[i] = call.todo[i + 1] /\ i + 1 \in 1..Len(call.todo)
    BY <1>1, <1>2, HeadTailProperties
  <2> QED
    BY <2>1 DEF Updating
<1> QED
  BY <1>2, <1>3 DEF Types, Loading, Updating, ListOrdered, NoDangling, Registered

\* BRWalletUpdateTransactions begins, with a block's transactions or with one
\* that stays unconfirmed.
LEMMA UpdateBeginInv ==
    ASSUME IInv, BlockConfirms \/ PeersVerify
    PROVE  IInv'
<1> USE DEF IInv, UpdateTransactions, Calling
<1>1. PICK s \in Seq(Txs), h \in HeightValues :
        /\ UpdateTransactions(s, h)
        /\ h = Unconfirmed => \A i \in 1..Len(s) : height[s[i]] = Unconfirmed
  <2>1. CASE BlockConfirms
    <3>1. PICK s \in Batches, h \in Heights : UpdateTransactions(s, h)
      BY <2>1 DEF BlockConfirms
    <3>2. s \in Seq(Txs)
      BY <3>1, HeightAssumption DEF Batches
    <3>3. h \in HeightValues /\ h # Unconfirmed
      BY <3>1, HeightAssumption DEF HeightValues, Heights
    <3> QED
      BY <3>1, <3>2, <3>3
  <2>2. CASE PeersVerify
    <3>1. PICK t \in Txs : height[t] = Unconfirmed /\ UpdateTransactions(<<t>>, Unconfirmed)
      BY <2>2 DEF PeersVerify, Types
    <3>2. <<t>> \in Seq(Txs) /\ \A i \in 1..Len(<<t>>) : <<t>>[i] = t
      OBVIOUS
    <3>3. Unconfirmed \in HeightValues
      BY DEF HeightValues
    <3> QED
      BY <3>1, <3>2, <3>3
  <2> QED
    BY <2>1, <2>2
<1>2. /\ call' \in [op : {"update"}, todo : Seq(Txs), height : HeightValues, stale : BOOLEAN]
      /\ call'.height = h
      /\ call'.todo = s
  BY <1>1
<1>3. UNCHANGED <<allTx, transactions, height>>
  BY <1>1
<1> QED
  BY <1>1, <1>2, <1>3
     DEF Types, Loading, Updating, ListOrdered, NoDangling, Registered

\* The scan of BRWalletSetTxUnconfirmedAfter splits the list: what it keeps is
\* at or below h, and the rest is set unconfirmed.
LEMMA ReorgSplit ==
    ASSUME IInv, NEW h \in 0..MaxHeight, SetTxUnconfirmedAfter(h)
    PROVE  \E k \in 0..Len(transactions) :
              /\ RegisteredAfter(h) = {transactions[i] : i \in (k + 1)..Len(transactions)}
              /\ \A i \in 1..k : /\ height[transactions[i]] <= h
                                 /\ height'[transactions[i]] = height[transactions[i]]
              /\ \A i \in (k + 1)..Len(transactions) :
                    height'[transactions[i]] = Unconfirmed
<1>1. PICK n \in Nat : n = Len(transactions)
  BY DEF IInv, Types
<1>2. /\ \A i \in 1..n : transactions[i] \in Txs /\ height[transactions[i]] \in Nat
      /\ HeightSorted(transactions, height) /\ Once(transactions)
  BY <1>1, ElementOfSeq, HeightIsNat
     DEF IInv, Types, ListOrdered, SetTxUnconfirmedAfter, Calling
<1>3. PICK k \in 0..n :
        /\ RegisteredAfter(h) = {transactions[i] : i \in (k + 1)..n}
        /\ \A i \in 1..k : height[transactions[i]] <= h
  <2> DEFINE I == {i \in 1..Len(transactions) : height[transactions[i]] <= h}
             m == IF I # {} THEN Max(I) ELSE 0
  <2>1. RegisteredAfter(h) = {transactions[i] : i \in (m + 1)..n}
    BY <1>1 DEF RegisteredAfter, SelectLastInSeq
  <2>2. CASE I = {}
    <3>1. m = 0
      BY <2>2
    <3> HIDE DEF m
    <3> QED
      BY <2>1, <3>1
  <2>3. CASE I # {}
    <3>1. m \in I
      BY <1>1, <2>3, MaxIndex
    <3>2. m \in 1..n /\ height[transactions[m]] <= h
      BY <1>1, <3>1
    <3>3. ASSUME NEW i \in 1..m PROVE height[transactions[i]] <= h
      <4>1. i \in 1..n /\ (i < m \/ i = m)
        BY <3>2
      <4>2. height[transactions[i]] <= height[transactions[m]]
        BY <1>1, <1>2, <3>2, <4>1 DEF HeightSorted
      <4> HIDE DEF m, I
      <4> QED
        BY <1>2, <3>2, <4>1, <4>2, HeightAssumption
    <3> HIDE DEF m
    <3> QED
      BY <2>1, <3>2, <3>3
  <2> QED
    BY <2>2, <2>3
<1>4. height' = [t \in Txs |-> IF t \in RegisteredAfter(h) THEN Unconfirmed ELSE height[t]]
  BY DEF SetTxUnconfirmedAfter
<1>5. ASSUME NEW i \in 1..k PROVE height'[transactions[i]] = height[transactions[i]]
  <2>1. i \in 1..n /\ \A j \in (k + 1)..n : j \in 1..n /\ i # j
    OBVIOUS
  <2>2. transactions[i] \notin RegisteredAfter(h)
    BY <1>1, <1>2, <1>3, <2>1 DEF Once
  <2> QED
    BY <1>2, <1>4, <2>1, <2>2
<1>6. ASSUME NEW i \in (k + 1)..n PROVE height'[transactions[i]] = Unconfirmed
  <2>1. i \in 1..n /\ transactions[i] \in RegisteredAfter(h)
    BY <1>3
  <2> QED
    BY <1>2, <1>4, <2>1
<1> QED
  BY <1>1, <1>3, <1>5, <1>6

\* A reorganisation keeps the list sorted: what follows the join point becomes
\* unconfirmed, the greatest height.
LEMMA ReorgInv ==
    ASSUME IInv, NEW h \in 0..MaxHeight, SetTxUnconfirmedAfter(h)
    PROVE  IInv'
<1>1. PICK n \in Nat : n = Len(transactions)
  BY DEF IInv, Types
<1>2. PICK k \in 0..n :
        /\ RegisteredAfter(h) = {transactions[i] : i \in (k + 1)..n}
        /\ \A i \in 1..k : height'[transactions[i]] = height[transactions[i]]
        /\ \A i \in (k + 1)..n : height'[transactions[i]] = Unconfirmed
  BY <1>1, ReorgSplit
<1>3. /\ \A i \in 1..n : transactions[i] \in Txs
      /\ HeightSorted(transactions, height) /\ Once(transactions)
      /\ transactions' = transactions
  BY <1>1, ElementOfSeq DEF IInv, Types, ListOrdered, SetTxUnconfirmedAfter, Calling
<1>4. Types'
  BY DEF IInv, Types, HeightValues, SetTxUnconfirmedAfter
<1>5. \A t \in Txs : height'[t] \in Nat /\ height'[t] <= Unconfirmed
  BY <1>4, HeightAssumption DEF Types, HeightValues, Heights
<1>6. HeightSorted(transactions, height')
  <2> SUFFICES ASSUME NEW i \in 1..n, NEW j \in 1..n, i < j
               PROVE  height'[transactions[i]] <= height'[transactions[j]]
    BY <1>1 DEF HeightSorted
  <2>1. CASE j \in 1..k
    <3>1. i \in 1..k
      BY <2>1
    <3>2. height[transactions[i]] <= height[transactions[j]]
      BY <1>1, <1>3 DEF HeightSorted
    <3> QED
      BY <1>2, <2>1, <3>1, <3>2
  <2>2. CASE j \in (k + 1)..n
    BY <1>2, <1>3, <1>5, <2>2
  <2> QED
    BY <2>1, <2>2
<1>7. Loading' /\ Updating'
  BY DEF SetTxUnconfirmedAfter, Calling, Loading, Updating
<1> QED
  BY <1>3, <1>4, <1>6, <1>7 DEF IInv, ListOrdered

\* The steps that leave the list and the heights as they are.
QuietStep ==
    \/ FinishLoad
    \/ ReplaceUsedAddrs
    \/ RemoveGone \/ RemoveDependents
    \/ UpdateDone
    \/ \E t \in Txs : RegisterOtherTx(t)
    \/ \E t \in Txs : RemoveTransaction(t)
    \/ ReceiveAddress
    \/ FilterAddrs

\* None of these steps touches the list, the heights or an update under way.
LEMMA QuietInv ==
    ASSUME IInv, QuietStep
    PROVE  IInv'
<1> USE DEF IInv, Calling
<1>1. UNCHANGED <<transactions, height>>
  BY DEF QuietStep, FinishLoad, ReplaceUsedAddrs, RemoveGone, RemoveDependents, UpdateDone,
         RegisterOtherTx, RemoveTransaction, ReceiveAddress, FilterAddrs
<1>2. NoDangling /\ allTx' \subseteq Txs
  BY DEF QuietStep, FinishLoad, ReplaceUsedAddrs, RemoveGone, RemoveDependents, UpdateDone,
         RegisterOtherTx, RemoveTransaction, ReceiveAddress, FilterAddrs, Types
<1>3. Types' /\ ListOrdered'
  BY <1>1, <1>2 DEF Types, ListOrdered
<1>4. Loading' /\ Updating'
  <2>1. CASE FinishLoad \/ ReplaceUsedAddrs \/ UpdateDone \/ RemoveGone \/ RemoveDependents
             \/ \E t \in Txs : RemoveTransaction(t)
    <3>1. call'.op \in {"idle", "failed", "remove"}
      <4>1. FinishLoad => call' = Idle \/ call' = [op |-> "failed"]
        BY DEF FinishLoad
      <4>5. ReplaceUsedAddrs \/ UpdateDone => call' = Idle
        BY DEF ReplaceUsedAddrs, UpdateDone
      <4>2. RemoveGone => \E work : call' = Return(work)
        BY DEF RemoveGone
      <4>3. RemoveDependents => \E work : call' = [op |-> "remove", work |-> work]
        BY DEF RemoveDependents
      <4>4. ASSUME NEW t \in Txs, RemoveTransaction(t)
            PROVE  \E work : call' = [op |-> "remove", work |-> work]
        BY <4>4 DEF RemoveTransaction
      <4> QED
        BY <2>1, <4>1, <4>2, <4>3, <4>4, <4>5 DEF Return, Idle
    <3> QED
      BY <3>1 DEF Loading, Updating
  <2>3. CASE (\E t \in Txs : RegisterOtherTx(t)) \/ ReceiveAddress \/ FilterAddrs
    <3>1. call' = call
      BY <2>3 DEF RegisterOtherTx, ReceiveAddress, FilterAddrs
    <3> QED
      BY <1>1, <3>1 DEF Loading, Updating, Registered
  <2> QED
    BY <2>1, <2>3 DEF QuietStep
<1> QED
  BY <1>3, <1>4

\* A restart begins with an empty list.
LEMMA RestartInv ==
    ASSUME IInv, Restart
    PROVE  IInv'
<1> USE DEF IInv, Restart
<1>1. transactions' \in Seq(Txs) /\ Len(transactions') = 0
  OBVIOUS
<1>2. Types'
  BY <1>1 DEF Types, HeightValues
<1>3. Registered' = {}
  BY DEF Registered, Range
<1>4. Loading' /\ Updating'
  BY <1>3 DEF Loading, Updating
<1>5. ListOrdered'
  BY <1>1 DEF ListOrdered, HeightSorted, Once
<1> QED
  BY <1>2, <1>4, <1>5

\* Every step keeps the invariant.
LEMMA StepInv == IInv /\ [Next]_vars => IInv'
<1> SUFFICES ASSUME IInv, [Next]_vars PROVE IInv'
  OBVIOUS
<1>1. ASSUME NEW t \in Txs, NEW h \in HeightValues, LoadTx(t, h) PROVE IInv'
  BY <1>1, LoadTxInv
<1>2. ASSUME NEW t \in Txs, RegisterWalletTx(t) PROVE IInv'
  BY <1>2, RegisterInv
<1>3. CASE RemoveAndFree
  BY <1>3, RemoveInv
<1>4. CASE UpdateWalletTx
  BY <1>4, UpdateWalletInv
<1>5. CASE UpdateOtherTx
  BY <1>5, UpdateOtherInv
<1>6. CASE UpdateSkip
  BY <1>6, UpdateSkipInv
<1>7. CASE BlockConfirms \/ PeersVerify
  BY <1>7, UpdateBeginInv
<1>8. ASSUME NEW h \in 0..MaxHeight, SetTxUnconfirmedAfter(h) PROVE IInv'
  BY <1>8, ReorgInv
<1>10. CASE QuietStep
  BY <1>10, QuietInv
<1>11. CASE Restart
  BY <1>11, RestartInv
<1>12. CASE UNCHANGED vars
  BY <1>12 DEF vars, IInv, Types, Loading, Updating, ListOrdered,
               NoDangling, Registered
<1> QED
  BY <1>1, <1>2, <1>3, <1>4, <1>5, <1>6, <1>7, <1>8, <1>10, <1>11, <1>12
     DEF Next, Progress, QuietStep, HeightValues

-----------------------------------------------------------------------------
(* The pass of _BRWalletUpdateBalance *)

Outpoints == UNION {{<<t, n>> : n \in DOMAIN Outputs[t]} : t \in Txs}
AmountOf == [o \in Outpoints |-> Outputs[o[1]][o[2]].amount]
Chosen(s) == CHOOSE o \in s : TRUE
First == [s \in SUBSET Outpoints |-> Chosen(s)]

\* Outputs are owned by their transaction, finitely many, with natural amounts.
LEMMA OwnedOutpoints ==
    ASSUME NEW t \in Txs, NEW addrs
    PROVE  /\ OwnedOutputs(t, addrs) \in SUBSET Outpoints
           /\ IsFiniteSet(OwnedOutputs(t, addrs))
           /\ \A o \in OwnedOutputs(t, addrs) : o[1] = t
<1> DEFINE n == Len(Outputs[t])
           f == [i \in 1..n |-> <<t, i>>]
<1>1. n \in Nat /\ DOMAIN Outputs[t] = 1..n
  BY OutputAssumption, LenProperties
<1>2. OwnedOutputs(t, addrs) \in SUBSET {<<t, i>> : i \in 1..n}
  BY <1>1 DEF OwnedOutputs
<1>3. IsFiniteSet({<<t, i>> : i \in 1..n})
  <2>1. IsFiniteSet(1..n)
    <3>1. 1 \in Int /\ n \in Int
      BY <1>1
    <3> HIDE DEF n, f
    <3> QED
      BY <3>1, FS_Interval
  <2>2. f \in Surjection(1..n, {<<t, i>> : i \in 1..n})
    BY DEF Surjection
  <2> QED
    BY <2>1, <2>2, FS_Surjection
<1>4. IsFiniteSet(OwnedOutputs(t, addrs))
  BY <1>2, <1>3, FS_Subset
<1>5. OwnedOutputs(t, addrs) \in SUBSET Outpoints
  BY <1>1, <1>2 DEF Outpoints
<1>6. \A o \in OwnedOutputs(t, addrs) : o[1] = t
  BY <1>2
<1> QED
  BY <1>4, <1>5, <1>6

\* Amounts are natural, and there is an element to take out of any set.
LEMMA AmountNat ==
    /\ \A o \in Outpoints : AmountOf[o] \in Nat
    /\ Chooses(First, Outpoints)
<1>1. \A o \in Outpoints : AmountOf[o] \in Nat
  BY OutputAssumption DEF AmountOf, Outpoints
<1>2. Chooses(First, Outpoints)
  BY DEF First, Chosen, Chooses
<1> QED
  BY <1>1, <1>2

\* Amount adds up a function on the subsets of its set.
AmountEquation(g, S) ==
    g = [s \in SUBSET S |->
           IF s = {} THEN 0
           ELSE Outputs[Chosen(s)[1]][Chosen(s)[2]].amount + g[s \ {Chosen(s)}]]

\* Amount is the sum over the outputs, whichever is taken first.
LEMMA AmountIsSum ==
    ASSUME NEW S \in SUBSET Outpoints, IsFiniteSet(S)
    PROVE  \E g : Sums(g, AmountOf, First, S) /\ Amount(S) = g[S]
<1> DEFINE A == Int
           zero == 0
           F == [o \in S |-> [a \in A |-> AmountOf[o] + a]]
<1>1. F \in [S -> [A -> A]] /\ zero \in A
  BY AmountNat
<1>2. Chooses(First, S)
  BY AmountNat DEF Chooses
<1>3. PICK g \in [SUBSET S -> A] : Folds(g, zero, F, First, S)
  <2> HIDE DEF F, A, zero
  <2> QED
    BY <1>1, <1>2, SubsetRecursion
<1>4. \A s \in SUBSET S : s # {} =>
         /\ First[s] = Chosen(s) /\ Chosen(s) \in S
         /\ AmountOf[Chosen(s)] = Outputs[Chosen(s)[1]][Chosen(s)[2]].amount
  BY <1>2 DEF First, AmountOf, Chooses
<1>5. \A s \in SUBSET S :
         g[s] = IF s = {} THEN 0 ELSE AmountOf[Chosen(s)] + g[s \ {Chosen(s)}]
  <2> TAKE s \in SUBSET S
  <2>1. s # {} => g[s \ {Chosen(s)}] \in Int
    OBVIOUS
  <2> QED
    BY <1>3, <1>4, <2>1 DEF Folds
<1>6. AmountEquation(g, S)
  BY <1>4, <1>5 DEF AmountEquation
<1>7. PICK f : Amount(S) = f[S] /\ f = CHOOSE h : AmountEquation(h, S)
  BY DEF Amount, MapThenSumSet, MapThenFoldSet, AmountEquation, Chosen
<1>8. AmountEquation(f, S)
  BY <1>6, <1>7
<1>9. Sums(f, AmountOf, First, S)
  BY <1>4, <1>8 DEF AmountEquation, Sums
<1> QED
  BY <1>7, <1>9

\* Amounts are natural, and those of disjoint sets are added.
LEMMA AmountFacts ==
    ASSUME NEW a \in SUBSET Outpoints, IsFiniteSet(a),
           NEW b \in SUBSET Outpoints, IsFiniteSet(b), a \cap b = {}
    PROVE  /\ Amount(a) \in Nat /\ Amount(b) \in Nat
           /\ Amount(a \cup b) = Amount(a) + Amount(b)
<1> DEFINE c == a \cup b
<1>1. c \in SUBSET Outpoints /\ IsFiniteSet(c) /\ a \subseteq c /\ b \subseteq c
  BY FS_Union
<1> HIDE DEF c
<1>2. PICK g : Sums(g, AmountOf, First, c) /\ Amount(c) = g[c]
  BY <1>1, AmountIsSum
<1>3. PICK ga : Sums(ga, AmountOf, First, a) /\ Amount(a) = ga[a]
  BY AmountIsSum
<1>4. PICK gb : Sums(gb, AmountOf, First, b) /\ Amount(b) = gb[b]
  BY AmountIsSum
<1>5. Chooses(First, a) /\ Chooses(First, b) /\ Chooses(First, c)
  BY <1>1, AmountNat DEF Chooses
<1>6. Amount(a) = g[a]
  <2>1. \A s \in SUBSET a : g[s] = ga[s]
    BY <1>1, <1>2, <1>3, <1>5, SumUnique
  <2> QED
    BY <1>3, <2>1
<1>7. Amount(b) = g[b]
  <2>1. \A s \in SUBSET b : g[s] = gb[s]
    BY <1>1, <1>2, <1>4, <1>5, SumUnique
  <2> QED
    BY <1>4, <2>1
<1>8. \A o \in c : AmountOf[o] \in Nat /\ AmountOf[o] \in Int
  BY <1>1, AmountNat
<1>9. g[a] \in Nat /\ g[b] \in Nat
  BY <1>1, <1>2, <1>5, <1>8, SumNat
<1>10. g[a \cup b] = g[a] + g[b]
  BY <1>1, <1>2, <1>5, <1>8, SumDisjoint
<1> QED
  BY <1>2, <1>6, <1>7, <1>9, <1>10 DEF c

\* So the amount of any finite set of outputs is natural.
LEMMA AmountNatural ==
    ASSUME NEW a \in SUBSET Outpoints, IsFiniteSet(a)
    PROVE  Amount(a) \in Nat
  BY AmountFacts, FS_EmptySet

\* No outputs, no amount.
LEMMA AmountOfNone == Amount({}) = 0
<1>1. PICK g : Sums(g, AmountOf, First, {}) /\ Amount({}) = g[{}]
  BY AmountIsSum, FS_EmptySet
<1> QED
  BY <1>1 DEF Sums

-----------------------------------------------------------------------------
(* The ledger *)

FiniteSubsets(S) == {s \in SUBSET S : IsFiniteSet(s)}
Addresses == UNION {PaysTo(t) : t \in Txs}
SpentBy(S) == UNION {Inputs[t] : t \in S}

\* What a pass over the list computes with.
Accounts ==
    [balance : Int, utxos : FiniteSubsets(Outpoints), spent : SUBSET SpentBy(Txs),
     invalid : SUBSET Txs, pending : SUBSET Txs, used : FiniteSubsets(Addresses)]

\* The addresses a transaction pays are finitely many.
LEMMA PaysToAddresses ==
    ASSUME NEW t \in Txs
    PROVE  PaysTo(t) \in FiniteSubsets(Addresses)
<1> DEFINE n == Len(Outputs[t])
           f == [i \in 1..n |-> Outputs[t][i].addr]
<1>1. n \in Nat /\ DOMAIN Outputs[t] = 1..n
  BY OutputAssumption, LenProperties
<1>2. IsFiniteSet(1..n)
  <2>1. 1 \in Int /\ n \in Int
    BY <1>1
  <2> HIDE DEF n, f
  <2> QED
    BY <2>1, FS_Interval
<1>3. f \in Surjection(1..n, PaysTo(t))
  BY <1>1 DEF Surjection, PaysTo
<1>4. IsFiniteSet(PaysTo(t))
  BY <1>2, <1>3, FS_Surjection
<1> QED
  BY <1>4 DEF FiniteSubsets, Addresses

\* A record is made of its fields.
LEMMA LedgerFields ==
    ASSUME NEW B1, NEW B2, NEW B3, NEW B4, NEW B5, NEW B6,
           NEW acc \in [balance : B1, utxos : B2, spent : B3, invalid : B4, pending : B5, used : B6]
    PROVE  acc = [balance |-> acc.balance, utxos |-> acc.utxos, spent |-> acc.spent,
                  invalid |-> acc.invalid, pending |-> acc.pending, used |-> acc.used]
  OBVIOUS

\* What an update of four fields leaves: the others.
LEMMA LedgerUpdate ==
    ASSUME NEW acc \in Accounts, NEW a, NEW b, NEW c, NEW d
    PROVE  [acc EXCEPT !.spent = a, !.used = b, !.utxos = c, !.balance = d] =
             [balance |-> d, utxos |-> c, spent |-> a, invalid |-> acc.invalid,
              pending |-> acc.pending, used |-> b]
<1> DEFINE r == [acc EXCEPT !.spent = a, !.used = b, !.utxos = c, !.balance = d]
<1>1. r \in [balance : {d}, utxos : {c}, spent : {a}, invalid : {acc.invalid},
             pending : {acc.pending}, used : {b}]
  BY DEF Accounts
<1> HIDE DEF r
<1>2. r = [balance |-> r.balance, utxos |-> r.utxos, spent |-> r.spent,
           invalid |-> r.invalid, pending |-> r.pending, used |-> r.used]
  BY <1>1, LedgerFields
<1>3. /\ r.balance = d /\ r.utxos = c /\ r.spent = a /\ r.invalid = acc.invalid
      /\ r.pending = acc.pending /\ r.used = b
  BY <1>1
<1> QED
  BY <1>2, <1>3 DEF r

\* What a valid transaction that is not pending does to each field.
LEMMA CreditFields ==
    ASSUME NEW acc \in Accounts, NEW t, NEW addrs
    PROVE  Credit(acc, t, addrs) =
             [balance |-> acc.balance + Amount(OwnedOutputs(t, addrs))
                            - Amount((acc.utxos \cup OwnedOutputs(t, addrs))
                                       \cap (acc.spent \cup Inputs[t])),
              utxos |-> (acc.utxos \cup OwnedOutputs(t, addrs)) \ (acc.spent \cup Inputs[t]),
              spent |-> acc.spent \cup Inputs[t],
              invalid |-> acc.invalid, pending |-> acc.pending,
              used |-> acc.used \cup PaysTo(t)]
<1> DEFINE a == acc.spent \cup Inputs[t]
           b == acc.used \cup PaysTo(t)
           have == acc.utxos \cup OwnedOutputs(t, addrs)
           c == have \ a
           d == acc.balance + Amount(OwnedOutputs(t, addrs)) - Amount(have \cap a)
<1>1. Credit(acc, t, addrs) =
        [acc EXCEPT !.spent = a, !.used = b, !.utxos = c, !.balance = d]
  BY Zenon DEF Credit
<1> HIDE DEF a, b, c, d
<1>2. Credit(acc, t, addrs) =
        [balance |-> d, utxos |-> c, spent |-> a, invalid |-> acc.invalid,
         pending |-> acc.pending, used |-> b]
  BY <1>1, LedgerUpdate
<1> QED
  BY <1>2 DEF a, b, c, d

\* Each step of the pass makes an account of an account.
LEMMA AccountType ==
    ASSUME NEW acc \in Accounts, NEW t \in Txs, NEW h, NEW tip, NEW addrs
    PROVE  Account(acc, t, h, tip, addrs) \in Accounts
<1> DEFINE own == OwnedOutputs(t, addrs)
           have == acc.utxos \cup own
           spent == acc.spent \cup Inputs[t]
           gone == have \cap spent
           left == have \ spent
<1>1. /\ acc \in [balance : Int, utxos : FiniteSubsets(Outpoints), spent : SUBSET SpentBy(Txs),
                  invalid : SUBSET Txs, pending : SUBSET Txs, used : FiniteSubsets(Addresses)]
  BY DEF Accounts
<1>2. acc.utxos \in SUBSET Outpoints /\ IsFiniteSet(acc.utxos)
  BY <1>1 DEF FiniteSubsets
<1>3. own \in SUBSET Outpoints /\ IsFiniteSet(own) /\ Amount(own) \in Nat
  <2>1. own \in SUBSET Outpoints /\ IsFiniteSet(own)
    BY OwnedOutpoints
  <2> HIDE DEF own
  <2> QED
    BY <2>1, AmountNatural
<1>4. IsFiniteSet(have) /\ have \in SUBSET Outpoints
  BY <1>2, <1>3, FS_Union
<1>5. /\ gone \in SUBSET Outpoints /\ IsFiniteSet(gone)
      /\ left \in SUBSET Outpoints /\ IsFiniteSet(left)
  BY <1>4, FS_Subset
<1>6. Amount(gone) \in Nat
  BY <1>5, AmountNatural
<1>7. acc.used \cup PaysTo(t) \in FiniteSubsets(Addresses)
  BY <1>1, PaysToAddresses, FS_Union DEF FiniteSubsets
<1>8. spent \in SUBSET SpentBy(Txs)
  BY <1>1 DEF SpentBy
<1>9. Credit(acc, t, addrs) \in Accounts
  <2>1. Credit(acc, t, addrs) =
          [balance |-> acc.balance + Amount(own) - Amount(gone), utxos |-> left,
           spent |-> spent, invalid |-> acc.invalid, pending |-> acc.pending,
           used |-> acc.used \cup PaysTo(t)]
    BY CreditFields
  <2>2. acc.balance + Amount(own) - Amount(gone) \in Int
    BY <1>1, <1>3, <1>6
  <2>3. left \in FiniteSubsets(Outpoints)
    BY <1>5 DEF FiniteSubsets
  <2> HIDE DEF own, have, spent, gone, left
  <2> QED
    BY <1>1, <1>7, <1>8, <2>1, <2>2, <2>3 DEF Accounts
<1>10. SetInvalid(acc, t) \in Accounts
  BY DEF SetInvalid, Accounts
<1>11. SetPending(acc, t) \in Accounts
  BY <1>8 DEF SetPending, Accounts
<1> QED
  BY <1>9, <1>10, <1>11 DEF Account

\* A pass begins with nothing.
LEMMA EmptyLedgerType == EmptyLedger \in Accounts
  BY FS_EmptySet DEF EmptyLedger, Accounts, FiniteSubsets

\* The pass of _BRWalletUpdateBalance, one transaction after the other.
Pass(acc, list, h, tip, addrs) ==
    /\ acc[0] = EmptyLedger
    /\ \A k \in 1..Len(list) : acc[k] = Account(acc[k - 1], list[k], h, tip, addrs)

PassEquation(f, list, h, tip, addrs) ==
    f = [s \in SUBSET DOMAIN list |->
           IF s = {} THEN EmptyLedger
           ELSE Account(f[s \ {Max(s)}], list[Max(s)], h, tip, addrs)]

\* _BRWalletUpdateBalance folds the transactions of the list in order, so its
\* result is the last account of a pass.
LEMMA UpdateBalancePass ==
    ASSUME NEW list \in Seq(Txs), NEW h, NEW tip, NEW addrs
    PROVE  \E acc : /\ Pass(acc, list, h, tip, addrs)
                    /\ UpdateBalance(list, h, tip, addrs) = acc[Len(list)]
<1> DEFINE n == Len(list)
           D == 1..n
           C == [s \in SUBSET D |-> Max(s)]
           F == [i \in D |-> [a \in Accounts |-> Account(a, list[i], h, tip, addrs)]]
<1>1. n \in Nat /\ DOMAIN list = D /\ \A i \in D : list[i] \in Txs
  BY ElementOfSeq
<1>2. IsFiniteSet(D)
  BY <1>1, FS_Interval
<1>3. \A s \in SUBSET D : s # {} => Max(s) \in s
  BY <1>1, MaxIndex
<1>4. Chooses(C, D)
  BY <1>3 DEF Chooses
<1>5. F \in [D -> [Accounts -> Accounts]]
  BY <1>1, AccountType
<1>6. PICK g \in [SUBSET D -> Accounts] : Folds(g, EmptyLedger, F, C, D)
  <2> HIDE DEF D, C, F
  <2> QED
    BY <1>2, <1>4, <1>5, EmptyLedgerType, SubsetRecursion
<1>7. ASSUME NEW s \in SUBSET D
      PROVE  g[s] = IF s = {} THEN EmptyLedger
                    ELSE Account(g[s \ {Max(s)}], list[Max(s)], h, tip, addrs)
  <2>1. g[s] = IF s = {} THEN EmptyLedger ELSE F[C[s]][g[s \ {C[s]}]]
    BY <1>6 DEF Folds
  <2>2. s # {} => C[s] = Max(s) /\ Max(s) \in D /\ g[s \ {Max(s)}] \in Accounts
    BY <1>3, <1>6
  <2> QED
    BY <2>1, <2>2
<1>8. PassEquation(g, list, h, tip, addrs)
  BY <1>1, <1>6, <1>7 DEF PassEquation
<1>9. PICK f : /\ UpdateBalance(list, h, tip, addrs) = f[DOMAIN list]
               /\ f = CHOOSE e : PassEquation(e, list, h, tip, addrs)
  BY DEF UpdateBalance, FoldLeft, MapThenFoldSet, PassEquation
<1>10. PassEquation(f, list, h, tip, addrs)
  BY <1>8, <1>9
<1> DEFINE acc == [k \in 0..n |-> f[1..k]]
<1>11. acc[0] = EmptyLedger
  <2>1. 0 \in 0..n /\ 1..0 = {} /\ {} \in SUBSET DOMAIN list
    BY <1>1
  <2> QED
    BY <1>10, <2>1 DEF PassEquation
<1>12. ASSUME NEW k \in 1..n
       PROVE  acc[k] = Account(acc[k - 1], list[k], h, tip, addrs)
  <2>1. k \in Nat /\ k # 0 /\ k \in 0..n /\ k - 1 \in 0..n /\ 1..k \in SUBSET DOMAIN list /\ k \in 1..k
    BY <1>1
  <2>2. Max(1..k) = k /\ (1..k) \ {k} = 1..(k - 1)
    BY <2>1, LastPosition
  <2>3. f[1..k] = Account(f[1..(k - 1)], list[k], h, tip, addrs)
    BY <1>10, <2>1, <2>2 DEF PassEquation
  <2> QED
    BY <2>1, <2>3
<1>13. acc[n] = UpdateBalance(list, h, tip, addrs)
  <2>1. n \in 0..n
    BY <1>1
  <2> QED
    BY <1>1, <1>9, <2>1
<1> HIDE DEF acc
<1> QED
  BY <1>11, <1>12, <1>13 DEF Pass

\* What a pass has established of the transactions it went over.
Accounted(acc, S) ==
    LET valid == S \ acc.invalid
        counted == valid \ acc.pending
    IN  /\ acc.invalid \subseteq S /\ acc.pending \subseteq valid
        /\ acc.spent = SpentBy(valid)
        /\ \A t, u \in valid : t # u => Inputs[t] \cap Inputs[u] = {}
        /\ \A t \in acc.invalid :
              \/ \E u \in valid : u # t /\ Inputs[t] \cap Inputs[u] # {}
              \/ Parents(t) \cap acc.invalid # {}
        /\ \A o \in acc.utxos : o[1] \in counted
        /\ \A t \in counted : Inputs[t] \cap acc.utxos = {}
        /\ acc.balance = Amount(acc.utxos)

UnconfirmedOnly(S, h) == \A t \in S : h[t] = Unconfirmed

\* An invalid transaction changes nothing but its own standing.
LEMMA InvalidStep ==
    ASSUME NEW acc \in Accounts, NEW S \in SUBSET Txs, NEW t \in Txs \ S, NEW h,
           Accounted(acc, S), IsInvalid(acc, t, h)
    PROVE  Accounted(SetInvalid(acc, t), S \cup {t})
<1> DEFINE r == SetInvalid(acc, t)
           valid == S \ acc.invalid
           now == (S \cup {t}) \ r.invalid
<1>1. /\ r.invalid = acc.invalid \cup {t}
      /\ r.pending = acc.pending /\ r.spent = acc.spent
      /\ r.utxos = acc.utxos /\ r.balance = acc.balance
  BY DEF SetInvalid, Accounts
<1> HIDE DEF r
<1>2. now = valid
  BY <1>1
<1>3. \/ \E u \in valid : u # t /\ Inputs[t] \cap Inputs[u] # {}
      \/ Parents(t) \cap acc.invalid # {}
  BY DEF IsInvalid, Accounted, SpentBy
<1> HIDE DEF now, valid
<1>4. \A u \in r.invalid :
         \/ \E v \in now : v # u /\ Inputs[u] \cap Inputs[v] # {}
         \/ Parents(u) \cap r.invalid # {}
  <2> TAKE u \in r.invalid
  <2>1. CASE u = t
    BY <1>1, <1>2, <1>3, <2>1
  <2>2. CASE u \in acc.invalid
    BY <1>1, <1>2, <2>2 DEF Accounted, valid
  <2> QED
    BY <1>1, <2>1, <2>2
<1>5. /\ acc.invalid \subseteq S /\ acc.pending \subseteq valid
      /\ acc.spent = SpentBy(valid)
      /\ \A a, b \in valid : a # b => Inputs[a] \cap Inputs[b] = {}
      /\ \A o \in acc.utxos : o[1] \in valid \ acc.pending
      /\ \A a \in valid \ acc.pending : Inputs[a] \cap acc.utxos = {}
      /\ acc.balance = Amount(acc.utxos)
  BY DEF Accounted, valid
<1>6. r.invalid \subseteq S \cup {t}
  BY <1>1, <1>5
<1> QED
  BY <1>1, <1>2, <1>4, <1>5, <1>6 DEF Accounted, now, r

\* A transaction with no input spent yet joins the valid ones.
LEMMA ValidStep ==
    ASSUME NEW acc \in Accounts, NEW S \in SUBSET Txs, NEW t \in Txs \ S,
           Accounted(acc, S), Inputs[t] \cap acc.spent = {}
    PROVE  /\ (S \cup {t}) \ acc.invalid = (S \ acc.invalid) \cup {t}
           /\ acc.spent \cup Inputs[t] = SpentBy((S \cup {t}) \ acc.invalid)
           /\ \A a, b \in (S \cup {t}) \ acc.invalid : a # b => Inputs[a] \cap Inputs[b] = {}
           /\ t \notin acc.invalid /\ t \notin acc.pending
<1> DEFINE valid == S \ acc.invalid
<1>1. /\ acc.invalid \subseteq S /\ acc.pending \subseteq valid
      /\ acc.spent = SpentBy(valid)
      /\ \A a, b \in valid : a # b => Inputs[a] \cap Inputs[b] = {}
  BY DEF Accounted
<1>2. t \notin acc.invalid /\ t \notin acc.pending /\ t \notin valid
  BY <1>1
<1>3. (S \cup {t}) \ acc.invalid = valid \cup {t}
  BY <1>2
<1> HIDE DEF valid
<1>4. SpentBy(valid \cup {t}) = SpentBy(valid) \cup Inputs[t]
  BY DEF SpentBy
<1>5. \A a \in valid : Inputs[a] \cap Inputs[t] = {}
  BY <1>1 DEF SpentBy
<1>6. \A a, b \in valid \cup {t} : a # b => Inputs[a] \cap Inputs[b] = {}
  BY <1>1, <1>5
<1> QED
  BY <1>1, <1>2, <1>3, <1>4, <1>6 DEF valid

\* A pending transaction reserves what it spends and adds nothing.
LEMMA PendingStep ==
    ASSUME NEW acc \in Accounts, NEW S \in SUBSET Txs, NEW t \in Txs \ S,
           Accounted(acc, S), Inputs[t] \cap acc.spent = {}
    PROVE  Accounted(SetPending(acc, t), S \cup {t})
<1> DEFINE r == SetPending(acc, t)
           valid == S \ acc.invalid
           now == (S \cup {t}) \ r.invalid
<1>1. /\ r.invalid = acc.invalid
      /\ r.pending = acc.pending \cup {t} /\ r.spent = acc.spent \cup Inputs[t]
      /\ r.utxos = acc.utxos /\ r.balance = acc.balance
  BY DEF SetPending, Accounts
<1> HIDE DEF r
<1>2. /\ now = valid \cup {t}
      /\ r.spent = SpentBy(now)
      /\ \A a, b \in now : a # b => Inputs[a] \cap Inputs[b] = {}
      /\ t \notin acc.invalid /\ t \notin acc.pending
  BY <1>1, ValidStep
<1>3. /\ acc.invalid \subseteq S /\ acc.pending \subseteq valid
      /\ \A a \in acc.invalid :
            \/ \E u \in valid : u # a /\ Inputs[a] \cap Inputs[u] # {}
            \/ Parents(a) \cap acc.invalid # {}
      /\ \A o \in acc.utxos : o[1] \in valid \ acc.pending
      /\ \A a \in valid \ acc.pending : Inputs[a] \cap acc.utxos = {}
      /\ acc.balance = Amount(acc.utxos)
  BY DEF Accounted
<1>4. now \ r.pending = valid \ acc.pending
  BY <1>1, <1>2, <1>3
<1>5. r.pending \subseteq now /\ r.invalid \subseteq S \cup {t}
  BY <1>1, <1>2, <1>3
<1>6. \A a \in r.invalid :
         \/ \E u \in now : u # a /\ Inputs[a] \cap Inputs[u] # {}
         \/ Parents(a) \cap r.invalid # {}
  BY <1>1, <1>2, <1>3
<1> HIDE DEF valid
<1> QED
  BY <1>1, <1>2, <1>3, <1>4, <1>5, <1>6 DEF Accounted, now, r

\* A valid transaction adds the outputs it pays the wallet, and everything spent
\* leaves the unspent, whatever order the two came in.
LEMMA CreditStep ==
    ASSUME NEW acc \in Accounts, NEW S \in SUBSET Txs, NEW t \in Txs \ S, NEW addrs,
           Accounted(acc, S), Inputs[t] \cap acc.spent = {}
    PROVE  /\ Accounted(Credit(acc, t, addrs), S \cup {t})
           /\ Credit(acc, t, addrs).invalid = acc.invalid
<1> DEFINE r == Credit(acc, t, addrs)
           own == OwnedOutputs(t, addrs)
           have == acc.utxos \cup own
           spent == acc.spent \cup Inputs[t]
           valid == S \ acc.invalid
           now == (S \cup {t}) \ r.invalid
<1>1. /\ r.invalid = acc.invalid
      /\ r.pending = acc.pending /\ r.spent = spent
      /\ r.utxos = have \ spent
      /\ r.balance = acc.balance + Amount(own) - Amount(have \cap spent)
  BY CreditFields
<1> HIDE DEF r
<1>2. /\ now = valid \cup {t}
      /\ r.spent = SpentBy(now)
      /\ \A a, b \in now : a # b => Inputs[a] \cap Inputs[b] = {}
      /\ t \notin acc.invalid /\ t \notin acc.pending
  BY <1>1, ValidStep
<1>3. /\ acc.invalid \subseteq S /\ acc.pending \subseteq valid
      /\ \A a \in acc.invalid :
            \/ \E u \in valid : u # a /\ Inputs[a] \cap Inputs[u] # {}
            \/ Parents(a) \cap acc.invalid # {}
      /\ \A o \in acc.utxos : o[1] \in valid \ acc.pending
      /\ \A a \in valid \ acc.pending : Inputs[a] \cap acc.utxos = {}
      /\ acc.balance = Amount(acc.utxos)
  BY DEF Accounted
<1>4. r.pending \subseteq now /\ r.invalid \subseteq S \cup {t}
  BY <1>1, <1>2, <1>3
<1>5. \A a \in r.invalid :
         \/ \E u \in now : u # a /\ Inputs[a] \cap Inputs[u] # {}
         \/ Parents(a) \cap r.invalid # {}
  BY <1>1, <1>2, <1>3
<1>6. own \in SUBSET Outpoints /\ IsFiniteSet(own) /\ \A o \in own : o[1] = t
  BY OwnedOutpoints
<1>7. \A o \in r.utxos : o[1] \in now \ r.pending
  BY <1>1, <1>2, <1>3, <1>6
<1>8. \A a \in now \ r.pending : Inputs[a] \cap r.utxos = {}
  <2>1. \A a \in now : Inputs[a] \subseteq r.spent
    BY <1>2 DEF SpentBy
  <2> HIDE DEF now, have, spent
  <2> QED
    BY <1>1, <2>1
<1>9. r.balance = Amount(r.utxos)
  <2> DEFINE gone == have \cap spent
             left == have \ spent
  <2>1. acc.utxos \in SUBSET Outpoints /\ IsFiniteSet(acc.utxos) /\ acc.balance \in Int
    BY DEF Accounts, FiniteSubsets
  <2>2. acc.utxos \cap own = {}
    BY <1>3, <1>6
  <2>3. Amount(have) = acc.balance + Amount(own) /\ Amount(own) \in Nat
    <3> HIDE DEF own
    <3> QED
      BY <1>3, <1>6, <2>1, <2>2, AmountFacts
  <2>4. IsFiniteSet(have) /\ have \in SUBSET Outpoints
    BY <1>6, <2>1, FS_Union
  <2>5. /\ gone \in SUBSET Outpoints /\ IsFiniteSet(gone)
        /\ left \in SUBSET Outpoints /\ IsFiniteSet(left)
        /\ gone \cap left = {} /\ gone \cup left = have
    BY <2>4, FS_Subset
  <2>6. Amount(have) = Amount(gone) + Amount(left) /\ Amount(gone) \in Nat /\ Amount(left) \in Nat
    <3> HIDE DEF have, spent
    <3>1. Amount(gone \cup left) = Amount(gone) + Amount(left)
          /\ Amount(gone) \in Nat /\ Amount(left) \in Nat
      <4> HIDE DEF gone, left
      <4> QED
        BY <2>5, AmountFacts
    <3> HIDE DEF gone, left
    <3> QED
      BY <2>5, <3>1
  <2>7. r.balance = acc.balance + Amount(own) - Amount(gone) /\ r.utxos = left
    BY <1>1
  <2> HIDE DEF own, have, spent, gone, left
  <2> QED
    BY <2>1, <2>3, <2>6, <2>7
<1> HIDE DEF valid, own, have, spent
<1> QED
  BY <1>1, <1>2, <1>4, <1>5, <1>7, <1>8, <1>9 DEF Accounted, now, r

\* The pass goes over the next transaction, which is not below the others: if
\* it is confirmed so are they, and confirmed ones do not conflict.
LEMMA AccountStep ==
    ASSUME NEW acc \in Accounts, NEW S \in SUBSET Txs, NEW t \in Txs \ S,
           NEW h \in [Txs -> HeightValues], NEW tip, NEW addrs,
           OneChain(h), \A u \in S : h[u] <= h[t],
           Accounted(acc, S), UnconfirmedOnly(acc.invalid, h)
    PROVE  /\ Accounted(Account(acc, t, h, tip, addrs), S \cup {t})
           /\ UnconfirmedOnly(Account(acc, t, h, tip, addrs).invalid, h)
<1>1. CASE IsInvalid(acc, t, h)
  <2>1. Account(acc, t, h, tip, addrs) = SetInvalid(acc, t)
    BY <1>1 DEF Account
  <2>2. SetInvalid(acc, t).invalid = acc.invalid \cup {t}
    BY DEF SetInvalid, Accounts
  <2>3. h[t] = Unconfirmed
    BY <1>1 DEF IsInvalid
  <2> QED
    BY <1>1, <2>1, <2>2, <2>3, InvalidStep DEF UnconfirmedOnly
<1>2. CASE ~IsInvalid(acc, t, h)
  <2>1. Inputs[t] \cap acc.spent = {}
    <3>1. CASE h[t] = Unconfirmed
      BY <1>2, <3>1 DEF IsInvalid
    <3>2. CASE h[t] # Unconfirmed
      <4>1. \A u \in S : h[u] \in Nat /\ h[u] <= Unconfirmed
        BY HeightAssumption DEF HeightValues, Heights
      <4>2. h[t] \in Nat /\ h[t] < Unconfirmed
        BY <3>2, HeightAssumption DEF HeightValues, Heights
      <4>3. \A u \in S : h[u] # Unconfirmed /\ u # t /\ u \in Txs
        BY <4>1, <4>2, HeightAssumption
      <4>4. \A u \in S : Inputs[t] \cap Inputs[u] = {}
        BY <3>2, <4>3 DEF OneChain
      <4> QED
        BY <4>4 DEF Accounted, SpentBy
    <3> QED
      BY <3>1, <3>2
  <2>2. CASE IsPending(acc, t, h, tip)
    <3>1. Account(acc, t, h, tip, addrs) = SetPending(acc, t)
      BY <1>2, <2>2 DEF Account
    <3>2. SetPending(acc, t).invalid = acc.invalid
      BY DEF SetPending, Accounts
    <3> QED
      BY <2>1, <3>1, <3>2, PendingStep
  <2>3. CASE ~IsPending(acc, t, h, tip)
    <3>1. Account(acc, t, h, tip, addrs) = Credit(acc, t, addrs)
      BY <1>2, <2>3 DEF Account
    <3> QED
      BY <2>1, <3>1, CreditStep
  <2> QED
    BY <2>2, <2>3
<1> QED
  BY <1>1, <1>2

\* _BRWalletUpdateBalance accounts for every registered transaction.
LEMMA UpdateBalanceAccounted ==
    ASSUME NEW list \in Seq(Txs), NEW h \in [Txs -> HeightValues], NEW tip, NEW addrs,
           HeightSorted(list, h), Once(list), OneChain(h)
    PROVE  /\ UpdateBalance(list, h, tip, addrs) \in Accounts
           /\ Accounted(UpdateBalance(list, h, tip, addrs), Range(list))
           /\ UnconfirmedOnly(UpdateBalance(list, h, tip, addrs).invalid, h)
<1>1. PICK n \in Nat : n = Len(list)
  OBVIOUS
<1>2. DOMAIN list = 1..n /\ \A i \in 1..n : list[i] \in Txs
  BY <1>1, ElementOfSeq
<1>3. PICK acc : /\ Pass(acc, list, h, tip, addrs)
                 /\ UpdateBalance(list, h, tip, addrs) = acc[n]
  BY <1>1, UpdateBalancePass
<1> DEFINE Before(k) == {list[i] : i \in 1..k}
           Good(k) == /\ acc[k] \in Accounts
                      /\ Accounted(acc[k], Before(k))
                      /\ UnconfirmedOnly(acc[k].invalid, h)
           K == {k \in 0..n : Good(k)}
<1>4. 0 \in K
  <2>1. acc[0] = EmptyLedger /\ Before(0) = {}
    BY <1>3 DEF Pass
  <2>2. Accounted(EmptyLedger, {}) /\ UnconfirmedOnly(EmptyLedger.invalid, h)
    BY AmountOfNone DEF Accounted, UnconfirmedOnly, EmptyLedger, SpentBy
  <2>3. /\ acc[0] \in Accounts /\ Accounted(acc[0], Before(0))
        /\ UnconfirmedOnly(acc[0].invalid, h)
    <3> HIDE DEF Before
    <3> QED
      BY <2>1, <2>2, EmptyLedgerType, Zenon
  <2>4. Good(0) /\ 0 \in 0..n
    BY <2>3
  <2> HIDE DEF Good
  <2> QED
    BY <2>4
<1>5. ASSUME NEW k \in K, k < n
      PROVE  k + 1 \in K
  <2>1. k + 1 \in 1..n /\ (k + 1) - 1 = k /\ k \in 0..n /\ Good(k)
    BY <1>5
  <2> DEFINE t == list[k + 1]
             S == Before(k)
  <2>2. acc[k + 1] = Account(acc[k], t, h, tip, addrs)
    BY <1>1, <1>3, <2>1 DEF Pass
  <2>3. \A i \in 1..k : i \in 1..n /\ i < k + 1
    BY <2>1
  <2>4. S \in SUBSET Txs /\ t \in Txs
    BY <1>2, <2>1, <2>3
  <2>5. t \notin S
    BY <1>1, <2>1, <2>3 DEF Once
  <2>6. \A u \in S : h[u] <= h[t]
    BY <1>1, <2>1, <2>3 DEF HeightSorted
  <2>7. Before(k + 1) = S \cup {t}
    <3>1. \A i \in 1..(k + 1) : i \in 1..k \/ i = k + 1
      BY <2>1
    <3>2. \A i \in 1..k : i \in 1..(k + 1)
      BY <2>1
    <3> QED
      BY <2>1, <3>1, <3>2
  <2>8. acc[k] \in Accounts /\ Accounted(acc[k], S) /\ UnconfirmedOnly(acc[k].invalid, h)
    BY <2>1
  <2> HIDE DEF S, t
  <2>9. Account(acc[k], t, h, tip, addrs) \in Accounts
    BY <2>4, <2>8, AccountType
  <2>10. /\ Accounted(Account(acc[k], t, h, tip, addrs), S \cup {t})
         /\ UnconfirmedOnly(Account(acc[k], t, h, tip, addrs).invalid, h)
    BY <2>4, <2>5, <2>6, <2>8, AccountStep
  <2> HIDE DEF Before
  <2>11. Good(k + 1)
    BY <2>2, <2>7, <2>9, <2>10
  <2> QED
    BY <2>1, <2>11
<1>6. K = 0..n
  <2>1. K \in SUBSET (0..n)
    OBVIOUS
  <2> HIDE DEF K
  <2> QED
    BY <1>4, <1>5, <2>1, PrefixesReached
<1>7. Good(n)
  <2> HIDE DEF Good
  <2>1. n \in 0..n
    OBVIOUS
  <2>2. \A k \in 0..n : Good(k)
    BY <1>6
  <2> QED
    BY <2>1, <2>2
<1>8. Before(n) = Range(list)
  BY <1>2 DEF Range
<1> QED
  BY <1>3, <1>7, <1>8

-----------------------------------------------------------------------------
(* One chain *)

\* The heights once the update in flight has gone over its transactions.
UpdatedHeight ==
    [t \in Txs |-> IF call.op = "update" /\ t \in Range(call.todo)
                   THEN call.height ELSE height[t]]

ChainInv ==
    NoDangling => /\ \A t \in Txs \ allTx : height[t] = Unconfirmed
                  /\ OneChain(UpdatedHeight)

\* Transactions that lose their confirmation leave one chain.
LEMMA FewerConfirmed ==
    ASSUME NEW h, NEW g, OneChain(h), \A t \in Txs : g[t] = h[t] \/ g[t] = Unconfirmed
    PROVE  OneChain(g)
  BY DEF OneChain

\* Between calls the heights themselves are of one chain.
LEMMA SettledChain ==
    ASSUME IInv, ChainInv, NoDangling, call.op = "update" => call.todo = <<>>
    PROVE  OneChain(height)
<1>1. UpdatedHeight = height
  <2>1. call.op = "update" => Range(call.todo) = {}
    BY DEF Range
  <2> QED
    BY <2>1 DEF UpdatedHeight, IInv, Types
<1> QED
  BY <1>1 DEF ChainInv

\* The elements of what is left of a list, and of the list.
LEMMA TailRange ==
    ASSUME NEW todo \in Seq(Txs), todo # <<>>
    PROVE  Range(todo) = Range(Tail(todo)) \cup {Head(todo)}
<1>1. /\ DOMAIN todo = 1..Len(todo) /\ DOMAIN Tail(todo) = 1..(Len(todo) - 1)
      /\ Len(todo) \in Nat /\ Len(todo) >= 1
      /\ Head(todo) = todo[1]
      /\ \A i \in 1..(Len(todo) - 1) : Tail(todo)[i] = todo[i + 1]
  BY HeadTailProperties
<1>2. \A i \in 1..Len(todo) : i = 1 \/ (i - 1 \in 1..(Len(todo) - 1) /\ (i - 1) + 1 = i)
  BY <1>1
<1>3. \A i \in 1..(Len(todo) - 1) : i + 1 \in 1..Len(todo)
  BY <1>1
<1>4. 1 \in 1..Len(todo)
  BY <1>1
<1>5. Range(todo) = {todo[i] : i \in 1..Len(todo)}
  BY <1>1 DEF Range
<1>6. Range(Tail(todo)) = {Tail(todo)[i] : i \in 1..(Len(todo) - 1)}
  BY <1>1 DEF Range
<1>7. ASSUME NEW i \in 1..Len(todo)
      PROVE  todo[i] \in Range(Tail(todo)) \cup {Head(todo)}
  <2>1. CASE i = 1
    BY <1>1, <2>1
  <2>2. CASE i # 1
    <3>1. i - 1 \in 1..(Len(todo) - 1) /\ (i - 1) + 1 = i
      BY <1>2, <2>2
    <3>2. Tail(todo)[i - 1] = todo[i]
      BY <1>1, <3>1
    <3> QED
      BY <1>6, <3>1, <3>2
  <2> QED
    BY <2>1, <2>2
<1>8. \A x \in Range(Tail(todo)) \cup {Head(todo)} : x \in Range(todo)
  BY <1>1, <1>3, <1>4, <1>5, <1>6
<1> QED
  BY <1>5, <1>7, <1>8

\* The wallet starts empty.
LEMMA InitChain == Init => ChainInv
<1> SUFFICES ASSUME Init PROVE ChainInv
  OBVIOUS
<1>1. UpdatedHeight = height /\ \A t \in Txs : height[t] = Unconfirmed
  BY DEF Init, UpdatedHeight
<1> QED
  BY <1>1 DEF ChainInv, OneChain

\* What ChainInv asks of a call that is not an update.
LEMMA OtherCallChain ==
    ASSUME IInv', OneChain(height)', call'.op # "update",
           \A t \in Txs \ allTx' : height'[t] = Unconfirmed
    PROVE  ChainInv'
<1>1. UpdatedHeight' = height'
  BY DEF UpdatedHeight, IInv, Types
<1> QED
  BY <1>1 DEF ChainInv

\* BRWalletNew takes a row, which is of one chain with those before it.
LEMMA LoadTxChain ==
    ASSUME IInv, ChainInv, NEW t \in Txs, NEW h \in HeightValues, LoadTx(t, h)
    PROVE  ChainInv'
<1> USE DEF LoadTx, Calling
<1>1. IInv' /\ call'.op # "update"
  BY LoadTxInv DEF IInv, Loading
<1>2. OneChain(height)'
  BY DEF OneChain
<1>3. \A u \in Txs \ allTx' : u # t /\ height'[u] = height[u]
  BY DEF IInv, Types
<1>4. \A u \in Txs \ allTx' : height'[u] = Unconfirmed
  BY <1>3 DEF ChainInv
<1> QED
  BY <1>1, <1>2, <1>4, OtherCallChain

\* BRWalletRegisterTransaction changes no height.
LEMMA RegisterChain ==
    ASSUME IInv, ChainInv, NEW t \in Txs, RegisterWalletTx(t)
    PROVE  ChainInv'
<1> USE DEF RegisterWalletTx, Calling
<1>1. IInv'
  BY RegisterInv
<1>2. OneChain(height)
  BY SettledChain
<1>3. height' = height /\ call'.op = "added"
  OBVIOUS
<1>4. OneChain(height)' /\ \A u \in Txs \ allTx' : height'[u] = Unconfirmed
  BY <1>2, <1>3 DEF ChainInv, OneChain
<1> QED
  BY <1>1, <1>3, <1>4, OtherCallChain

\* BRWalletRemoveTransaction takes a transaction away.
LEMMA RemoveChain ==
    ASSUME IInv, ChainInv, RemoveAndFree
    PROVE  ChainInv'
<1> DEFINE t == Head(call.work)
<1> USE DEF RemoveAndFree, Calling
<1>1. IInv' /\ t \in Txs
  BY RemoveInv DEF IInv, Types
<1>2. OneChain(height)
  BY SettledChain
<1>3. /\ height' = [height EXCEPT ![t] = Unconfirmed] /\ height \in [Txs -> HeightValues]
      /\ allTx' = allTx \ {t} /\ call'.op # "update"
  BY DEF NewObject, IInv, Types, Return, Idle
<1> HIDE DEF t
<1>4. \A u \in Txs : height'[u] = IF u = t THEN Unconfirmed ELSE height[u]
  BY <1>1, <1>3
<1>5. OneChain(height)'
  BY <1>2, <1>4, FewerConfirmed
<1>6. \A u \in Txs \ allTx' : height'[u] = Unconfirmed
  BY <1>3, <1>4 DEF ChainInv
<1> QED
  BY <1>1, <1>3, <1>5, <1>6, OtherCallChain

\* BRWalletUpdateTransactions begins with transactions that go on one chain
\* with the others.
LEMMA UpdateBeginChain ==
    ASSUME IInv, ChainInv, BlockConfirms \/ PeersVerify
    PROVE  ChainInv'
<1> USE DEF UpdateTransactions, Calling
<1>1. PICK s \in Seq(Txs), h \in HeightValues :
        /\ UpdateTransactions(s, h)
        /\ OneChain([t \in Txs |-> IF t \in Range(s) THEN h ELSE height[t]])
  <2>1. CASE BlockConfirms
    <3>1. PICK s \in Batches, h \in Heights :
            /\ UpdateTransactions(s, h)
            /\ OneChain([t \in Txs |-> IF t \in Range(s) THEN h ELSE height[t]])
      BY <2>1 DEF BlockConfirms
    <3>2. s \in Seq(Txs)
      BY <3>1, HeightAssumption DEF Batches
    <3> QED
      BY <3>1, <3>2 DEF HeightValues
  <2>2. CASE PeersVerify
    <3>1. PICK t \in Txs : height[t] = Unconfirmed /\ UpdateTransactions(<<t>>, Unconfirmed)
      BY <2>2 DEF PeersVerify, IInv, Types
    <3>2. <<t>> \in Seq(Txs) /\ Range(<<t>>) = {t}
      BY DEF Range
    <3>3. Unconfirmed \in HeightValues
      BY DEF HeightValues
    <3>4. OneChain(height)
      BY <3>1, SettledChain
    <3>5. OneChain([u \in Txs |-> IF u \in Range(<<t>>) THEN Unconfirmed ELSE height[u]])
      BY <3>1, <3>2, <3>4, FewerConfirmed
    <3> QED
      BY <3>1, <3>2, <3>3, <3>5
  <2> QED
    BY <2>1, <2>2
<1>2. /\ call'.op = "update" /\ call'.height = h /\ call'.todo = s
      /\ UNCHANGED <<allTx, transactions, height>>
      /\ NoDangling /\ call.op = "idle"
  BY <1>1
<1>3. UpdatedHeight' = [t \in Txs |-> IF t \in Range(s) THEN h ELSE height[t]]
  BY <1>2 DEF UpdatedHeight
<1> QED
  BY <1>1, <1>2, <1>3 DEF ChainInv

\* What an update takes the next hash from.
LEMMA UpdateShape ==
    ASSUME IInv, Calling("update"), call.todo # <<>>
    PROVE  /\ call \in [op : {"update"}, todo : Seq(Txs), height : HeightValues, stale : BOOLEAN]
           /\ NextHash \in Txs
           /\ Range(call.todo) = Range(Tail(call.todo)) \cup {NextHash}
           /\ call.height = Unconfirmed => height[NextHash] = Unconfirmed
<1>1. call \in [op : {"update"}, todo : Seq(Txs), height : HeightValues, stale : BOOLEAN]
  BY DEF IInv, Updating, Calling
<1>2. NextHash = call.todo[1] /\ 1 \in 1..Len(call.todo) /\ NextHash \in Txs
  BY <1>1 DEF NextHash
<1>3. Range(call.todo) = Range(Tail(call.todo)) \cup {NextHash}
  BY <1>1, TailRange DEF NextHash
<1>4. call.height = Unconfirmed => height[NextHash] = Unconfirmed
  BY <1>2 DEF IInv, Updating, Calling
<1> QED
  BY <1>1, <1>2, <1>3, <1>4

\* The next hash is skipped.
LEMMA UpdateSkipChain ==
    ASSUME IInv, ChainInv, UpdateSkip
    PROVE  ChainInv'
<1>1. Calling("update") /\ call.todo # <<>> /\ NoDangling
  BY DEF UpdateSkip, Calling
<1>2. /\ call \in [op : {"update"}, todo : Seq(Txs), height : HeightValues, stale : BOOLEAN]
      /\ NextHash \in Txs
      /\ Range(call.todo) = Range(Tail(call.todo)) \cup {NextHash}
  BY <1>1, UpdateShape
<1>3. /\ call'.op = "update" /\ call'.height = call.height
      /\ call'.todo = Tail(call.todo)
      /\ UNCHANGED <<allTx, transactions, height>>
  BY <1>2 DEF UpdateSkip
<1>4. height[NextHash] = Unconfirmed \/ height[NextHash] = call.height
  BY <1>1, <1>2 DEF UpdateSkip, ChainInv
<1>5. \A t \in Txs : UpdatedHeight'[t] = UpdatedHeight[t] \/ UpdatedHeight'[t] = Unconfirmed
  BY <1>2, <1>3, <1>4 DEF UpdatedHeight
<1>6. OneChain(UpdatedHeight)'
  BY <1>1, <1>5, FewerConfirmed DEF ChainInv
<1> QED
  BY <1>1, <1>3, <1>6 DEF ChainInv

\* A wallet transaction gets the height of the update.
LEMMA UpdateWalletChain ==
    ASSUME IInv, ChainInv, UpdateWalletTx
    PROVE  ChainInv'
<1>1. Calling("update") /\ call.todo # <<>> /\ NoDangling /\ call.op = "update"
  BY DEF UpdateWalletTx, Calling
<1> DEFINE t == NextHash
<1>2. /\ call \in [op : {"update"}, todo : Seq(Txs), height : HeightValues, stale : BOOLEAN]
      /\ t \in Txs /\ t \in allTx
      /\ Range(call.todo) = Range(Tail(call.todo)) \cup {t}
  BY <1>1, UpdateShape DEF UpdateWalletTx
<1>3. /\ call'.op = "update" /\ call'.height = call.height
      /\ call'.todo = Tail(call.todo) /\ allTx' = allTx
      /\ height' = [height EXCEPT ![t] = call.height]
  BY <1>2 DEF UpdateWalletTx
<1> HIDE DEF t
<1>5. \A u \in Txs : height'[u] = IF u = t THEN call.height ELSE height[u]
  BY <1>2, <1>3 DEF IInv, Types
<1>6. \A u \in Txs : UpdatedHeight'[u] = UpdatedHeight[u]
  BY <1>1, <1>2, <1>3, <1>5 DEF UpdatedHeight
<1>7. OneChain(UpdatedHeight)'
  BY <1>1, <1>6, FewerConfirmed DEF ChainInv
<1>8. \A u \in Txs \ allTx' : height'[u] = Unconfirmed
  BY <1>1, <1>2, <1>3, <1>5 DEF ChainInv
<1> QED
  BY <1>3, <1>7, <1>8 DEF ChainInv

\* A transaction that is not the wallet's is freed or stays unconfirmed.
LEMMA UpdateOtherChain ==
    ASSUME IInv, ChainInv, UpdateOtherTx
    PROVE  ChainInv'
<1>1. Calling("update") /\ call.todo # <<>> /\ NoDangling /\ call.op = "update"
  BY DEF UpdateOtherTx, Calling
<1> DEFINE t == NextHash
<1>2. /\ call \in [op : {"update"}, todo : Seq(Txs), height : HeightValues, stale : BOOLEAN]
      /\ t \in Txs
      /\ Range(call.todo) = Range(Tail(call.todo)) \cup {t}
      /\ call.height = Unconfirmed => height[t] = Unconfirmed
  BY <1>1, UpdateShape
<1>3. /\ call'.op = "update" /\ call'.height = call.height
      /\ call'.todo = Tail(call.todo) /\ transactions' = transactions
      /\ height' = [height EXCEPT ![t] = Unconfirmed]
      /\ allTx' = IF call.height # Unconfirmed THEN allTx \ {t} ELSE allTx
  BY <1>2 DEF UpdateOtherTx, NewObject
<1> HIDE DEF t
<1>4. \A u \in Txs : height'[u] = IF u = t THEN Unconfirmed ELSE height[u]
  BY <1>2, <1>3 DEF IInv, Types
<1>5. \A u \in Txs : UpdatedHeight'[u] = UpdatedHeight[u] \/ UpdatedHeight'[u] = Unconfirmed
  BY <1>1, <1>2, <1>3, <1>4 DEF UpdatedHeight
<1>6. OneChain(UpdatedHeight)'
  BY <1>1, <1>5, FewerConfirmed DEF ChainInv
<1>7. \A u \in Txs \ allTx' : height'[u] = Unconfirmed
  BY <1>1, <1>2, <1>3, <1>4 DEF ChainInv
<1> QED
  BY <1>3, <1>6, <1>7 DEF ChainInv

\* A reorganisation takes confirmations away.
LEMMA ReorgChain ==
    ASSUME IInv, ChainInv, NEW h \in 0..MaxHeight, SetTxUnconfirmedAfter(h)
    PROVE  ChainInv' /\ OneChain(height)'
<1>1. /\ NoDangling /\ call' = call /\ call.op = "idle" /\ allTx' = allTx
      /\ height' = [t \in Txs |-> IF t \in RegisteredAfter(h) THEN Unconfirmed ELSE height[t]]
  BY DEF SetTxUnconfirmedAfter, Calling
<1>2. IInv'
  BY ReorgInv
<1>3. OneChain(height)
  BY <1>1, SettledChain
<1>4. \A t \in Txs : height'[t] = height[t] \/ height'[t] = Unconfirmed
  BY <1>1
<1>5. OneChain(height)'
  BY <1>3, <1>4, FewerConfirmed
<1>6. \A t \in Txs \ allTx' : height'[t] = Unconfirmed
  BY <1>1, <1>4 DEF ChainInv
<1> QED
  BY <1>1, <1>2, <1>5, <1>6, OtherCallChain

\* The steps that leave the list and the heights as they are.
LEMMA QuietChain ==
    ASSUME IInv, ChainInv, QuietStep
    PROVE  ChainInv'
<1>1. height' = height /\ NoDangling /\ allTx \subseteq allTx'
  BY DEF QuietStep, FinishLoad, ReplaceUsedAddrs, RemoveGone, RemoveDependents, UpdateDone,
         RegisterOtherTx, RemoveTransaction, ReceiveAddress, FilterAddrs, Calling
<1>2. call.op = "update" => call.todo = <<>>
  BY DEF QuietStep, FinishLoad, ReplaceUsedAddrs, RemoveGone, RemoveDependents, UpdateDone,
         RegisterOtherTx, RemoveTransaction, ReceiveAddress, FilterAddrs, Calling
<1>3. call'.op # "update"
  <2>1. CASE FinishLoad \/ ReplaceUsedAddrs \/ UpdateDone
    BY <2>1 DEF FinishLoad, ReplaceUsedAddrs, UpdateDone, Idle
  <2>2. CASE RemoveGone
    <3>1. \E work : call' = Return(work)
      BY <2>2 DEF RemoveGone
    <3> QED
      BY <3>1 DEF Return, Idle
  <2>3. CASE RemoveDependents \/ \E t \in Txs : RemoveTransaction(t)
    <3>1. \E work : call' = [op |-> "remove", work |-> work]
      BY <2>3 DEF RemoveDependents, RemoveTransaction
    <3> QED
      BY <3>1
  <2>4. CASE (\E t \in Txs : RegisterOtherTx(t)) \/ ReceiveAddress \/ FilterAddrs
    BY <2>4 DEF RegisterOtherTx, ReceiveAddress, FilterAddrs, Calling
  <2> QED
    BY <2>1, <2>2, <2>3, <2>4 DEF QuietStep
<1>4. OneChain(height)' /\ \A t \in Txs \ allTx' : height'[t] = Unconfirmed
  BY <1>1, <1>2, SettledChain, FewerConfirmed DEF ChainInv
<1> QED
  BY <1>3, <1>4, QuietInv, OtherCallChain

\* A restart forgets all heights.
LEMMA RestartChain ==
    ASSUME IInv, Restart
    PROVE  ChainInv'
<1>1. UpdatedHeight' = height' /\ \A t \in Txs : height'[t] = Unconfirmed
  BY DEF Restart, UpdatedHeight
<1> QED
  BY <1>1 DEF ChainInv, OneChain

-----------------------------------------------------------------------------
(* Removal works on unconfirmed transactions only *)

UnconfirmedList(work) == \A i \in 1..Len(work) : height[work[i]] = Unconfirmed

WorkInv ==
    /\ call.op \in {"idle", "failed", "load", "added", "remove", "update"}
    /\ call.op \in {"idle", "failed", "added"} => call \in [op : {"idle", "failed", "added"}]
    /\ call.op = "remove" => /\ call \in [op : {"remove"}, work : Seq(Txs)]
                             /\ call.work # <<>>
                             /\ NoDangling => UnconfirmedList(call.work)

\* u is another transaction that spends an output of t.
Spends(u, t) == u # t /\ t \in Parents(u)

\* One step of the scan for dependents, and the whole scan.
FoundStep(found, t, u) == IF u # t /\ t \in Parents(u) THEN Append(found, u) ELSE found
Scan(late, t) ==
    FoldLeft(LAMBDA found, u : IF u # t /\ t \in Parents(u) THEN Append(found, u) ELSE found,
             <<>>, late)
ScanEquation(f, late, t) ==
    f = [s \in SUBSET DOMAIN late |->
           IF s = {} THEN <<>> ELSE FoundStep(f[s \ {Max(s)}], t, late[Max(s)])]

\* A scan of unconfirmed transactions finds unconfirmed ones, and finds one if
\* there is one to be found.
LEMMA ScanUnconfirmed ==
    ASSUME NEW late \in Seq(Txs), NEW t, UnconfirmedList(late)
    PROVE  /\ Scan(late, t) \in Seq(Txs) /\ UnconfirmedList(Scan(late, t))
           /\ \A i \in 1..Len(late) : Spends(late[i], t) => Scan(late, t) # <<>>
<1> DEFINE n == Len(late)
           D == 1..n
           U == {u \in Txs : height[u] = Unconfirmed}
           A == Seq(U)
           C == [s \in SUBSET D |-> Max(s)]
           F == [i \in D |-> [a \in A |-> FoundStep(a, t, late[i])]]
           found == Scan(late, t)
<1>1. n \in Nat /\ DOMAIN late = D /\ \A i \in D : late[i] \in U
  BY ElementOfSeq DEF UnconfirmedList
<1>2. IsFiniteSet(D) /\ <<>> \in A
  BY <1>1, FS_Interval
<1>3. \A s \in SUBSET D : s # {} => Max(s) \in s
  BY <1>1, MaxIndex
<1>4. Chooses(C, D)
  BY <1>3 DEF Chooses
<1>5. \A a \in A, i \in D : FoundStep(a, t, late[i]) \in A
  <2> TAKE a \in A, i \in D
  <2>1. late[i] \in U
    BY <1>1
  <2> HIDE DEF U
  <2>2. Append(a, late[i]) \in A
    BY <2>1
  <2> QED
    BY <2>2 DEF FoundStep
<1>6. F \in [D -> [A -> A]]
  <2> HIDE DEF A, D
  <2> QED
    BY <1>5
<1>7. PICK g \in [SUBSET D -> A] : Folds(g, <<>>, F, C, D)
  <2> HIDE DEF D, C, F, A
  <2> QED
    BY <1>2, <1>4, <1>6, SubsetRecursion
<1>8. ASSUME NEW s \in SUBSET D
      PROVE  g[s] = IF s = {} THEN <<>> ELSE FoundStep(g[s \ {Max(s)}], t, late[Max(s)])
  <2>1. g[s] = IF s = {} THEN <<>> ELSE F[C[s]][g[s \ {C[s]}]]
    BY <1>7 DEF Folds
  <2>2. s # {} => C[s] = Max(s) /\ Max(s) \in D /\ g[s \ {Max(s)}] \in A
    BY <1>3, <1>7
  <2> HIDE DEF A
  <2> QED
    BY <2>1, <2>2
<1>9. ScanEquation(g, late, t)
  BY <1>1, <1>7, <1>8 DEF ScanEquation
<1>10. PICK f : found = f[DOMAIN late] /\ f = CHOOSE e : ScanEquation(e, late, t)
  BY DEF Scan, FoldLeft, MapThenFoldSet, ScanEquation, FoundStep
<1>11. ScanEquation(f, late, t)
  BY <1>9, <1>10
<1> DEFINE K == {k \in 0..n : f[1..k] \in A}
<1>12. 0 \in K
  <2>1. f[{}] = <<>> /\ 1..0 = {} /\ 0 \in 0..n
    BY <1>1, <1>11 DEF ScanEquation
  <2> HIDE DEF A
  <2> QED
    BY <1>2, <2>1
<1>13. ASSUME NEW k \in K, k < n
       PROVE  k + 1 \in K
  <2>1. /\ k \in Nat /\ k + 1 \in Nat /\ k + 1 # 0 /\ (k + 1) - 1 = k
        /\ k + 1 \in D /\ k + 1 \in 0..n /\ 1..(k + 1) \in SUBSET D /\ 1..(k + 1) # {}
    <3>1. k \in 0..n
      OBVIOUS
    <3> HIDE DEF K
    <3>2. k \in Nat /\ k + 1 \in 1..n
      BY <1>1, <1>13, <3>1
    <3>3. 1 \in 1..(k + 1)
      BY <3>2
    <3>4. \A i \in 1..(k + 1) : i \in 1..n
      BY <1>1, <3>2
    <3> QED
      BY <3>2, <3>3, <3>4
  <2>2. Max(1..(k + 1)) = k + 1 /\ (1..(k + 1)) \ {k + 1} = 1..k
    BY <2>1, LastPosition
  <2>3. f[1..(k + 1)] = FoundStep(f[1..k], t, late[k + 1])
    BY <1>1, <1>11, <2>1, <2>2 DEF ScanEquation
  <2>4. f[1..k] \in A
    BY <1>13
  <2> HIDE DEF A, D
  <2> QED
    BY <1>5, <2>1, <2>3, <2>4
<1>14. K = 0..n
  <2>1. K \in SUBSET (0..n)
    OBVIOUS
  <2> HIDE DEF K
  <2> QED
    BY <1>1, <1>12, <1>13, <2>1, PrefixesReached
<1>15. found \in A
  <2> HIDE DEF A
  <2>1. n \in 0..n
    BY <1>1
  <2>2. \A k \in 0..n : f[1..k] \in A
    BY <1>14
  <2> QED
    BY <1>1, <1>10, <2>1, <2>2
<1>16. \A i \in 1..Len(found) : found[i] \in U
  <2> HIDE DEF found, U
  <2> QED
    BY <1>15, ElementOfSeq
<1> HIDE DEF found
<1>17. found \in Seq(Txs)
  <2>1. U \subseteq Txs
    OBVIOUS
  <2> HIDE DEF U
  <2> QED
    BY <1>15, <2>1
<1>18. UnconfirmedList(found)
  BY <1>16 DEF UnconfirmedList
<1> DEFINE M == {k \in 0..n : \A i \in 1..k : Spends(late[i], t) => f[1..k] # <<>>}
<1>19. 0 \in M
  BY <1>1
<1>20. ASSUME NEW k \in M, k < n
       PROVE  k + 1 \in M
  <2>1. k \in 0..n /\ \A i \in 1..k : Spends(late[i], t) => f[1..k] # <<>>
    OBVIOUS
  <2> HIDE DEF M
  <2>2. /\ k \in Nat /\ k + 1 \in Nat /\ k + 1 # 0 /\ (k + 1) - 1 = k
        /\ k + 1 \in D /\ k + 1 \in 0..n /\ 1..(k + 1) \in SUBSET D /\ 1..(k + 1) # {}
        /\ \A i \in 1..(k + 1) : i \in 1..k \/ i = k + 1
    <3>1. k \in Nat /\ k + 1 \in 1..n
      BY <1>1, <1>20, <2>1
    <3>2. 1 \in 1..(k + 1)
      BY <3>1
    <3>3. \A i \in 1..(k + 1) : i \in 1..n
      BY <1>1, <3>1
    <3> QED
      BY <3>1, <3>2, <3>3
  <2>3. Max(1..(k + 1)) = k + 1 /\ (1..(k + 1)) \ {k + 1} = 1..k
    BY <2>2, LastPosition
  <2>4. f[1..(k + 1)] = FoundStep(f[1..k], t, late[k + 1])
    BY <1>1, <1>11, <2>2, <2>3 DEF ScanEquation
  <2>5. f[1..k] \in Seq(Txs)
    <3>1. k \in K
      BY <1>14, <2>1
    <3>2. f[1..k] \in Seq(U) /\ U \subseteq Txs
      BY <3>1
    <3> HIDE DEF K, U
    <3> QED
      BY <3>2
  <2>6. CASE Spends(late[k + 1], t)
    <3>1. f[1..(k + 1)] = Append(f[1..k], late[k + 1])
      BY <2>4, <2>6 DEF FoundStep, Spends
    <3>2. late[k + 1] \in Txs
      BY <1>1, <2>2
    <3>3. \A a \in Seq(Txs), x \in Txs : Append(a, x) # <<>>
      OBVIOUS
    <3>4. f[1..(k + 1)] # <<>>
      BY <2>5, <3>1, <3>2, <3>3
    <3> QED
      BY <2>2, <3>4 DEF M
  <2>7. CASE ~Spends(late[k + 1], t)
    <3>1. f[1..(k + 1)] = f[1..k]
      BY <2>4, <2>7 DEF FoundStep, Spends
    <3> QED
      BY <2>1, <2>2, <2>7, <3>1 DEF M
  <2> QED
    BY <2>6, <2>7
<1>21. M = 0..n
  <2>1. M \in SUBSET (0..n)
    OBVIOUS
  <2> HIDE DEF M
  <2> QED
    BY <1>1, <1>19, <1>20, <2>1, PrefixesReached
<1>22. \A i \in 1..n : Spends(late[i], t) => found # <<>>
  <2>1. n \in M
    BY <1>1, <1>21
  <2>2. \A i \in 1..n : Spends(late[i], t) => f[1..n] # <<>>
    BY <2>1
  <2> QED
    BY <1>1, <1>10, <2>2
<1> QED
  BY <1>17, <1>18, <1>22 DEF found

\* BRWalletRemoveTransaction only goes on to transactions that are not lower, and
\* as the list is sorted it goes on if an unconfirmed one depends on t.
LEMMA DependentsUnconfirmed ==
    ASSUME IInv, NEW t \in Txs, height[t] = Unconfirmed
    PROVE  /\ Dependents(t) \in Seq(Txs) /\ UnconfirmedList(Dependents(t))
           /\ NoDangling /\ Dependents(t) = <<>> =>
                 \A u \in Registered : height[u] = Unconfirmed => ~Spends(u, t)
<1> DEFINE I == {i \in 1..Len(transactions) : height[transactions[i]] < height[t]}
           lower == IF I # {} THEN Max(I) ELSE 0
           late == SubSeq(transactions, lower + 1, Len(transactions))
<1>1. PICK n \in Nat : n = Len(transactions)
  BY DEF IInv, Types
<1>2. \A i \in 1..n : transactions[i] \in Txs /\ height[transactions[i]] \in HeightValues
  BY <1>1, ElementOfSeq DEF IInv, Types
<1>3. lower = SelectLastInSeq(transactions, LAMBDA u : height[u] < height[t])
  BY DEF SelectLastInSeq
<1>4. Dependents(t) = Scan(late, t)
  BY <1>3 DEF Dependents, Scan
<1>5. lower \in 0..n /\ \A i \in (lower + 1)..n : ~(height[transactions[i]] < height[t])
  <2>1. CASE I = {}
    <3>1. lower = 0
      BY <2>1
    <3>2. \A i \in 1..n : ~(height[transactions[i]] < height[t])
      BY <1>1, <2>1
    <3> HIDE DEF lower
    <3> QED
      BY <3>1, <3>2
  <2>2. CASE I # {}
    <3>1. lower \in I /\ \A j \in I : j <= lower
      BY <1>1, <2>2, MaxIndex
    <3>2. lower \in 1..n
      BY <1>1, <3>1
    <3> HIDE DEF lower
    <3>3. ASSUME NEW i \in (lower + 1)..n PROVE i \notin I /\ i \in 1..n
      BY <3>1, <3>2
    <3> QED
      BY <1>1, <3>2, <3>3
  <2> QED
    BY <2>1, <2>2
<1>11. lower # 0 => lower \in I
  <2>1. CASE I = {}
    BY <2>1
  <2>2. CASE I # {}
    BY <1>1, <2>2, MaxIndex
  <2> QED
    BY <2>1, <2>2
<1> HIDE DEF lower
<1>6. /\ late \in Seq(Txs) /\ Len(late) = n - lower
      /\ \A i \in 1..(n - lower) : late[i] = transactions[lower + i]
  BY <1>1, <1>2, <1>5, SubSeqProperties DEF IInv, Types
<1>7. ASSUME NEW i \in 1..(n - lower)
      PROVE  height[late[i]] = Unconfirmed
  <2>1. lower + i \in (lower + 1)..n /\ lower + i \in 1..n
    BY <1>5
  <2>2. ~(height[transactions[lower + i]] < Unconfirmed)
        /\ height[transactions[lower + i]] \in HeightValues
    BY <1>2, <1>5, <2>1
  <2>3. height[transactions[lower + i]] = Unconfirmed
    BY <2>2, HeightAssumption DEF HeightValues, Heights
  <2> QED
    BY <1>6, <2>3
<1> HIDE DEF late
<1>8. UnconfirmedList(late)
  BY <1>6, <1>7 DEF UnconfirmedList
<1>9. /\ Scan(late, t) \in Seq(Txs) /\ UnconfirmedList(Scan(late, t))
      /\ \A i \in 1..Len(late) : Spends(late[i], t) => Scan(late, t) # <<>>
  BY <1>6, <1>8, ScanUnconfirmed
<1>10. ASSUME NoDangling, Dependents(t) = <<>>, NEW u \in Registered, height[u] = Unconfirmed
       PROVE  ~Spends(u, t)
  <2>1. PICK i \in 1..n : u = transactions[i]
    BY <1>1, <1>10 DEF Registered, Range, IInv, Types
  <2>2. i > lower
    <3>1. CASE lower = 0
      BY <3>1
    <3>2. CASE lower # 0
      <4>1. lower \in 1..n /\ height[transactions[lower]] < height[t]
        BY <1>1, <1>5, <1>11, <3>2
      <4>2. i \in Nat /\ lower \in Nat /\ i # lower
        BY <1>1, <1>10, <2>1, <4>1, HeightAssumption
      <4>3. i < lower => height[transactions[i]] <= height[transactions[lower]]
        BY <1>1, <1>10, <4>1 DEF IInv, ListOrdered, HeightSorted
      <4>4. height[transactions[lower]] \in Nat /\ Unconfirmed \in Nat
        BY <1>2, <4>1, HeightAssumption DEF HeightValues, Heights
      <4>5. ~(i < lower)
        BY <1>10, <2>1, <4>1, <4>3, <4>4
      <4> QED
        BY <4>2, <4>5
    <3> QED
      BY <3>1, <3>2
  <2>3. i - lower \in 1..(n - lower) /\ late[i - lower] = u
    BY <1>5, <1>6, <2>1, <2>2
  <2> QED
    BY <1>4, <1>6, <1>9, <1>10, <2>3
<1> QED
  BY <1>4, <1>9, <1>10

\* A removal continues with what is left of its work.
LEMMA ReturnWork ==
    ASSUME NEW work \in Seq(Txs), call' = Return(work),
           \A i \in 1..Len(work) : height'[work[i]] = Unconfirmed
    PROVE  WorkInv'
<1>1. CASE work = <<>>
  <2>1. call' = [op |-> "idle"]
    BY <1>1 DEF Return, Idle
  <2> QED
    BY <2>1 DEF WorkInv
<1>2. CASE work # <<>>
  <2>1. call' = [op |-> "remove", work |-> work]
    BY <1>2 DEF Return
  <2>2. call'.op = "remove" /\ call'.work = work /\ UnconfirmedList(call.work)'
    BY <2>1 DEF UnconfirmedList
  <2> QED
    BY <1>2, <2>1, <2>2 DEF WorkInv
<1> QED
  BY <1>1, <1>2

\* The head and the tail of unconfirmed work are unconfirmed.
LEMMA WorkShape ==
    ASSUME IInv, WorkInv, Calling("remove")
    PROVE  /\ call.work \in Seq(Txs) /\ Tail(call.work) \in Seq(Txs)
           /\ Head(call.work) \in Txs /\ height[Head(call.work)] = Unconfirmed
           /\ UnconfirmedList(call.work) /\ UnconfirmedList(Tail(call.work))
<1>1. call.work \in Seq(Txs) /\ call.work # <<>> /\ UnconfirmedList(call.work)
  BY DEF WorkInv, Calling
<1> DEFINE work == call.work
<1> HIDE DEF work
<1>2. /\ Len(work) \in Nat /\ 1 \in 1..Len(work) /\ Head(work) = work[1] /\ Head(work) \in Txs
      /\ Tail(work) \in Seq(Txs) /\ Len(Tail(work)) = Len(work) - 1
      /\ \A i \in 1..Len(Tail(work)) : Tail(work)[i] = work[i + 1] /\ i + 1 \in 1..Len(work)
  BY <1>1, HeadTailProperties DEF work
<1>3. UnconfirmedList(Tail(work)) /\ height[Head(work)] = Unconfirmed
  BY <1>1, <1>2 DEF UnconfirmedList, work
<1> QED
  BY <1>1, <1>2, <1>3 DEF work

\* The recursion of BRWalletRemoveTransaction.
LEMMA RemovalWork ==
    ASSUME IInv, WorkInv,
           \/ \E t \in Txs : RemoveTransaction(t)
           \/ RemoveGone \/ RemoveDependents \/ RemoveAndFree
    PROVE  WorkInv'
<1>1. ASSUME NEW t \in Txs, RemoveTransaction(t)
      PROVE  WorkInv'
  <2>1. /\ call' = [op |-> "remove", work |-> <<t>>] /\ height' = height
        /\ height[t] = Unconfirmed
    BY <1>1 DEF RemoveTransaction
  <2>2. <<t>> \in Seq(Txs) /\ <<t>> # <<>> /\ \A i \in 1..Len(<<t>>) : <<t>>[i] = t
    OBVIOUS
  <2>3. UnconfirmedList(<<t>>)'
    BY <2>1, <2>2 DEF UnconfirmedList
  <2>4. call'.op = "remove" /\ call'.work = <<t>>
    BY <2>1
  <2>5. UnconfirmedList(call.work)'
    BY <2>3, <2>4 DEF UnconfirmedList
  <2>6. call' \in [op : {"remove"}, work : Seq(Txs)]
    BY <2>1, <2>2
  <2> QED
    BY <2>2, <2>4, <2>5, <2>6 DEF WorkInv
<1>2. CASE RemoveGone
  <2>1. /\ Tail(call.work) \in Seq(Txs) /\ UnconfirmedList(Tail(call.work))
        /\ call' = Return(Tail(call.work)) /\ height' = height
    BY <1>2, WorkShape DEF RemoveGone
  <2> QED
    BY <2>1, ReturnWork DEF UnconfirmedList
<1>3. CASE RemoveDependents
  <2> DEFINE t == Head(call.work)
             found == Dependents(t)
             work == found \o call.work
  <2>1. /\ call.work \in Seq(Txs) /\ UnconfirmedList(call.work)
        /\ t \in Txs /\ height[t] = Unconfirmed
    BY <1>3, WorkShape DEF RemoveDependents
  <2>2. found \in Seq(Txs) /\ UnconfirmedList(found) /\ found # <<>>
    BY <1>3, <2>1, DependentsUnconfirmed DEF RemoveDependents
  <2>3. call' = [op |-> "remove", work |-> work] /\ height' = height
    BY <1>3 DEF RemoveDependents
  <2> HIDE DEF found, t
  <2>4. /\ work \in Seq(Txs) /\ Len(work) = Len(found) + Len(call.work)
        /\ \A i \in 1..Len(work) :
              work[i] = IF i <= Len(found) THEN found[i] ELSE call.work[i - Len(found)]
    BY <2>1, <2>2, ConcatProperties
  <2>5. Len(found) \in Nat /\ Len(found) # 0 /\ Len(call.work) \in Nat
    BY <2>1, <2>2
  <2>6. UnconfirmedList(work)
    <3> SUFFICES ASSUME NEW i \in 1..Len(work)
                 PROVE  height[work[i]] = Unconfirmed
      BY DEF UnconfirmedList
    <3>1. CASE i <= Len(found)
      BY <2>2, <2>4, <2>5, <3>1 DEF UnconfirmedList
    <3>2. CASE ~(i <= Len(found))
      <4>1. i - Len(found) \in 1..Len(call.work)
        BY <2>4, <2>5, <3>2
      <4> QED
        BY <2>1, <2>4, <3>2, <4>1 DEF UnconfirmedList
    <3> QED
      BY <3>1, <3>2
  <2>7. work # <<>>
    BY <2>4, <2>5
  <2> HIDE DEF work
  <2>8. UnconfirmedList(call.work)'
    BY <2>3, <2>6 DEF UnconfirmedList
  <2> QED
    BY <2>3, <2>4, <2>7, <2>8 DEF WorkInv
<1>4. CASE RemoveAndFree
  <2> DEFINE t == Head(call.work)
  <2>1. /\ Tail(call.work) \in Seq(Txs) /\ UnconfirmedList(Tail(call.work)) /\ t \in Txs
    BY <1>4, WorkShape DEF RemoveAndFree
  <2>2. /\ call' = Return(Tail(call.work))
        /\ height' = [height EXCEPT ![t] = Unconfirmed]
    BY <1>4 DEF RemoveAndFree, NewObject
  <2> DEFINE work == Tail(call.work)
  <2> HIDE DEF work, t
  <2>3. work \in Seq(Txs) /\ UnconfirmedList(work) /\ \A i \in 1..Len(work) : work[i] \in Txs
    BY <2>1, ElementOfSeq DEF work
  <2>4. \A i \in 1..Len(work) : height'[work[i]] = Unconfirmed
    BY <2>2, <2>3 DEF UnconfirmedList, IInv, Types
  <2>5. call' = Return(work)
    BY <2>2 DEF work
  <2> QED
    BY <2>3, <2>4, <2>5, ReturnWork
<1> QED
  BY <1>1, <1>2, <1>3, <1>4

\* Every other step leaves removals alone.
LEMMA StepWork ==
    ASSUME IInv, WorkInv, [Next]_vars
    PROVE  WorkInv'
<1>1. CASE \/ \E t \in Txs : RemoveTransaction(t)
           \/ RemoveGone \/ RemoveDependents \/ RemoveAndFree
  BY <1>1, RemovalWork
<1>2. ASSUME NEW t \in Txs, NEW h \in HeightValues, LoadTx(t, h) PROVE WorkInv'
  <2>1. call'.op = "load"
    BY <1>2 DEF LoadTx, Calling, IInv, Loading
  <2> QED
    BY <2>1 DEF WorkInv
<1>3. CASE FinishLoad
  <2>1. call' = [op |-> "idle"] \/ call' = [op |-> "failed"]
    BY <1>3 DEF FinishLoad, Idle
  <2> QED
    BY <2>1 DEF WorkInv
<1>4. CASE ReplaceUsedAddrs
  <2>1. call' = [op |-> "idle"]
    BY <1>4 DEF ReplaceUsedAddrs, Idle
  <2> QED
    BY <2>1 DEF WorkInv
<1>5. CASE UpdateSkip \/ UpdateWalletTx \/ UpdateOtherTx
  <2>1. call'.op = "update"
    BY <1>5 DEF UpdateSkip, UpdateWalletTx, UpdateOtherTx, Calling, IInv, Updating
  <2> QED
    BY <2>1 DEF WorkInv
<1>6. CASE UpdateDone
  <2>1. call' = [op |-> "idle"]
    BY <1>6 DEF UpdateDone, Idle
  <2> QED
    BY <2>1 DEF WorkInv
<1>7. ASSUME NEW t \in Txs, RegisterWalletTx(t) PROVE WorkInv'
  BY <1>7 DEF RegisterWalletTx, WorkInv
<1>8. CASE BlockConfirms \/ PeersVerify
  <2>1. \E s, h : UpdateTransactions(s, h)
    BY <1>8 DEF BlockConfirms, PeersVerify
  <2>2. call'.op = "update"
    BY <2>1 DEF UpdateTransactions
  <2> QED
    BY <2>2 DEF WorkInv
<1>9. ASSUME NEW h \in 0..MaxHeight, SetTxUnconfirmedAfter(h) PROVE WorkInv'
  <2>1. call' = call /\ call.op = "idle"
    BY <1>9 DEF SetTxUnconfirmedAfter, Calling
  <2> QED
    BY <2>1 DEF WorkInv
<1>10. CASE Restart
  BY <1>10 DEF Restart, WorkInv
<1>11. CASE \/ \E t \in Txs : RegisterOtherTx(t)
            \/ ReceiveAddress \/ FilterAddrs \/ UNCHANGED vars
  <2>1. call' = call /\ height' = height /\ (NoDangling' => NoDangling)
    BY <1>11 DEF RegisterOtherTx, ReceiveAddress, FilterAddrs, Calling, vars, NoDangling, Registered
  <2> QED
    BY <2>1 DEF WorkInv, UnconfirmedList
<1> QED
  BY <1>1, <1>2, <1>3, <1>4, <1>5, <1>6, <1>7, <1>8, <1>9, <1>10, <1>11
     DEF Next, Progress, HeightValues

-----------------------------------------------------------------------------
(* The ledger between calls *)

LedgerInv ==
    /\ ledger \in Accounts
    /\ ledger.balance = Amount(ledger.utxos)
    /\ NoDangling /\ call.op # "load" =>
          /\ Accounted(ledger, Registered)
          /\ \A t \in ledger.invalid :
                height[t] = Unconfirmed \/ (call.op = "update" /\ call.stale)

\* A call that ends with _BRWalletUpdateBalance leaves a right ledger.
LEMMA Recomputed ==
    ASSUME transactions' \in Seq(Txs),
           NEW h \in [Txs -> HeightValues], NEW tip, NEW addrs,
           HeightSorted(transactions', h), Once(transactions'), OneChain(h),
           ledger' = UpdateBalance(transactions', h, tip, addrs),
           \A t \in Registered' : h[t] = Unconfirmed => height'[t] = Unconfirmed
    PROVE  LedgerInv'
<1>1. /\ ledger' \in Accounts
      /\ Accounted(ledger', Range(transactions'))
      /\ UnconfirmedOnly(ledger'.invalid, h)
  BY UpdateBalanceAccounted
<1>2. Registered' = Range(transactions')
  BY DEF Registered
<1>3. Accounted(ledger, Registered)'
  BY <1>1, <1>2 DEF Accounted
<1>4. ledger'.balance = Amount(ledger'.utxos) /\ ledger'.invalid \subseteq Registered'
  BY <1>3 DEF Accounted
<1>5. \A t \in ledger'.invalid : height'[t] = Unconfirmed
  BY <1>1, <1>4 DEF UnconfirmedOnly
<1> QED
  BY <1>1, <1>3, <1>4, <1>5 DEF LedgerInv

\* A step that leaves the ledger and the registered transactions alone.
LEMMA KeptLedger ==
    ASSUME LedgerInv, UNCHANGED <<transactions, ledger>> \/ (ledger' = ledger /\ Registered' = Registered),
           NoDangling, call.op # "load",
           \A t \in ledger.invalid :
              \/ height'[t] = Unconfirmed
              \/ call'.op = "update" /\ call'.stale
    PROVE  LedgerInv'
<1>1. ledger' = ledger /\ Registered' = Registered
  BY DEF Registered
<1>2. Accounted(ledger, Registered)'
  BY <1>1 DEF LedgerInv, Accounted
<1> QED
  BY <1>1, <1>2 DEF LedgerInv

\* The calls that end with a pass over the list.
LEMMA PassLedger ==
    ASSUME IInv, ChainInv, LedgerInv,
           \/ FinishLoad \/ RemoveAndFree
           \/ (UpdateDone /\ call.stale)
           \/ \E t \in Txs : RegisterWalletTx(t)
           \/ \E h \in 0..MaxHeight : SetTxUnconfirmedAfter(h) /\ RegisteredAfter(h) # {}
    PROVE  LedgerInv'
<1>1. /\ transactions \in Seq(Txs) /\ height \in [Txs -> HeightValues]
      /\ NoDangling /\ HeightSorted(transactions, height) /\ Once(transactions)
  <2>1. NoDangling
    BY DEF FinishLoad, RemoveAndFree, UpdateDone, RegisterWalletTx, SetTxUnconfirmedAfter, Calling
  <2> QED
    BY <2>1 DEF IInv, Types, ListOrdered
<1>2. CASE FinishLoad \/ (UpdateDone /\ call.stale)
  <2>1. call.op = "update" => call.todo = <<>>
    BY <1>2 DEF FinishLoad, UpdateDone, Calling
  <2>2. OneChain(height)
    BY <1>1, <2>1, SettledChain
  <2>3. UNCHANGED <<transactions, height>>
    BY <1>2 DEF FinishLoad, UpdateDone
  <2>4. \E tip, addrs : ledger' = UpdateBalance(transactions', height, tip, addrs)
    BY <1>2, <2>3 DEF FinishLoad, UpdateDone
  <2> QED
    BY <1>1, <2>2, <2>3, <2>4, Recomputed
<1>3. ASSUME NEW t \in Txs, RegisterWalletTx(t)
      PROVE  LedgerInv'
  <2>1. OneChain(height)
    BY <1>1, <1>3, SettledChain DEF RegisterWalletTx, Calling
  <2>2. t \notin Registered
    BY <1>3 DEF RegisterWalletTx, NoDangling, Calling
  <2>3. /\ transactions' = InsertTx(transactions, t, height, allTx') /\ height' = height
        /\ \E tip, addrs : ledger' = UpdateBalance(transactions', height, tip, addrs)
    BY <1>3 DEF RegisterWalletTx
  <2>4. transactions' \in Seq(Txs) /\ HeightSorted(transactions', height) /\ Once(transactions')
    BY <1>1, <2>2, <2>3, InsertTxOrdered DEF Registered
  <2> QED
    BY <1>1, <2>1, <2>3, <2>4, Recomputed
<1>4. CASE RemoveAndFree
  <2> DEFINE t == Head(call.work)
  <2>1. OneChain(height)
    BY <1>1, <1>4, SettledChain DEF RemoveAndFree, Calling
  <2>2. /\ transactions' = RemoveFirst(transactions, t)
        /\ height' = [height EXCEPT ![t] = Unconfirmed]
        /\ \E tip, addrs : ledger' = UpdateBalance(transactions', height, tip, addrs)
    BY <1>4 DEF RemoveAndFree, NewObject
  <2>3. transactions' \in Seq(Txs) /\ HeightSorted(transactions', height) /\ Once(transactions')
    BY <1>1, <2>2, RemoveFirstOrdered
  <2>4. Registered' \subseteq Txs
    BY <2>3, RegisteredAreTxs DEF Registered
  <2>5. \A u \in Registered' : height[u] = Unconfirmed => height'[u] = Unconfirmed
    <3> HIDE DEF t
    <3> QED
      BY <1>1, <2>2, <2>4
  <2> QED
    BY <1>1, <2>1, <2>2, <2>3, <2>5, Recomputed
<1>5. ASSUME NEW h \in 0..MaxHeight, SetTxUnconfirmedAfter(h), RegisteredAfter(h) # {}
      PROVE  LedgerInv'
  <2>1. IInv' /\ OneChain(height')
    BY <1>5, ReorgInv, ReorgChain DEF OneChain
  <2>2. /\ transactions' = transactions /\ allTx' = allTx
        /\ \E tip, addrs : ledger' = UpdateBalance(transactions', height', tip, addrs)
    BY <1>5 DEF SetTxUnconfirmedAfter
  <2>3. NoDangling'
    BY <1>1, <2>2 DEF NoDangling, Registered
  <2>4. /\ transactions' \in Seq(Txs) /\ height' \in [Txs -> HeightValues]
        /\ HeightSorted(transactions', height') /\ Once(transactions')
    BY <2>1, <2>3 DEF IInv, Types, ListOrdered
  <2> QED
    BY <2>1, <2>2, <2>4, Recomputed
<1> QED
  BY <1>2, <1>3, <1>4, <1>5

\* Loading only notes the addresses used.
LEMMA LoadTxLedger ==
    ASSUME IInv, LedgerInv, NEW t \in Txs, NEW h \in HeightValues, LoadTx(t, h)
    PROVE  LedgerInv'
<1>1. ledger' = [ledger EXCEPT !.used = ledger.used \cup PaysTo(t)] /\ ledger \in Accounts
  BY DEF LoadTx, LedgerInv
<1>2. ledger.used \cup PaysTo(t) \in FiniteSubsets(Addresses)
  BY <1>1, PaysToAddresses, FS_Union DEF FiniteSubsets, Accounts
<1>3. ledger' \in Accounts /\ ledger'.balance = ledger.balance /\ ledger'.utxos = ledger.utxos
  BY <1>1, <1>2 DEF Accounts
<1>4. call'.op = "load"
  BY DEF LoadTx, Calling, IInv, Loading
<1> QED
  BY <1>3, <1>4 DEF LedgerInv

\* Every step keeps the ledger right.
LEMMA StepLedger ==
    ASSUME IInv, ChainInv, WorkInv, LedgerInv, [Next]_vars
    PROVE  LedgerInv'
<1>1. CASE \/ FinishLoad \/ RemoveAndFree
           \/ (UpdateDone /\ call.stale)
           \/ \E t \in Txs : RegisterWalletTx(t)
           \/ \E h \in 0..MaxHeight : SetTxUnconfirmedAfter(h) /\ RegisteredAfter(h) # {}
  BY <1>1, PassLedger
<1>2. ASSUME NEW t \in Txs, NEW h \in HeightValues, LoadTx(t, h) PROVE LedgerInv'
  BY <1>2, LoadTxLedger
<1>3. CASE Restart
  <2>1. ledger' = EmptyLedger /\ call'.op = "load"
    BY <1>3 DEF Restart
  <2> QED
    BY <2>1, EmptyLedgerType, AmountOfNone DEF LedgerInv, EmptyLedger
<1>4. CASE \/ ReplaceUsedAddrs \/ RemoveGone \/ RemoveDependents
           \/ (\E t \in Txs : RegisterOtherTx(t)) \/ (\E t \in Txs : RemoveTransaction(t))
           \/ BlockConfirms \/ PeersVerify \/ ReceiveAddress \/ FilterAddrs
  <2>1. /\ UNCHANGED <<transactions, height, ledger>>
        /\ NoDangling /\ call.op \notin {"load", "update"}
    BY <1>4 DEF ReplaceUsedAddrs, RemoveGone, RemoveDependents, RegisterOtherTx,
                RemoveTransaction, BlockConfirms, PeersVerify, UpdateTransactions,
                ReceiveAddress, FilterAddrs, Calling
  <2>2. \A t \in ledger.invalid : height'[t] = Unconfirmed
    BY <2>1 DEF LedgerInv
  <2> QED
    BY <2>1, <2>2, KeptLedger
<1>5. CASE UpdateDone /\ ~call.stale
  <2>1. /\ UNCHANGED <<transactions, height, ledger>>
        /\ NoDangling /\ call.op = "update"
    BY <1>5 DEF UpdateDone, Calling
  <2>2. \A t \in ledger.invalid : height'[t] = Unconfirmed
    BY <1>5, <2>1 DEF LedgerInv
  <2> QED
    BY <2>1, <2>2, KeptLedger
<1>6. ASSUME NEW h \in 0..MaxHeight, SetTxUnconfirmedAfter(h), RegisteredAfter(h) = {}
      PROVE  LedgerInv'
  <2>1. /\ UNCHANGED <<transactions, ledger>> /\ NoDangling /\ call.op = "idle"
        /\ \A t \in Txs : height'[t] = height[t]
    BY <1>6 DEF SetTxUnconfirmedAfter, Calling
  <2>2. \A t \in ledger.invalid : t \in Txs /\ height[t] = Unconfirmed
    BY <2>1 DEF LedgerInv, Accounts
  <2> QED
    BY <2>1, <2>2, KeptLedger
<1>7. CASE UpdateSkip \/ UpdateWalletTx \/ UpdateOtherTx
  <2>1. /\ NoDangling /\ call.op = "update" /\ call.todo # <<>> /\ ledger' = ledger
        /\ Calling("update")
    BY <1>7 DEF UpdateSkip, UpdateWalletTx, UpdateOtherTx, Calling
  <2>2. /\ call \in [op : {"update"}, todo : Seq(Txs), height : HeightValues,
                     stale : BOOLEAN]
        /\ NextHash \in Txs
    BY <2>1, UpdateShape
  <2>3. \A t \in ledger.invalid : t \in Txs /\ (height[t] = Unconfirmed \/ call.stale)
    BY <2>1 DEF LedgerInv, Accounts
  <2>4. CASE UpdateSkip
    <3>1. UNCHANGED <<transactions, height>> /\ call'.op = "update" /\ call'.stale = call.stale
      BY <2>2, <2>4 DEF UpdateSkip
    <3> QED
      BY <2>1, <2>3, <3>1, KeptLedger
  <2>5. CASE UpdateOtherTx
    <3>1. /\ transactions' = transactions /\ call'.op = "update" /\ call'.stale = call.stale
          /\ height' = [height EXCEPT ![NextHash] = Unconfirmed]
      BY <2>2, <2>5 DEF UpdateOtherTx, NewObject
    <3>2. \A t \in ledger.invalid : height'[t] = Unconfirmed \/ call'.stale
      BY <2>2, <2>3, <3>1 DEF IInv, Types
    <3> QED
      BY <2>1, <3>1, <3>2, KeptLedger
  <2>6. CASE UpdateWalletTx
    <3>1. /\ call'.op = "update"
          /\ call'.stale = (call.stale \/ NextHash \in ledger.pending \cup ledger.invalid)
          /\ height' = [height EXCEPT ![NextHash] = call.height]
      BY <2>2, <2>6 DEF UpdateWalletTx
    <3>2. Registered' = Registered
      BY <2>6, UpdateWalletInv
    <3>3. \A t \in ledger.invalid : height'[t] = Unconfirmed \/ call'.stale
      BY <2>2, <2>3, <3>1 DEF IInv, Types
    <3> QED
      BY <2>1, <3>1, <3>2, <3>3, KeptLedger
  <2> QED
    BY <1>7, <2>4, <2>5, <2>6
<1>8. CASE UNCHANGED vars
  BY <1>8 DEF vars, LedgerInv, Accounted, NoDangling, Registered
<1> QED
  BY <1>1, <1>2, <1>3, <1>4, <1>5, <1>6, <1>7, <1>8
     DEF Next, Progress, HeightValues

-----------------------------------------------------------------------------
(* The address chains *)

\* The gap limit is counted from an address that is used or from the first, so
\* a number of addresses that leaves the gap unused exists, and is natural.
LEMMA UnusedAddrsNat ==
    ASSUME NEW chain, NEW len \in Nat, NEW gap \in Nat,
           NEW used \in FiniteSubsets(Addresses)
    PROVE  UnusedAddrs(chain, len, gap, used) \in Nat
<1> DEFINE of == {b \in used : b[1] = chain}
           ends == {a[2] + 1 : a \in of}
           tops == {len} \cup ends
           end == gap + Max(tops)
           fits == {n \in len..end : LastUsed(chain, n, used) + gap <= n}
<1>1. \A a \in of : a[2] \in Nat
  BY OutputAssumption DEF FiniteSubsets, Addresses, PaysTo
<1>2. IsFiniteSet(tops) /\ tops \in SUBSET Nat /\ len \in tops
  <2>1. IsFiniteSet(of)
    BY FS_Subset DEF FiniteSubsets
  <2>2. IsFiniteSet(ends)
    <3> DEFINE f == [a \in of |-> a[2] + 1]
    <3>1. f \in Surjection(of, ends)
      BY DEF Surjection
    <3> QED
      BY <2>1, <3>1, FS_Surjection
  <2>3. IsFiniteSet({len})
    BY FS_Singleton
  <2>4. ends \in SUBSET Nat
    BY <1>1
  <2> HIDE DEF ends
  <2> QED
    BY <2>2, <2>3, <2>4, FS_Union
<1>3. Max(tops) \in Nat /\ \A x \in tops : x <= Max(tops)
  <2> HIDE DEF tops
  <2> QED
    BY <1>2, MaxFinite
<1>4. end \in Nat /\ end = gap + Max(tops) /\ len <= end
  <2> HIDE DEF tops
  <2> QED
    BY <1>2, <1>3
<1>5. ASSUME NEW i \in Nat, Addr(chain, i) \in used
      PROVE  i + 1 <= Max(tops)
  <2>1. <<chain, i>> \in of /\ <<chain, i>>[2] = i
    BY <1>5 DEF Addr
  <2>2. i + 1 \in tops
    BY <2>1
  <2> HIDE DEF tops
  <2> QED
    BY <1>3, <2>2
<1> HIDE DEF end, tops
<1>6. LastUsed(chain, end, used) + gap <= end /\ LastUsed(chain, end, used) \in Nat
  <2> DEFINE taken == {i \in 0..(end - 1) : Addr(chain, i) \in used}
             last == {0} \cup {i + 1 : i \in taken}
  <2>1. \A m \in last : m \in 0..end /\ m <= Max(tops)
    <3> SUFFICES ASSUME NEW i \in taken
                 PROVE  i + 1 \in 0..end /\ i + 1 <= Max(tops)
      BY <1>3, <1>4
    <3> QED
      BY <1>4, <1>5
  <2>2. LastUsed(chain, end, used) = Max(last) /\ 0 \in last
    BY DEF LastUsed
  <2> HIDE DEF last
  <2>3. last \in SUBSET (0..end) /\ last \in SUBSET Nat
    BY <1>4, <2>1
  <2>4. IsFiniteSet(last)
    <3>1. IsFiniteSet(0..end)
      BY <1>4, FS_Interval
    <3> QED
      BY <2>3, <3>1, FS_Subset
  <2>5. Max(last) \in last
    BY <2>2, <2>3, <2>4, MaxFinite
  <2>6. Max(last) <= Max(tops) /\ Max(last) \in Nat
    BY <2>1, <2>3, <2>5
  <2> QED
    BY <1>3, <1>4, <2>2, <2>6
<1>7. fits \in SUBSET Nat /\ fits # {}
  <2>1. end \in fits
    BY <1>4, <1>6
  <2>2. fits \in SUBSET Nat
    BY <1>4
  <2> HIDE DEF fits
  <2> QED
    BY <2>1, <2>2
<1>8. UnusedAddrs(chain, len, gap, used) = Min(fits)
  BY DEF UnusedAddrs, end, tops
<1> HIDE DEF fits
<1>9. Min(fits) \in fits
  BY <1>7, MinNatural
<1> QED
  BY <1>7, <1>8, <1>9

Sizes ==
    /\ blockHeight \in Heights \cup {0, Unconfirmed}
    /\ extLen \in Nat /\ intLen \in Nat

\* Of two numbers the greater is one of them.
LEMMA MaxOfTwo ==
    ASSUME NEW a \in Nat, NEW b \in Nat
    PROVE  Max({a, b}) \in {a, b}
<1>1. IsFiniteSet({a, b})
  <2>1. IsFiniteSet({a}) /\ IsFiniteSet({b})
    BY FS_Singleton
  <2>2. {a, b} = {a} \cup {b}
    OBVIOUS
  <2> QED
    BY <2>1, <2>2, FS_Union
<1> QED
  BY <1>1, MaxFinite

\* Every step keeps the numbers in their ranges.
LEMMA StepSizes ==
    ASSUME IInv, LedgerInv, Sizes, [Next]_vars
    PROVE  Sizes'
<1>1. ledger.used \in FiniteSubsets(Addresses)
  BY DEF LedgerInv, Accounts
<1>2. /\ GapExternal \in Nat /\ GapInternal \in Nat /\ GapExternal + GapMargin \in Nat
      /\ GapInternal + GapMargin \in Nat
  BY GapAssumption
<1>3. CASE FinishLoad \/ ReplaceUsedAddrs \/ ReceiveAddress \/ FilterAddrs
  <2>1. /\ blockHeight' = blockHeight
        /\ \E gap \in Nat : extLen' = UnusedAddrs("ext", extLen, gap, ledger.used)
        /\ \/ intLen' = intLen
           \/ \E gap \in Nat : intLen' = UnusedAddrs("int", intLen, gap, ledger.used)
    BY <1>2, <1>3 DEF FinishLoad, ReplaceUsedAddrs, ReceiveAddress, FilterAddrs
  <2> QED
    BY <1>1, <2>1, UnusedAddrsNat DEF Sizes
<1>4. CASE BlockConfirms \/ PeersVerify
  <2>1. PICK h \in HeightValues : \E s : UpdateTransactions(s, h)
    BY <1>4 DEF BlockConfirms, PeersVerify, HeightValues
  <2>2. blockHeight \in Nat /\ h \in Nat
    BY <2>1, HeightIsNat, HeightAssumption DEF Sizes, Heights
  <2>3. blockHeight' \in {blockHeight, h} /\ UNCHANGED <<extLen, intLen>>
    BY <2>1, <2>2, MaxOfTwo DEF UpdateTransactions
  <2> QED
    BY <2>1, <2>3 DEF Sizes, HeightValues
<1>5. ASSUME NEW h \in 0..MaxHeight, SetTxUnconfirmedAfter(h) PROVE Sizes'
  <2>1. h \in Heights \cup {0}
    BY HeightAssumption DEF Heights
  <2> QED
    BY <1>5, <2>1 DEF SetTxUnconfirmedAfter, Sizes
<1>6. CASE Restart
  BY <1>6 DEF Restart, Sizes
<1>7. CASE \/ \E t \in Txs, h \in HeightValues : LoadTx(t, h)
           \/ \E t \in Txs : RegisterWalletTx(t) \/ RegisterOtherTx(t) \/ RemoveTransaction(t)
           \/ RemoveGone \/ RemoveDependents \/ RemoveAndFree
           \/ UpdateSkip \/ UpdateWalletTx \/ UpdateOtherTx \/ UpdateDone
           \/ UNCHANGED vars
  <2>1. UNCHANGED <<blockHeight, extLen, intLen>>
    BY <1>7 DEF LoadTx, RegisterWalletTx, RegisterOtherTx, RemoveTransaction, RemoveGone,
                RemoveDependents, RemoveAndFree, UpdateSkip, UpdateWalletTx,
                UpdateOtherTx, UpdateDone, vars
  <2> QED
    BY <2>1 DEF Sizes
<1> QED
  BY <1>3, <1>4, <1>5, <1>6, <1>7 DEF Next, Progress, HeightValues

-----------------------------------------------------------------------------
(* The whole invariant *)

WalletInv == IInv /\ ChainInv /\ WorkInv /\ LedgerInv /\ Sizes

\* The wallet starts with an empty ledger.
LEMMA InitWallet == Init => WalletInv
<1> SUFFICES ASSUME Init PROVE WalletInv
  OBVIOUS
<1>1. call.op = "load" /\ ledger = EmptyLedger
  BY DEF Init
<1>2. WorkInv
  BY <1>1 DEF WorkInv
<1>3. LedgerInv
  BY <1>1, EmptyLedgerType, AmountOfNone DEF LedgerInv, EmptyLedger
<1>4. Sizes
  BY DEF Init, Sizes
<1> QED
  BY <1>2, <1>3, <1>4, InitInv, InitChain DEF WalletInv

\* Every step keeps the heights of one chain.
LEMMA StepChain ==
    ASSUME IInv, ChainInv, [Next]_vars
    PROVE  ChainInv'
<1>1. ASSUME NEW t \in Txs, NEW h \in HeightValues, LoadTx(t, h) PROVE ChainInv'
  BY <1>1, LoadTxChain
<1>2. ASSUME NEW t \in Txs, RegisterWalletTx(t) PROVE ChainInv'
  BY <1>2, RegisterChain
<1>3. CASE RemoveAndFree
  BY <1>3, RemoveChain
<1>4. CASE UpdateWalletTx
  BY <1>4, UpdateWalletChain
<1>5. CASE UpdateOtherTx
  BY <1>5, UpdateOtherChain
<1>6. CASE UpdateSkip
  BY <1>6, UpdateSkipChain
<1>7. CASE BlockConfirms \/ PeersVerify
  BY <1>7, UpdateBeginChain
<1>8. ASSUME NEW h \in 0..MaxHeight, SetTxUnconfirmedAfter(h) PROVE ChainInv'
  BY <1>8, ReorgChain
<1>9. CASE QuietStep
  BY <1>9, QuietChain
<1>10. CASE Restart
  BY <1>10, RestartChain
<1>11. CASE UNCHANGED vars
  BY <1>11 DEF vars, ChainInv, UpdatedHeight, NoDangling, Registered
<1> QED
  BY <1>1, <1>2, <1>3, <1>4, <1>5, <1>6, <1>7, <1>8, <1>9, <1>10, <1>11
     DEF Next, Progress, QuietStep, HeightValues

-----------------------------------------------------------------------------
(* Theorems *)

\* The strengthened invariant holds in every reachable state.
THEOREM IInvAlways == Spec => []IInv
<1>1. Init => IInv
  BY InitInv
<1>2. IInv /\ [Next]_vars => IInv'
  BY StepInv
<1> QED
  BY <1>1, <1>2, PTL DEF Spec

\* wallet->transactions stays sorted by height and free of duplicates.
THEOREM ListOrderedAlways == Spec => []ListOrdered
<1>1. IInv => ListOrdered
  BY DEF IInv
<1> QED
  BY <1>1, IInvAlways, PTL

\* A reorganisation leaves no registered transaction above the join point.
THEOREM UnconfirmedAfterAlways == Spec => UnconfirmedAfter
<1> DEFINE A == \A h \in 0..MaxHeight : SetTxUnconfirmedAfter(h) =>
                   \A t \in Registered' : height'[t] <= h \/ height'[t] = Unconfirmed
<1>1. IInv => A
  <2> SUFFICES ASSUME IInv, NEW h \in 0..MaxHeight, SetTxUnconfirmedAfter(h),
                      NEW t \in Registered'
               PROVE  height'[t] <= h \/ height'[t] = Unconfirmed
    OBVIOUS
  <2>1. PICK n \in Nat : n = Len(transactions)
    BY DEF IInv, Types
  <2>2. PICK k \in 0..n :
          /\ \A i \in 1..k : /\ height[transactions[i]] <= h
                             /\ height'[transactions[i]] = height[transactions[i]]
          /\ \A i \in (k + 1)..n : height'[transactions[i]] = Unconfirmed
    BY <2>1, ReorgSplit
  <2>3. PICK i \in 1..n : t = transactions[i]
    BY <2>1 DEF Registered, Range, SetTxUnconfirmedAfter, IInv, Types
  <2>4. i \in 1..k \/ i \in (k + 1)..n
    OBVIOUS
  <2> QED
    BY <2>2, <2>3, <2>4
<1>2. IInv => [A]_vars
  BY <1>1
<1>3. []IInv => [][A]_vars
  BY <1>2, PTL
<1> QED
  BY <1>3, IInvAlways DEF UnconfirmedAfter

\* The whole invariant holds in every reachable state.
THEOREM WalletInvAlways == Spec => []WalletInv
<1>1. Init => WalletInv
  BY InitWallet
<1>2. WalletInv /\ [Next]_vars => WalletInv'
  BY StepInv, StepChain, StepWork, StepLedger, StepSizes DEF WalletInv
<1> QED
  BY <1>1, <1>2, PTL DEF Spec

\* Of the registered transactions that spend one output at most one is valid.
THEOREM NoConflictAlways == Spec => []NoConflict
<1>1. WalletInv => NoConflict
  BY DEF WalletInv, LedgerInv, NoConflict, Settled, Accounted, Valid
<1> QED
  BY <1>1, WalletInvAlways, PTL

\* An invalid transaction has a valid one it conflicts with, or spends an
\* invalid one.
THEOREM InvalidHasCauseAlways == Spec => []InvalidHasCause
<1>1. WalletInv => InvalidHasCause
  BY DEF WalletInv, LedgerInv, InvalidHasCause, Settled, Accounted, Valid
<1> QED
  BY <1>1, WalletInvAlways, PTL

\* The balance is the sum of the unspent outputs, which belong to valid
\* transactions that are not pending and which none of these spends.
THEOREM BalanceIsUnspentAlways == Spec => []BalanceIsUnspent
<1>1. WalletInv => BalanceIsUnspent
  BY DEF WalletInv, LedgerInv, BalanceIsUnspent, Settled, Accounted, Valid
<1> QED
  BY <1>1, WalletInvAlways, PTL

\* Every variable keeps its shape; the unsigned balance never goes below zero.
THEOREM TypeOKAlways == Spec => []TypeOK
<1>1. WalletInv => TypeOK
  <2> SUFFICES ASSUME WalletInv PROVE TypeOK
    OBVIOUS
  <2>1. call \in Calls
    <3>1. CASE call.op \in {"idle", "failed", "added", "remove"}
      BY <3>1 DEF WalletInv, WorkInv, Calls
    <3>2. CASE call.op = "load"
      BY <3>2 DEF WalletInv, IInv, Loading, Calls
    <3>3. CASE call.op = "update"
      BY <3>3 DEF WalletInv, IInv, Updating, Calls, HeightValues
    <3> QED
      BY <3>1, <3>2, <3>3 DEF WalletInv, WorkInv
  <2>2. ledger.balance \in Nat
    BY AmountNatural DEF WalletInv, LedgerInv, Accounts, FiniteSubsets
  <2> QED
    BY <2>1, <2>2 DEF TypeOK, WalletInv, IInv, Types, Sizes, HeightValues
<1> QED
  BY <1>1, WalletInvAlways, PTL

\* A removal frees a transaction only when no unconfirmed one of the wallet
\* spends an output of it any more.
THEOREM DependentsFirstAlways == Spec => DependentsFirst
<1> DEFINE A == RemoveAndFree =>
                  \A u \in Registered' : Head(call.work) \in Parents(u) => height[u] # Unconfirmed
<1>1. WalletInv => A
  <2> SUFFICES ASSUME WalletInv, RemoveAndFree, NEW u \in Registered',
                      Head(call.work) \in Parents(u)
               PROVE  height[u] # Unconfirmed
    OBVIOUS
  <2> DEFINE t == Head(call.work)
  <2>1. u \in Registered /\ u # t
    BY RemoveInv DEF WalletInv
  <2>2. t \in Txs /\ height[t] = Unconfirmed
    BY WorkShape DEF RemoveAndFree, WalletInv
  <2>3. NoDangling /\ Dependents(t) = <<>>
    BY DEF RemoveAndFree, Calling
  <2> HIDE DEF t
  <2>4. height[u] = Unconfirmed => ~Spends(u, t)
    BY <2>1, <2>2, <2>3, DependentsUnconfirmed DEF WalletInv
  <2> QED
    BY <2>1, <2>4 DEF Spends, t
<1>2. WalletInv => [A]_vars
  BY <1>1
<1>3. []WalletInv => [][A]_vars
  BY <1>2, PTL
<1> QED
  BY <1>3, WalletInvAlways DEF DependentsFirst

=============================================================================
