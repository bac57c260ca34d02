---------------------------- MODULE BRSetProofs -----------------------------
(***************************************************************************)
(* Proofs about the hash tables: whatever the sizes and the hashes, they   *)
(* are the sets that the header promises.                                  *)
(*                                                                         *)
(* What holds of a table between operations is that no two items are equal *)
(* and that no bucket is empty on the way from the bucket of an item's     *)
(* hash to the bucket it lies in.  A removal keeps it because it takes out *)
(* the items up to the next empty bucket and adds them again: from an      *)
(* empty bucket on, the buckets of the table are a line on which no way to *)
(* an item wraps around (Pos, InLine), and an item that is added again     *)
(* lands no later on it than it lay before (Refilled).                     *)
(***************************************************************************)
EXTENDS BRSet, ListLemmas

-----------------------------------------------------------------------------
(* Sizes and remainders *)

\* A table grows before it is full.
LEMMA LimitBelow ==
    ASSUME NEW n \in Nat, n = 3 \/ n > 4
    PROVE  Limit(n) \in Nat /\ Limit(n) < n
BY DEF Limit

\* The next size that a table gets has a higher limit.
LEMMA LimitGrows ==
    ASSUME NEW m \in Nat, NEW n \in Nat, m + 3 <= n
    PROVE  Limit(m) < Limit(n)
BY DEF Limit

\* A remainder is the index of a bucket.
LEMMA RemainderBelow ==
    ASSUME NEW n \in Nat \ {0}, NEW h \in Nat
    PROVE  h % n \in 0..(n - 1)
OBVIOUS

\* The next buckets, that wrap around at the end of the table.
LEMMA Wraps ==
    ASSUME NEW n \in Nat \ {0}, NEW a \in 0..(n - 1), NEW k \in 0..n
    PROVE  (a + k) % n = IF a + k < n THEN a + k ELSE a + k - n
OBVIOUS

-----------------------------------------------------------------------------
(* One table *)

\* The buckets of a table of size n, the tables, and the bucket of a hash.
Spots(n) == 0..(n - 1)
Tables(n) == [Spots(n) -> Items \cup {NULL}]
Home(x, n) == Hash[x] % n

\* On the way from bucket h on to bucket p.
Passed(h, p, q) == IF h <= p THEN h <= q /\ q <= p ELSE h <= q \/ q <= p

\* Bucket q ends the probe for the item.
Stops(t, item, q) == t[q] = NULL \/ Key[t[q]] = Key[item]

\* No two items are equal.
Distinct(t, n) ==
    \A p, q \in Spots(n) : t[p] # NULL /\ t[q] # NULL /\ p # q => Key[t[p]] # Key[t[q]]

\* No bucket is empty on the way to an item.
Reached(t, n) ==
    \A p \in Spots(n) : t[p] # NULL =>
        \A q \in Spots(n) : Passed(Home(t[p], n), p, q) => t[q] # NULL

\* The items of a table.
Held(t) == {t[b] : b \in DOMAIN t} \ {NULL}

\* The bucket of a hash is one of the table.
LEMMA HomeIsSpot ==
    ASSUME ItemAssumption, NEW n \in Nat \ {0}, NEW x \in Items
    PROVE  Home(x, n) \in Spots(n)
BY RemainderBelow DEF Home, Spots, ItemAssumption

\* The size of a table is the number of its buckets.
LEMMA TableSize ==
    ASSUME NEW n \in Nat \ {0}, NEW t \in Tables(n)
    PROVE  DOMAIN t = Spots(n) /\ Cardinality(DOMAIN t) = n
<1>1. Cardinality(0..(n - 1)) = n
  BY FS_Interval
<1> QED
  BY <1>1 DEF Tables, Spots

\* A probe ends at the first bucket from that of the hash on that stops it, if there
\* is one that does.
LEMMA ProbeStops ==
    ASSUME ItemAssumption, NEW n \in Nat \ {0}, NEW t \in Tables(n), NEW item \in Items,
           \E e \in Spots(n) : Stops(t, item, e)
    PROVE  /\ Probe(t, item) \in Spots(n)
           /\ Stops(t, item, Probe(t, item))
           /\ \A q \in Spots(n) : Passed(Home(item, n), Probe(t, item), q) /\ q # Probe(t, item)
                 => ~Stops(t, item, q)
<1> DEFINE h == Home(item, n)
           at(k) == (h + k) % n
           first(k) == /\ Stops(t, item, at(k))
                       /\ \A m \in 0..(k - 1) : ~Stops(t, item, at(m))
           d == CHOOSE k \in 0..(n - 1) : first(k)
           K == {k \in 0..(n - 1) : Stops(t, item, at(k))}
<1>1. h \in Spots(n) /\ n \in Nat /\ n > 0
  BY HomeIsSpot
<1>2. \A k \in 0..(n - 1) : at(k) = (IF h + k < n THEN h + k ELSE h + k - n) /\ at(k) \in Spots(n)
  <2>1. h \in 0..(n - 1)
    BY <1>1 DEF Spots
  <2> HIDE DEF h
  <2> SUFFICES ASSUME NEW k \in 0..(n - 1)
               PROVE  at(k) = (IF h + k < n THEN h + k ELSE h + k - n) /\ at(k) \in Spots(n)
    OBVIOUS
  <2>0. k \in 0..n
    BY <1>1
  <2>2. (h + k) % n = (IF h + k < n THEN h + k ELSE h + k - n)
    BY <2>0, <2>1, Wraps
  <2>3. at(k) = (IF h + k < n THEN h + k ELSE h + k - n)
    BY <2>2
  <2> HIDE DEF at
  <2> QED
    BY <1>1, <2>1, <2>3 DEF Spots
<1>3. Probe(t, item) = at(d)
  <2>1. Cardinality(DOMAIN t) = n
    BY TableSize
  <2> QED
    BY <2>1, Zenon DEF Probe, Home, Stops
<1> HIDE DEF h, at
<1>4. K # {}
  <2>1. PICK e \in Spots(n) : Stops(t, item, e)
    OBVIOUS
  <2> DEFINE k == IF e >= h THEN e - h ELSE e - h + n
  <2>2. k \in 0..(n - 1) /\ (IF h + k < n THEN h + k ELSE h + k - n) = e
    BY <1>1 DEF Spots
  <2> HIDE DEF k
  <2>3. at(k) = e
    BY <1>2, <2>2
  <2> QED
    BY <2>1, <2>2, <2>3
<1>5. PICK k \in K : \A j \in K : k <= j
  <2>1. K \in SUBSET Nat
    OBVIOUS
  <2> HIDE DEF K
  <2> QED
    BY <1>4, <2>1, MinNatural
<1>6. first(k) /\ k \in 0..(n - 1)
  BY <1>5
<1>7. d \in 0..(n - 1) /\ first(d)
  BY <1>6
<1> HIDE DEF d
<1>8. ASSUME NEW q \in Spots(n), Passed(h, at(d), q), q # at(d)
      PROVE  ~Stops(t, item, q)
  <2> DEFINE m == IF q >= h THEN q - h ELSE q - h + n
  <2>1. at(d) = (IF h + d < n THEN h + d ELSE h + d - n)
    BY <1>2, <1>7
  <2>2. m \in 0..(d - 1) /\ m \in 0..(n - 1) /\ (IF h + m < n THEN h + m ELSE h + m - n) = q
    BY <1>1, <1>7, <1>8, <2>1 DEF Passed, Spots
  <2> HIDE DEF m
  <2>3. at(m) = q
    BY <1>2, <2>2
  <2> QED
    BY <1>7, <2>2, <2>3
<1> QED
  BY <1>2, <1>3, <1>7, <1>8 DEF h

\* What is held is a finite set of items, and a table that holds less items than
\* it has buckets has an empty one.
LEMMA HeldItems ==
    ASSUME ItemAssumption, NEW n \in Nat \ {0}, NEW t \in Tables(n)
    PROVE  /\ Held(t) \subseteq Items
           /\ IsFiniteSet(Held(t)) /\ Cardinality(Held(t)) \in Nat
           /\ Held(t) = {t[b] : b \in Spots(n)} \ {NULL}
<1>1. Held(t) \subseteq Items
  BY DEF Held, Tables
<1> QED
  BY <1>1, TableSize, FS_Subset, FS_CardinalityType DEF ItemAssumption, Held

\* A table with less items than buckets has an empty bucket.
LEMMA BucketIsFree ==
    ASSUME ItemAssumption, NEW n \in Nat \ {0}, NEW t \in Tables(n), Distinct(t, n),
           Cardinality(Held(t)) < n
    PROVE  \E e \in Spots(n) : t[e] = NULL
<1> SUFFICES ASSUME \A e \in Spots(n) : t[e] # NULL
             PROVE  FALSE
  OBVIOUS
<1>1. t \in [Spots(n) -> Held(t)]
  BY HeldItems, TableSize DEF Tables
<1>2. IsFiniteSet(Spots(n)) /\ Cardinality(Spots(n)) = n
  BY FS_Interval DEF Spots
<1>3. \E p, q \in Spots(n) : p # q /\ t[p] = t[q]
  BY <1>1, <1>2, HeldItems, FS_PigeonHole
<1> QED
  BY <1>3 DEF Distinct

\* The probe finds the bucket of an equal item if there is one.
LEMMA ProbeFindsEqual ==
    ASSUME ItemAssumption, NEW n \in Nat \ {0}, NEW t \in Tables(n), NEW item \in Items,
           Distinct(t, n), Reached(t, n), \E e \in Spots(n) : t[e] = NULL,
           NEW p \in Spots(n), t[p] # NULL, Key[t[p]] = Key[item]
    PROVE  Probe(t, item) = p
<1> DEFINE b == Probe(t, item)
           h == Home(item, n)
<1>1. /\ b \in Spots(n) /\ Stops(t, item, b)
      /\ \A q \in Spots(n) : Passed(h, b, q) /\ q # b => ~Stops(t, item, q)
  <2>1. \E e \in Spots(n) : Stops(t, item, e)
    BY DEF Stops
  <2> QED
    BY <2>1, ProbeStops
<1>2. h \in Spots(n) /\ Home(t[p], n) = h
  <2>1. t[p] \in Items
    BY DEF Tables
  <2> QED
    BY <2>1, HomeIsSpot DEF ItemAssumption, Home
<1> HIDE DEF b, h
<1>3. Passed(h, b, p) \/ Passed(h, p, b)
  BY <1>1, <1>2 DEF Passed, Spots
<1>4. CASE Passed(h, b, p)
  BY <1>1, <1>4 DEF Stops, b
<1>5. CASE Passed(h, p, b)
  <2>1. t[b] # NULL
    BY <1>1, <1>2, <1>5 DEF Reached
  <2> QED
    BY <1>1, <2>1 DEF Stops, Distinct, b
<1> QED
  BY <1>3, <1>4, <1>5

\* What is found.
LEMMA ProbeFinds ==
    ASSUME ItemAssumption, NEW n \in Nat \ {0}, NEW t \in Tables(n), NEW item \in Items,
           Distinct(t, n), Reached(t, n), \E e \in Spots(n) : t[e] = NULL
    PROVE  /\ Probe(t, item) \in Spots(n)
           /\ t[Probe(t, item)] = NULL
                 => \A p \in Spots(n) : t[p] # NULL => Key[t[p]] # Key[item]
           /\ t[Probe(t, item)] # NULL => Key[t[Probe(t, item)]] = Key[item]
           /\ \A q \in Spots(n) : Passed(Home(item, n), Probe(t, item), q) /\ q # Probe(t, item)
                 => t[q] # NULL
<1>1. \E e \in Spots(n) : Stops(t, item, e)
  BY DEF Stops
<1> QED
  BY <1>1, ProbeStops, ProbeFindsEqual DEF Stops

\* The table of a set and its count.
WellPlaced(s, n) ==
    /\ s \in [table : Tables(n), itemCount : Nat]
    /\ Distinct(s.table, n) /\ Reached(s.table, n)
    /\ s.itemCount = Cardinality(Held(s.table))

\* The items of S that are equal to the item.
Equal(item, S) == {x \in S : Key[x] = Key[item]}

\* What it finds is the equal item, if there is one: there is one at most.
LEMMA FoundIsEqual ==
    ASSUME ItemAssumption, NEW n \in Nat \ {0}, NEW s, WellPlaced(s, n), s.itemCount < n,
           NEW item \in Items
    PROVE  LET E == Equal(item, Held(s.table))
           IN  /\ Found(s, item) = NULL <=> E = {}
               /\ Found(s, item) # NULL => E = {Found(s, item)}
<1> DEFINE t == s.table
           b == Probe(t, item)
           E == Equal(item, Held(t))
<1>1. t \in Tables(n) /\ Distinct(t, n) /\ Reached(t, n) /\ Cardinality(Held(t)) < n
  BY DEF WellPlaced
<1> HIDE DEF t
<1>2. \E e \in Spots(n) : t[e] = NULL
  BY <1>1, BucketIsFree
<1>3. /\ b \in Spots(n)
      /\ t[b] = NULL => \A p \in Spots(n) : t[p] # NULL => Key[t[p]] # Key[item]
      /\ t[b] # NULL => Key[t[b]] = Key[item]
  BY <1>1, <1>2, ProbeFinds
<1>4. Held(t) = {t[p] : p \in Spots(n)} \ {NULL}
  BY <1>1, HeldItems
<1> HIDE DEF b
<1>5. t[b] = NULL => E = {}
  BY <1>3, <1>4 DEF Equal
<1>6. ASSUME t[b] # NULL
      PROVE  E = {t[b]}
  <2>1. t[b] \in E
    BY <1>3, <1>4, <1>6 DEF Equal
  <2>2. ASSUME NEW x \in E
        PROVE  x = t[b]
    <3>1. PICK p \in Spots(n) : x = t[p] /\ t[p] # NULL
      BY <1>4 DEF Equal
    <3>2. Key[t[p]] = Key[t[b]]
      BY <1>3, <1>6, <3>1 DEF Equal
    <3> QED
      BY <1>1, <1>3, <1>6, <3>1, <3>2 DEF Distinct
  <2> QED
    BY <2>1, <2>2
<1> QED
  BY <1>5, <1>6 DEF Found, t, b

\* Writing one bucket: the other items stay.
LEMMA WriteHeld ==
    ASSUME ItemAssumption, NEW n \in Nat \ {0}, NEW t \in Tables(n), Distinct(t, n),
           NEW b \in Spots(n), NEW x \in Items \cup {NULL}
    PROVE  /\ [t EXCEPT ![b] = x] \in Tables(n)
           /\ Held([t EXCEPT ![b] = x]) = (Held(t) \ {t[b]}) \cup ({x} \ {NULL})
<1> DEFINE u == [t EXCEPT ![b] = x]
<1>1. u \in Tables(n) /\ \A p \in Spots(n) : u[p] = IF p = b THEN x ELSE t[p]
  BY DEF Tables
<1> HIDE DEF u
<1>2. /\ Held(t) = {t[p] : p \in Spots(n)} \ {NULL}
      /\ Held(u) = {u[p] : p \in Spots(n)} \ {NULL}
  BY <1>1, HeldItems
<1>3. \A p \in Spots(n) : p # b /\ t[p] # NULL => t[p] # t[b]
  BY DEF Distinct
<1>4. Held(u) = (Held(t) \ {t[b]}) \cup ({x} \ {NULL})
  BY <1>1, <1>2, <1>3
<1> QED
  BY <1>1, <1>4 DEF u

\* What a bucket that is emptied leaves.
LEMMA ClearHeld ==
    ASSUME ItemAssumption, NEW n \in Nat \ {0}, NEW t \in Tables(n), Distinct(t, n),
           NEW b \in Spots(n)
    PROVE  [t EXCEPT ![b] = NULL] \in Tables(n) /\ Held([t EXCEPT ![b] = NULL]) = Held(t) \ {t[b]}
<1>1. NULL \in Items \cup {NULL} /\ {NULL} \ {NULL} = {}
  OBVIOUS
<1>2. Held([t EXCEPT ![b] = NULL]) = (Held(t) \ {t[b]}) \cup ({NULL} \ {NULL})
  BY <1>1, WriteHeld
<1>3. [t EXCEPT ![b] = NULL] \in Tables(n)
  BY <1>1, WriteHeld
<1> QED
  BY <1>1, <1>2, <1>3

\* BRSetAdd before it grows.
LEMMA PutAdds ==
    ASSUME ItemAssumption, NEW n \in Nat \ {0}, NEW s, WellPlaced(s, n), s.itemCount < n,
           NEW item \in Items
    PROVE  LET E == Equal(item, Held(s.table))
               r == Put(s, item)
           IN  /\ WellPlaced(r, n)
               /\ Held(r.table) = (Held(s.table) \ E) \cup {item}
               /\ r.itemCount = IF E = {} THEN s.itemCount + 1 ELSE s.itemCount
<1> DEFINE t == s.table
           b == Probe(t, item)
           E == Equal(item, Held(t))
           r == Put(s, item)
           u == r.table
<1>1. /\ t \in Tables(n) /\ Distinct(t, n) /\ Reached(t, n) /\ Cardinality(Held(t)) < n
      /\ s.itemCount = Cardinality(Held(t)) /\ s.itemCount \in Nat
  BY DEF WellPlaced
<1>a. /\ Found(s, item) = NULL <=> E = {}
      /\ Found(s, item) # NULL => E = {Found(s, item)}
  BY FoundIsEqual
<1>b. /\ u = [t EXCEPT ![b] = item]
      /\ r = [table |-> u, itemCount |-> IF t[b] = NULL THEN s.itemCount + 1 ELSE s.itemCount]
      /\ Found(s, item) = t[b]
  BY DEF Put, Found
<1> HIDE DEF t, r, u
<1>2. \E e \in Spots(n) : t[e] = NULL
  BY <1>1, BucketIsFree
<1>3. /\ b \in Spots(n)
      /\ t[b] = NULL => \A p \in Spots(n) : t[p] # NULL => Key[t[p]] # Key[item]
      /\ t[b] # NULL => Key[t[b]] = Key[item]
      /\ \A q \in Spots(n) : Passed(Home(item, n), b, q) /\ q # b => t[q] # NULL
  BY <1>1, <1>2, ProbeFinds
<1> HIDE DEF b, E
<1>4. item # NULL
  BY DEF ItemAssumption
<1>5. u \in Tables(n) /\ Held(u) = (Held(t) \ {t[b]}) \cup {item}
  <2>1. item \in Items \cup {NULL}
    OBVIOUS
  <2>2. Held([t EXCEPT ![b] = item]) = (Held(t) \ {t[b]}) \cup ({item} \ {NULL})
    BY <1>1, <1>3, <2>1, WriteHeld
  <2>3. [t EXCEPT ![b] = item] \in Tables(n)
    BY <1>1, <1>3, <2>1, WriteHeld
  <2>4. {item} \ {NULL} = {item}
    BY <1>4
  <2> QED
    BY <1>b, <2>2, <2>3, <2>4
<1>6. Held(u) = (Held(t) \ E) \cup {item}
  <2>1. t[b] = NULL => t[b] \notin Held(t)
    BY DEF Held
  <2> QED
    BY <1>a, <1>b, <1>5, <2>1
<1>7. \A p \in Spots(n) : u[p] = IF p = b THEN item ELSE t[p]
  BY <1>1, <1>b, <1>3 DEF Tables
<1>8. Distinct(u, n)
  <2>1. \A p \in Spots(n) : p # b /\ t[p] # NULL => Key[t[p]] # Key[item]
    BY <1>1, <1>3 DEF Distinct
  <2> QED
    BY <1>1, <1>3, <1>7, <2>1 DEF Distinct
<1>9. Reached(u, n)
  <2> SUFFICES ASSUME NEW p \in Spots(n), u[p] # NULL, NEW q \in Spots(n),
                      Passed(Home(u[p], n), p, q)
               PROVE  u[q] # NULL
    BY DEF Reached
  <2>1. CASE p = b
    BY <1>3, <1>4, <1>7, <2>1
  <2>2. CASE p # b
    BY <1>1, <1>4, <1>7, <2>2 DEF Reached
  <2> QED
    BY <2>1, <2>2
<1>10. Cardinality(Held(u)) = IF E = {} THEN s.itemCount + 1 ELSE s.itemCount
  <2>1. IsFiniteSet(Held(t)) /\ Cardinality(Held(t)) \in Nat
    BY <1>1, HeldItems
  <2>2. CASE E = {}
    <3>1. item \notin Held(t)
      BY <2>2 DEF Equal, E
    <3> QED
      <4>1. Cardinality(Held(t) \cup {item}) = Cardinality(Held(t)) + 1
        BY <2>1, <3>1, FS_AddElement
      <4>2. Held(u) = Held(t) \cup {item}
        BY <1>6, <2>2
      <4> QED
        BY <1>1, <2>2, <4>1, <4>2
  <2>3. CASE E # {}
    <3>1. t[b] \in Held(t) /\ E = {t[b]}
      BY <1>a, <1>b, <2>3 DEF Equal, E
    <3>2. IsFiniteSet(Held(t) \ {t[b]}) /\ Cardinality(Held(t) \ {t[b]}) = Cardinality(Held(t)) - 1
      BY <2>1, <3>1, FS_RemoveElement
    <3>3. item \notin Held(t) \ {t[b]}
      BY <3>1 DEF Equal, E
    <3> QED
      <4>1. Cardinality((Held(t) \ {t[b]}) \cup {item}) = Cardinality(Held(t) \ {t[b]}) + 1
        BY <3>2, <3>3, FS_AddElement
      <4>2. Cardinality(Held(u)) = Cardinality(Held(t))
        BY <1>5, <2>1, <3>2, <4>1
      <4> QED
        BY <1>1, <2>3, <4>2
  <2> QED
    BY <2>2, <2>3
<1>11. r.itemCount = Cardinality(Held(u)) /\ r \in [table : Tables(n), itemCount : Nat]
  <2>1. Cardinality(Held(u)) \in Nat
    BY <1>5, HeldItems
  <2>2. t[b] = NULL <=> E = {}
    BY <1>a, <1>b
  <2>3. r.itemCount = IF E = {} THEN s.itemCount + 1 ELSE s.itemCount
    BY <1>b, <2>2
  <2>4. r.itemCount = Cardinality(Held(u))
    BY <1>10, <2>3
  <2>5. r.itemCount \in Nat
    BY <2>1, <2>4
  <2> QED
    BY <1>b, <1>5, <2>4, <2>5
<1>12. r.itemCount = IF E = {} THEN s.itemCount + 1 ELSE s.itemCount
  BY <1>10, <1>11
<1> QED
  BY <1>6, <1>8, <1>9, <1>11, <1>12 DEF WellPlaced, E, t, r, u

-----------------------------------------------------------------------------
(* The sizes *)

\* A table has one of the sizes from the second on, and its count is not beyond
\* its limit.
Sized(s, i) == WellPlaced(s, tableSizes[i]) /\ s.itemCount <= Limit(tableSizes[i])

\* A set between operations.
Valid(s) == \E i \in 2..Len(tableSizes) : Sized(s, i)

\* A size, its limit, and the size that a table of this size grows to.
LEMMA SizeFacts ==
    ASSUME SizeAssumption, NEW i \in 2..Len(tableSizes)
    PROVE  /\ tableSizes[i] \in Nat \ {0}
           /\ Limit(tableSizes[i]) \in Nat /\ Limit(tableSizes[i]) < tableSizes[i]
           /\ i < Len(tableSizes) =>
                 /\ NewSize(tableSizes[i]) = tableSizes[i + 1]
                 /\ Limit(tableSizes[i]) < Limit(tableSizes[i + 1])
<1> DEFINE n == Len(tableSizes)
<1>1. n \in Nat /\ DOMAIN tableSizes = 1..n /\ \A j \in 1..n : tableSizes[j] \in Nat \ {0}
  BY ElementOfSeq DEF SizeAssumption
<1>2. i \in Nat /\ i >= 2 /\ i <= n
  BY <1>1
<1>3. tableSizes[i] \in Nat /\ (tableSizes[i] = 3 \/ tableSizes[i] > 4)
  BY <1>1 DEF SizeAssumption
<1>4. Limit(tableSizes[i]) \in Nat /\ Limit(tableSizes[i]) < tableSizes[i]
  BY <1>3, LimitBelow
<1>5. \A j, k \in 1..n : j < k => tableSizes[j] < tableSizes[k]
  BY <1>1 DEF SizeAssumption
<1>6. ASSUME i < n
      PROVE  /\ NewSize(tableSizes[i]) = tableSizes[i + 1]
             /\ Limit(tableSizes[i]) < Limit(tableSizes[i + 1])
  <2>1. i + 1 \in 2..n /\ i + 1 > 2 /\ (i + 1) - 1 = i /\ i + 1 \in 1..n
    BY <1>1, <1>2, <1>6
  <2>2. tableSizes[(i + 1) - 1] + 3 <= tableSizes[i + 1]
    BY <2>1 DEF SizeAssumption
  <2>3. Limit(tableSizes[i]) < Limit(tableSizes[i + 1])
    BY <1>1, <1>3, <2>1, <2>2, LimitGrows
  <2> DEFINE P(k) == /\ tableSizes[i] <= tableSizes[k]
                     /\ \A j \in 1..(k - 1) : tableSizes[j] < tableSizes[i]
             c == CHOOSE k \in DOMAIN tableSizes : P(k)
  <2>4. i \in DOMAIN tableSizes /\ P(i)
    <3>1. i \in 1..n
      BY <1>1, <1>2
    <3>2. \A j \in 1..(i - 1) : j \in 1..n /\ j < i
      BY <1>1, <1>2
    <3> QED
      BY <1>1, <1>3, <1>5, <3>1, <3>2
  <2>5. c \in DOMAIN tableSizes /\ P(c)
    BY <2>4
  <2>6. NewSize(tableSizes[i]) = tableSizes[c + 1]
    BY DEF NewSize
  <2> HIDE DEF c
  <2>7. c = i
    <3>1. c \in 1..n /\ tableSizes[c] \in Nat
      BY <1>1, <2>5
    <3>2. ~(c < i)
      BY <1>1, <1>2, <1>3, <1>5, <2>5, <3>1
    <3>3. ~(i < c)
      <4> SUFFICES ASSUME i < c
                   PROVE  FALSE
        OBVIOUS
      <4>1. i \in 1..(c - 1)
        BY <1>2, <3>1
      <4>2. tableSizes[i] < tableSizes[i]
        BY <2>5, <4>1
      <4> QED
        BY <1>3, <4>2
    <3> QED
      BY <1>2, <3>1, <3>2, <3>3
  <2> QED
    BY <2>3, <2>6, <2>7
<1> QED
  BY <1>1, <1>2, <1>4, <1>6

\* BRSetNew: the capacities that it is called with have a size.
LEMMA NewIsSized ==
    ASSUME ItemAssumption, SizeAssumption, NEW i \in 2..Len(tableSizes), NEW c,
           NewSize(c) = tableSizes[i]
    PROVE  Sized(New(c), i) /\ Held(New(c).table) = {}
<1> DEFINE n == tableSizes[i]
           s == New(c)
<1>1. n \in Nat \ {0} /\ Limit(n) \in Nat
  BY SizeFacts
<1>2. s = [table |-> [b \in 0..(n - 1) |-> NULL], itemCount |-> 0]
  BY DEF New
<1> HIDE DEF n, s
<1>3. s.table \in Tables(n) /\ \A p \in Spots(n) : s.table[p] = NULL
  BY <1>2 DEF Tables, Spots
<1>4. Held(s.table) = {}
  BY <1>3 DEF Held, Tables
<1>5. s.itemCount = 0 /\ s \in [table : Tables(n), itemCount : Nat]
  BY <1>2, <1>3
<1>6. Distinct(s.table, n) /\ Reached(s.table, n)
  BY <1>3 DEF Distinct, Reached
<1>7. Cardinality(Held(s.table)) = 0
  BY <1>4, FS_EmptySet
<1>8. WellPlaced(s, n)
  BY <1>5, <1>6, <1>7 DEF WellPlaced
<1> QED
  BY <1>1, <1>4, <1>5, <1>8 DEF Sized, n, s

\* BRSetNew gets one of the sizes, not the first.
LEMMA CapacityHasSize ==
    ASSUME SizeAssumption, CapacityAssumption, NEW c \in Capacities
    PROVE  \E i \in 2..Len(tableSizes) : NewSize(c) = tableSizes[i]
<1> DEFINE n == Len(tableSizes)
           I == {k \in 1..n : c <= tableSizes[k]}
           P(k) == /\ c <= tableSizes[k]
                   /\ \A j \in 1..(k - 1) : tableSizes[j] < c
           d == CHOOSE k \in DOMAIN tableSizes : P(k)
<1>1. n \in Nat /\ n >= 2 /\ DOMAIN tableSizes = 1..n /\ \A j \in 1..n : tableSizes[j] \in Nat
  BY ElementOfSeq DEF SizeAssumption
<1>2. c \in Nat /\ n - 1 \in I
  BY <1>1 DEF CapacityAssumption
<1>3. PICK m \in I : \A j \in I : m <= j
  <2>1. I \in SUBSET (1..n) /\ I # {}
    BY <1>2
  <2> HIDE DEF I, n
  <2> QED
    BY <1>1, <2>1, MinIndex
<1>4. m \in 1..n /\ m <= n - 1 /\ P(m)
  <2>1. m \in 1..n /\ m <= n - 1
    BY <1>1, <1>2, <1>3
  <2>2. ASSUME NEW j \in 1..(m - 1)
        PROVE  tableSizes[j] < c
    <3>1. j \in 1..n /\ ~(m <= j)
      BY <1>1, <2>1
    <3>2. j \notin I
      BY <1>3, <3>1
    <3> QED
      BY <1>1, <1>2, <3>1, <3>2
  <2> QED
    BY <1>3, <2>1, <2>2
<1>5. d \in 1..n /\ P(d)
  <2>1. m \in DOMAIN tableSizes /\ P(m)
    BY <1>1, <1>4
  <2> QED
    BY <1>1, <2>1
<1>6. NewSize(c) = tableSizes[d + 1]
  BY DEF NewSize
<1> HIDE DEF d
<1>7. d <= m
  <2> SUFFICES ASSUME m < d
               PROVE  FALSE
    BY <1>1, <1>4, <1>5
  <2>1. m \in 1..(d - 1)
    BY <1>1, <1>4, <1>5
  <2>2. tableSizes[m] < c
    BY <1>5, <2>1
  <2>3. c \in Nat /\ c <= tableSizes[m] /\ tableSizes[m] \in Nat
    BY <1>1, <1>2, <1>4
  <2>4. \A x, y \in Nat : x <= y => ~(y < x)
    OBVIOUS
  <2> QED
    BY <2>2, <2>3, <2>4, Zenon
<1>8. d + 1 \in 2..n
  BY <1>1, <1>4, <1>5, <1>7
<1> QED
  BY <1>6, <1>8

-----------------------------------------------------------------------------
(* Growing *)

\* The buckets as a sequence.
LEMMA BucketsOf ==
    ASSUME NEW n \in Nat \ {0}, NEW s, s.table \in Tables(n)
    PROVE  /\ Size(s) = n
           /\ DOMAIN Buckets(s) = 1..n
           /\ \A k \in 1..n : k - 1 \in Spots(n) /\ Buckets(s)[k] = s.table[k - 1]
                              /\ Buckets(s)[k] \in Items \cup {NULL}
<1>1. Size(s) = n
  BY TableSize DEF Size
<1>2. \A k \in 1..n : k - 1 \in Spots(n)
  BY DEF Spots
<1> QED
  BY <1>1, <1>2 DEF Buckets, Tables

\* The items in the first k buckets.
First(s, k) == {s.table[q] : q \in 0..(k - 1)} \ {NULL}

\* The items in one bucket more.
LEMMA FirstItems ==
    ASSUME NEW n \in Nat \ {0}, NEW s, s.table \in Tables(n)
    PROVE  /\ First(s, 0) = {} /\ First(s, n) = Held(s.table)
           /\ \A k \in 1..n : First(s, k) = First(s, k - 1) \cup ({s.table[k - 1]} \ {NULL})
<1>1. First(s, 0) = {} /\ First(s, n) = Held(s.table)
  BY TableSize DEF First, Held, Spots
<1>2. \A k \in 1..n : 0..(k - 1) = (0..((k - 1) - 1)) \cup {k - 1}
  OBVIOUS
<1> QED
  BY <1>1, <1>2 DEF First

\* _BRSetGrow, one bucket after the other.
TakenOver(t, item) == IF item = NULL THEN t ELSE Put(t, item)

GrowEquation(f, s) ==
    f = [d \in SUBSET DOMAIN Buckets(s) |->
           IF d = {} THEN New(Size(s))
           ELSE IF Buckets(s)[Max(d)] = NULL THEN f[d \ {Max(d)}]
           ELSE Put(f[d \ {Max(d)}], Buckets(s)[Max(d)])]

\* _BRSetGrow takes over one bucket after the other.
LEMMA GrownChain ==
    ASSUME ItemAssumption, NEW n \in Nat \ {0}, NEW s, s.table \in Tables(n),
           NEW m \in Nat \ {0}, New(n) \in [table : Tables(m), itemCount : Nat]
    PROVE  \E acc : /\ acc[0] = New(n)
                    /\ \A k \in 1..n : acc[k] = TakenOver(acc[k - 1], s.table[k - 1])
                    /\ Grown(s) = acc[n]
<1> DEFINE A == [table : Tables(m), itemCount : Nat]
           F == [k \in 1..n |-> [t \in A |-> TakenOver(t, s.table[k - 1])]]
<1>1. /\ Size(s) = n /\ DOMAIN Buckets(s) = 1..n
      /\ \A k \in 1..n : Buckets(s)[k] = s.table[k - 1] /\ Buckets(s)[k] \in Items \cup {NULL}
  BY BucketsOf
<1>2. ASSUME NEW t \in A, NEW x \in Items \cup {NULL}
      PROVE  TakenOver(t, x) \in A
  <2>1. CASE x = NULL
    BY <2>1 DEF TakenOver
  <2>2. CASE x # NULL
    <3>1. [t.table EXCEPT ![Probe(t.table, x)] = x] \in Tables(m)
      BY DEF Tables
    <3>2. (IF t.table[Probe(t.table, x)] = NULL THEN t.itemCount + 1 ELSE t.itemCount) \in Nat
      OBVIOUS
    <3> QED
      BY <2>2, <3>1, <3>2 DEF TakenOver, Put
  <2> QED
    BY <2>1, <2>2
<1>3. F \in [1..n -> [A -> A]]
  BY <1>1, <1>2
<1>4. PICK g \in [SUBSET (1..n) -> A] : FoldsInOrder(g, New(n), F, n)
  <2>1. New(n) \in A /\ n \in Nat
    OBVIOUS
  <2> HIDE DEF F, A
  <2> QED
    BY <1>3, <2>1, FoldExists
<1>a. \A k \in 1..n, t \in A : F[k][t] = TakenOver(t, Buckets(s)[k])
  BY <1>1
<1> HIDE DEF F, A
<1>5. ASSUME NEW d \in SUBSET (1..n)
      PROVE  g[d] = IF d = {} THEN New(n)
                    ELSE IF Buckets(s)[Max(d)] = NULL THEN g[d \ {Max(d)}]
                    ELSE Put(g[d \ {Max(d)}], Buckets(s)[Max(d)])
  <2>1. CASE d = {}
    BY <1>4, <2>1 DEF FoldsInOrder
  <2>2. CASE d # {}
    <3>1. Max(d) \in 1..n /\ d \ {Max(d)} \in SUBSET (1..n) /\ g[d] = F[Max(d)][g[d \ {Max(d)}]]
      BY <1>4, <2>2 DEF FoldsInOrder
    <3>2. g[d \ {Max(d)}] \in A
      BY <3>1
    <3>3. g[d] = TakenOver(g[d \ {Max(d)}], Buckets(s)[Max(d)])
      BY <1>a, <3>1, <3>2
    <3> QED
      BY <2>2, <3>3 DEF TakenOver
  <2> QED
    BY <2>1, <2>2
<1>6. GrowEquation(g, s)
  BY <1>1, <1>5 DEF GrowEquation
<1>7. PICK f : /\ Grown(s) = f[DOMAIN Buckets(s)]
               /\ f = CHOOSE e : GrowEquation(e, s)
  BY DEF Grown, FoldLeft, MapThenFoldSet, GrowEquation
<1>8. GrowEquation(f, s)
  BY <1>6, <1>7
<1> DEFINE acc == [k \in 0..n |-> f[1..k]]
<1>9. acc[0] = New(n)
  <2>1. 0 \in 0..n /\ 1..0 = {} /\ {} \in SUBSET DOMAIN Buckets(s)
    BY <1>1
  <2> QED
    BY <1>1, <1>8, <2>1 DEF GrowEquation
<1>10. ASSUME NEW k \in 1..n
       PROVE  acc[k] = TakenOver(acc[k - 1], s.table[k - 1])
  <2>1. k \in Nat /\ k # 0 /\ k \in 0..n /\ k - 1 \in 0..n /\ 1..k \in SUBSET DOMAIN Buckets(s)
        /\ k \in 1..k
    BY <1>1
  <2>2. Max(1..k) = k /\ (1..k) \ {k} = 1..(k - 1)
    BY <2>1, LastPosition
  <2>3. \A d \in SUBSET DOMAIN Buckets(s) : d # {} =>
           f[d] = TakenOver(f[d \ {Max(d)}], Buckets(s)[Max(d)])
    BY <1>8 DEF GrowEquation, TakenOver
  <2>4. 1..k # {}
    BY <2>1
  <2>5. f[1..k] = TakenOver(f[1..(k - 1)], Buckets(s)[k])
    BY <2>1, <2>2, <2>3, <2>4
  <2> QED
    BY <1>1, <2>1, <2>5
<1>11. acc[n] = Grown(s)
  BY <1>1, <1>7
<1> HIDE DEF acc
<1> QED
  BY <1>9, <1>10, <1>11

\* The next size takes over what the table holds.
LEMMA GrownHolds ==
    ASSUME ItemAssumption, SizeAssumption, NEW i \in 2..Len(tableSizes), i < Len(tableSizes),
           NEW s, WellPlaced(s, tableSizes[i]), s.itemCount <= Limit(tableSizes[i + 1])
    PROVE  Sized(Grown(s), i + 1) /\ Held(Grown(s).table) = Held(s.table)
<1> DEFINE n == tableSizes[i]
           m == tableSizes[i + 1]
           count(k) == Cardinality(First(s, k))
<1>1. i + 1 \in 2..Len(tableSizes)
  BY DEF SizeAssumption
<1>2. /\ n \in Nat \ {0} /\ NewSize(n) = m
      /\ m \in Nat \ {0} /\ Limit(m) \in Nat /\ Limit(m) < m
  BY <1>1, SizeFacts
<1>3. Sized(New(n), i + 1) /\ Held(New(n).table) = {}
  BY <1>1, <1>2, NewIsSized
<1>4. /\ s.table \in Tables(n) /\ Distinct(s.table, n)
      /\ s.itemCount = Cardinality(Held(s.table))
  BY DEF WellPlaced
<1> HIDE DEF n, m
<1>5. New(n) \in [table : Tables(m), itemCount : Nat] /\ WellPlaced(New(n), m)
  BY <1>3 DEF Sized, WellPlaced, m
<1>6. PICK acc : /\ acc[0] = New(n)
                 /\ \A k \in 1..n : acc[k] = TakenOver(acc[k - 1], s.table[k - 1])
                 /\ Grown(s) = acc[n]
  BY <1>2, <1>4, <1>5, GrownChain
<1>7. /\ First(s, 0) = {} /\ First(s, n) = Held(s.table)
      /\ \A k \in 1..n : First(s, k) = First(s, k - 1) \cup ({s.table[k - 1]} \ {NULL})
  BY <1>2, <1>4, FirstItems
<1>8. \A k \in 0..n : First(s, k) \subseteq Held(s.table)
  <2>1. DOMAIN s.table = Spots(n)
    BY <1>2, <1>4, TableSize
  <2>2. \A k \in 0..n : 0..(k - 1) \subseteq Spots(n)
    BY <1>2 DEF Spots
  <2> QED
    BY <2>1, <2>2 DEF First, Held
<1>9. IsFiniteSet(Held(s.table)) /\ Cardinality(Held(s.table)) \in Nat
      /\ Held(s.table) \subseteq Items
  BY <1>2, <1>4, HeldItems
<1>10. \A k \in 0..n : IsFiniteSet(First(s, k)) /\ count(k) \in Nat /\ count(k) <= s.itemCount
  BY <1>4, <1>8, <1>9, FS_Subset, FS_CardinalityType
<1> DEFINE K == {k \in 0..n : WellPlaced(acc[k], m) /\ Held(acc[k].table) = First(s, k)}
<1>11. 0 \in K
  <2>1. 0 \in 0..n
    BY <1>2
  <2>2. WellPlaced(acc[0], m) /\ Held(acc[0].table) = First(s, 0)
    BY <1>3, <1>5, <1>6, <1>7
  <2> QED
    BY <2>1, <2>2
<1>12. ASSUME NEW k \in K, k < n
       PROVE  k + 1 \in K
  <2>1. k \in 0..n /\ k + 1 \in 1..n /\ (k + 1) - 1 = k /\ k + 1 \in 0..n
    BY <1>2, <1>12
  <2>2. acc[k + 1] = TakenOver(acc[k], s.table[k])
    BY <1>6, <2>1
  <2>3. First(s, k + 1) = First(s, k) \cup ({s.table[k]} \ {NULL})
    BY <1>7, <2>1
  <2>4. CASE s.table[k] = NULL
    BY <2>1, <2>2, <2>3, <2>4 DEF TakenOver
  <2>5. CASE s.table[k] # NULL
    <3>1. k \in Spots(n) /\ s.table[k] \in Items
      BY <1>2, <1>4, <1>12, <2>5 DEF Tables, Spots
    <3>2. Equal(s.table[k], First(s, k)) = {}
      <4> SUFFICES ASSUME NEW q \in 0..(k - 1), s.table[q] # NULL
                   PROVE  Key[s.table[q]] # Key[s.table[k]]
        BY DEF Equal, First
      <4>1. q \in Spots(n) /\ q # k
        BY <1>2, <1>12 DEF Spots
      <4> QED
        BY <1>4, <2>5, <3>1, <4>1 DEF Distinct
    <3>3. s.table[k] \notin First(s, k)
      BY <3>1, <3>2 DEF Equal
    <3>4. First(s, k + 1) = First(s, k) \cup {s.table[k]}
      BY <2>3, <2>5
    <3>5. count(k + 1) = count(k) + 1
      BY <1>10, <2>1, <3>3, <3>4, FS_AddElement
    <3>6. acc[k].itemCount = count(k) /\ acc[k].itemCount < m
      <4>1. acc[k].itemCount = count(k)
        BY DEF WellPlaced
      <4>2. s.itemCount <= Limit(m) /\ s.itemCount \in Nat
        BY <1>4, <1>9 DEF m
      <4> HIDE DEF count
      <4>3. count(k) + 1 <= s.itemCount /\ count(k) \in Nat
        BY <1>10, <2>1, <3>5
      <4> QED
        BY <1>2, <4>1, <4>2, <4>3
    <3>7. WellPlaced(acc[k], m) /\ Held(acc[k].table) = First(s, k)
      BY <1>12
    <3> HIDE DEF K, count
    <3>8. /\ WellPlaced(Put(acc[k], s.table[k]), m)
          /\ Held(Put(acc[k], s.table[k]).table)
                = (Held(acc[k].table) \ Equal(s.table[k], Held(acc[k].table))) \cup {s.table[k]}
      <4> DEFINE t == acc[k]
                 x == s.table[k]
      <4>1. WellPlaced(t, m) /\ t.itemCount < m /\ x \in Items /\ m \in Nat \ {0}
        BY <1>2, <3>1, <3>6, <3>7
      <4> HIDE DEF t, x
      <4>2. WellPlaced(Put(t, x), m) /\ Held(Put(t, x).table) = (Held(t.table) \ Equal(x, Held(t.table))) \cup {x}
        BY <4>1, PutAdds
      <4> QED
        BY <4>2 DEF t, x
    <3>9. Held(Put(acc[k], s.table[k]).table) = First(s, k + 1)
      BY <3>2, <3>4, <3>7, <3>8
    <3>10. acc[k + 1] = Put(acc[k], s.table[k])
      BY <2>2, <2>5 DEF TakenOver
    <3> QED
      BY <2>1, <3>8, <3>9, <3>10 DEF K
  <2> QED
    BY <2>4, <2>5
<1>13. K = 0..n
  <2>1. n \in Nat
    BY <1>2
  <2>2. K \in SUBSET (0..n)
    OBVIOUS
  <2> HIDE DEF K
  <2> QED
    BY <1>11, <1>12, <2>1, <2>2, PrefixesReached
<1>14. n \in K
  <2>1. n \in 0..n
    BY <1>2
  <2> HIDE DEF K
  <2> QED
    BY <1>13, <2>1
<1>15. WellPlaced(Grown(s), m) /\ Held(Grown(s).table) = Held(s.table)
  BY <1>6, <1>7, <1>14
<1>16. Grown(s).itemCount = s.itemCount
  BY <1>4, <1>15 DEF WellPlaced
<1> QED
  BY <1>15, <1>16 DEF Sized, m

-----------------------------------------------------------------------------
(* Adding *)

\* BRSetAdd: the equal item is replaced, and the table grows when its limit is
\* passed.
LEMMA AddedHolds ==
    ASSUME ItemAssumption, SizeAssumption, NEW i \in 2..Len(tableSizes),
           NEW s, Sized(s, i), NEW item \in Items
    PROVE  /\ Valid(Added(s, item))
           /\ Held(Added(s, item).table)
                 = (Held(s.table) \ Equal(item, Held(s.table))) \cup {item}
<1> DEFINE n == tableSizes[i]
           put == Put(s, item)
           E == Equal(item, Held(s.table))
<1>1. n \in Nat \ {0} /\ Limit(n) \in Nat /\ Limit(n) < n
  BY SizeFacts
<1>2. WellPlaced(s, n) /\ s.itemCount <= Limit(n) /\ s.itemCount \in Nat
  BY DEF Sized, WellPlaced
<1>3. s.itemCount < n /\ s.table \in Tables(n)
  BY <1>1, <1>2 DEF WellPlaced
<1> HIDE DEF n
<1>4. /\ WellPlaced(put, n) /\ Held(put.table) = (Held(s.table) \ E) \cup {item}
      /\ put.itemCount = s.itemCount + 1 \/ put.itemCount = s.itemCount
  BY <1>1, <1>2, <1>3, PutAdds
<1>5. Size(s) = n
  BY <1>1, <1>3, TableSize DEF Size
<1>6. Added(s, item) = IF put.itemCount > Limit(n) THEN Grown(put) ELSE put
  BY <1>5 DEF Added
<1> HIDE DEF put, E
<1>7. CASE put.itemCount > Limit(n)
  <2>1. put.itemCount = Limit(n) + 1 /\ put.itemCount \in Nat
    BY <1>1, <1>2, <1>4, <1>7
  <2>2. put.itemCount = Cardinality(Held(put.table)) /\ put.table \in Tables(n)
    BY <1>4 DEF WellPlaced
  <2>3. Cardinality(Held(put.table)) <= Cardinality(Items)
    BY <1>1, <2>2, HeldItems, FS_Subset DEF ItemAssumption
  <2>4. Cardinality(Items) \in Nat /\ Len(tableSizes) \in Nat
    BY FS_CardinalityType DEF ItemAssumption, SizeAssumption
  <2>5. i < Len(tableSizes)
    <3> SUFFICES ASSUME i = Len(tableSizes)
                 PROVE  FALSE
      BY <2>4
    <3>1. Cardinality(Items) <= Limit(n)
      BY DEF SizeAssumption, n
    <3> QED
      BY <1>1, <2>1, <2>2, <2>3, <2>4, <3>1
  <2>6. Limit(n) < Limit(tableSizes[i + 1]) /\ i + 1 \in 2..Len(tableSizes)
    BY <2>4, <2>5, SizeFacts DEF n
  <2>7. Limit(tableSizes[i + 1]) \in Nat
    BY <2>6, SizeFacts
  <2>8. put.itemCount <= Limit(tableSizes[i + 1])
    BY <1>1, <2>1, <2>6, <2>7
  <2>9. Sized(Grown(put), i + 1) /\ Held(Grown(put).table) = Held(put.table)
    BY <1>4, <2>5, <2>8, GrownHolds DEF n
  <2> QED
    BY <1>4, <1>6, <1>7, <2>6, <2>9 DEF Valid, E
<1>8. CASE ~(put.itemCount > Limit(n))
  <2>1. put.itemCount <= Limit(n)
    BY <1>1, <1>2, <1>4, <1>8
  <2>2. Sized(put, i)
    BY <1>4, <2>1 DEF Sized, n
  <2> QED
    BY <1>4, <1>6, <1>8, <2>2 DEF Valid, E
<1> QED
  BY <1>7, <1>8

\* All tables of which the operations make others.
States == {s \in UNION {[table : Tables(tableSizes[i]), itemCount : Nat] : i \in 2..Len(tableSizes)} :
              Valid(s)}

\* The tables that satisfy Valid are a set, the range of the variable.
LEMMA StatesAreValid ==
    ASSUME NEW s
    PROVE  s \in States <=> Valid(s)
<1> SUFFICES ASSUME Valid(s)
             PROVE  s \in States
  BY DEF States
<1>1. PICK i \in 2..Len(tableSizes) : s \in [table : Tables(tableSizes[i]), itemCount : Nat]
  BY DEF Valid, Sized, WellPlaced
<1> QED
  BY <1>1 DEF States

\* BRSetUnion, one bucket after the other.
Joined(t, item) == IF item = NULL THEN t ELSE Added(t, item)

UnionEquation(f, s, o) ==
    f = [d \in SUBSET DOMAIN Buckets(o) |->
           IF d = {} THEN s
           ELSE IF Buckets(o)[Max(d)] = NULL THEN f[d \ {Max(d)}]
           ELSE Added(f[d \ {Max(d)}], Buckets(o)[Max(d)])]

\* BRSetUnion as a chain of additions.
LEMMA UnitedChain ==
    ASSUME ItemAssumption, SizeAssumption, NEW n \in Nat \ {0}, NEW o, o.table \in Tables(n),
           NEW s \in States
    PROVE  \E acc : /\ acc[0] = s
                    /\ \A k \in 1..n : acc[k] = Joined(acc[k - 1], o.table[k - 1])
                    /\ United(s, o) = acc[n]
<1> DEFINE A == States
           F == [k \in 1..n |-> [t \in A |-> Joined(t, o.table[k - 1])]]
<1>1. /\ DOMAIN Buckets(o) = 1..n
      /\ \A k \in 1..n : Buckets(o)[k] = o.table[k - 1] /\ Buckets(o)[k] \in Items \cup {NULL}
  BY BucketsOf
<1>2. ASSUME NEW t \in A, NEW x \in Items \cup {NULL}
      PROVE  Joined(t, x) \in A
  BY AddedHolds, StatesAreValid DEF Joined, Valid
<1>3. F \in [1..n -> [A -> A]]
  BY <1>1, <1>2
<1>4. PICK g \in [SUBSET (1..n) -> A] : FoldsInOrder(g, s, F, n)
  <2>1. s \in A /\ n \in Nat
    OBVIOUS
  <2> HIDE DEF F, A
  <2> QED
    BY <1>3, <2>1, FoldExists
<1>a. \A k \in 1..n, t \in A : F[k][t] = Joined(t, Buckets(o)[k])
  BY <1>1
<1> HIDE DEF F, A
<1>5. ASSUME NEW d \in SUBSET (1..n)
      PROVE  g[d] = IF d = {} THEN s
                    ELSE IF Buckets(o)[Max(d)] = NULL THEN g[d \ {Max(d)}]
                    ELSE Added(g[d \ {Max(d)}], Buckets(o)[Max(d)])
  <2>1. CASE d = {}
    BY <1>4, <2>1 DEF FoldsInOrder
  <2>2. CASE d # {}
    <3>1. Max(d) \in 1..n /\ d \ {Max(d)} \in SUBSET (1..n) /\ g[d] = F[Max(d)][g[d \ {Max(d)}]]
      BY <1>4, <2>2 DEF FoldsInOrder
    <3>2. g[d \ {Max(d)}] \in A
      BY <3>1
    <3>3. g[d] = Joined(g[d \ {Max(d)}], Buckets(o)[Max(d)])
      BY <1>a, <3>1, <3>2
    <3> QED
      BY <2>2, <3>3 DEF Joined
  <2> QED
    BY <2>1, <2>2
<1>6. UnionEquation(g, s, o)
  BY <1>1, <1>5 DEF UnionEquation
<1>7. PICK f : /\ United(s, o) = f[DOMAIN Buckets(o)]
               /\ f = CHOOSE e : UnionEquation(e, s, o)
  BY DEF United, FoldLeft, MapThenFoldSet, UnionEquation
<1>8. UnionEquation(f, s, o)
  BY <1>6, <1>7
<1> DEFINE acc == [k \in 0..n |-> f[1..k]]
<1>9. acc[0] = s
  <2>1. 0 \in 0..n /\ 1..0 = {} /\ {} \in SUBSET DOMAIN Buckets(o)
    BY <1>1
  <2> QED
    BY <1>1, <1>8, <2>1 DEF UnionEquation
<1>10. ASSUME NEW k \in 1..n
       PROVE  acc[k] = Joined(acc[k - 1], o.table[k - 1])
  <2>1. k \in Nat /\ k # 0 /\ k \in 0..n /\ k - 1 \in 0..n /\ 1..k \in SUBSET DOMAIN Buckets(o)
        /\ k \in 1..k
    BY <1>1
  <2>2. Max(1..k) = k /\ (1..k) \ {k} = 1..(k - 1)
    BY <2>1, LastPosition
  <2>3. \A d \in SUBSET DOMAIN Buckets(o) : d # {} =>
           f[d] = Joined(f[d \ {Max(d)}], Buckets(o)[Max(d)])
    BY <1>8 DEF UnionEquation, Joined
  <2>4. 1..k # {}
    BY <2>1
  <2>5. f[1..k] = Joined(f[1..(k - 1)], Buckets(o)[k])
    BY <2>1, <2>2, <2>3, <2>4
  <2> QED
    BY <1>1, <2>1, <2>5
<1>11. acc[n] = United(s, o)
  BY <1>1, <1>7
<1> HIDE DEF acc
<1> QED
  BY <1>9, <1>10, <1>11

\* The items of S that T has an equal of.
Alike(S, T) == {x \in S : Equal(x, T) # {}}

\* BRSetUnion: of two equal items the one of the other set stays.
LEMMA UnitedHolds ==
    ASSUME ItemAssumption, SizeAssumption, NEW s, Valid(s), NEW o, Valid(o)
    PROVE  /\ Valid(United(s, o))
           /\ Held(United(s, o).table)
                 = (Held(s.table) \ Alike(Held(s.table), Held(o.table))) \cup Held(o.table)
<1>1. PICK n \in Nat \ {0} : WellPlaced(o, n)
  BY SizeFacts DEF Valid, Sized
<1>2. o.table \in Tables(n) /\ Distinct(o.table, n)
  BY <1>1 DEF WellPlaced
<1>3. PICK acc : /\ acc[0] = s
                 /\ \A k \in 1..n : acc[k] = Joined(acc[k - 1], o.table[k - 1])
                 /\ United(s, o) = acc[n]
  BY <1>2, StatesAreValid, UnitedChain
<1>4. /\ First(o, 0) = {} /\ First(o, n) = Held(o.table)
      /\ \A k \in 1..n : First(o, k) = First(o, k - 1) \cup ({o.table[k - 1]} \ {NULL})
  BY <1>2, FirstItems
<1> DEFINE H == Held(s.table)
           K == {k \in 0..n : /\ Valid(acc[k])
                              /\ Held(acc[k].table) = (H \ Alike(H, First(o, k))) \cup First(o, k)}
<1>5. 0 \in K
  <2>1. Alike(H, First(o, 0)) = {}
    BY <1>4 DEF Alike, Equal
  <2>2. 0 \in 0..n
    OBVIOUS
  <2> HIDE DEF H
  <2>3. Held(acc[0].table) = H
    BY <1>3 DEF H
  <2> QED
    BY <1>3, <1>4, <2>1, <2>2, <2>3
<1>6. ASSUME NEW k \in K, k < n
      PROVE  k + 1 \in K
  <2> DEFINE x == o.table[k]
  <2>1. k \in 0..n /\ k + 1 \in 1..n /\ (k + 1) - 1 = k /\ k + 1 \in 0..n
    BY <1>6
  <2>2. acc[k + 1] = Joined(acc[k], x)
    BY <1>3, <2>1
  <2>3. First(o, k + 1) = First(o, k) \cup ({x} \ {NULL})
    BY <1>4, <2>1
  <2>4. CASE x = NULL
    BY <2>1, <2>2, <2>3, <2>4 DEF Joined
  <2>5. CASE x # NULL
    <3>1. k \in Spots(n) /\ x \in Items
      BY <1>2, <1>6, <2>5 DEF Tables, Spots
    <3>2. \A y \in First(o, k) : Key[y] # Key[x]
      <4> SUFFICES ASSUME NEW q \in 0..(k - 1), o.table[q] # NULL
                   PROVE  Key[o.table[q]] # Key[x]
        BY DEF First
      <4>1. q \in Spots(n) /\ q # k
        BY <1>6 DEF Spots
      <4> QED
        BY <1>2, <2>5, <3>1, <4>1 DEF Distinct
    <3>3. First(o, k + 1) = First(o, k) \cup {x}
      BY <2>3, <2>5
    <3>4. Valid(acc[k]) /\ Held(acc[k].table) = (H \ Alike(H, First(o, k))) \cup First(o, k)
      BY <1>6
    <3> HIDE DEF K, x, H
    <3>5. /\ Valid(Added(acc[k], x))
          /\ Held(Added(acc[k], x).table)
                = (Held(acc[k].table) \ Equal(x, Held(acc[k].table))) \cup {x}
      BY <3>1, <3>4, AddedHolds DEF Valid
    <3>6. acc[k + 1] = Added(acc[k], x)
      BY <2>2, <2>5 DEF Joined
    <3>7. (((H \ Alike(H, First(o, k))) \cup First(o, k))
              \ Equal(x, (H \ Alike(H, First(o, k))) \cup First(o, k))) \cup {x}
            = (H \ Alike(H, First(o, k + 1))) \cup First(o, k + 1)
      <4> DEFINE S == First(o, k)
      <4>1. Alike(H, S \cup {x}) = Alike(H, S) \cup Equal(x, H)
        BY DEF Alike, Equal
      <4>2. Equal(x, S) = {}
        BY <3>2 DEF Equal
      <4> HIDE DEF S
      <4>3. Equal(x, (H \ Alike(H, S)) \cup S) = (Equal(x, H) \ Alike(H, S)) \cup Equal(x, S)
        BY DEF Equal
      <4> QED
        BY <3>2, <3>3, <4>1, <4>2, <4>3 DEF S, Equal
    <3> QED
      BY <2>1, <3>4, <3>5, <3>6, <3>7 DEF K
  <2> QED
    BY <2>4, <2>5
<1>7. K = 0..n
  <2>1. n \in Nat /\ K \in SUBSET (0..n)
    OBVIOUS
  <2> HIDE DEF K
  <2> QED
    BY <1>5, <1>6, <2>1, PrefixesReached
<1>8. n \in K
  <2>1. n \in 0..n
    OBVIOUS
  <2> HIDE DEF K
  <2> QED
    BY <1>7, <2>1
<1> QED
  BY <1>3, <1>4, <1>8

-----------------------------------------------------------------------------
(* Removing *)

\* The buckets counted from an empty one on.
Pos(p, e, n) == IF e <= p THEN p - e ELSE (p - e) + n

\* As far as position j no probe stops before its item, nor passes the bucket e.
InLine(t, n, e, j) ==
    \A p \in Spots(n) : t[p] # NULL /\ Pos(p, e, n) <= j =>
        /\ 1 <= Pos(Home(t[p], n), e, n)
        /\ Pos(Home(t[p], n), e, n) <= Pos(p, e, n)
        /\ \A q \in Spots(n) :
              Pos(Home(t[p], n), e, n) <= Pos(q, e, n) /\ Pos(q, e, n) <= Pos(p, e, n)
                 => t[q] # NULL

\* Positions are below the size, and tell buckets apart.
LEMMA PosBelow ==
    ASSUME NEW n \in Nat \ {0}, NEW e \in Spots(n), NEW p \in Spots(n)
    PROVE  /\ Pos(p, e, n) \in 0..(n - 1)
           /\ Pos(p, e, n) = 0 <=> p = e
           /\ \A q \in Spots(n) : Pos(p, e, n) = Pos(q, e, n) => p = q
BY DEF Spots, Pos

\* What lies further on the line than a bucket that has wrapped around has wrapped too.
LEMMA BehindStays ==
    ASSUME NEW n \in Nat \ {0}, NEW e \in Spots(n), NEW b \in Spots(n),
           NEW p \in Spots(n), NEW q \in Spots(n), p < b,
           Pos(b, e, n) <= Pos(p, e, n), Pos(p, e, n) <= Pos(q, e, n)
    PROVE  q < b
BY DEF Spots, Pos

\* A way that does not pass e is a line.
LEMMA PassedInLine ==
    ASSUME NEW n \in Nat \ {0}, NEW e \in Spots(n), NEW h \in Spots(n), NEW p \in Spots(n)
    PROVE  /\ ~Passed(h, p, e) <=> 1 <= Pos(h, e, n) /\ Pos(h, e, n) <= Pos(p, e, n)
           /\ ~Passed(h, p, e) =>
                 \A q \in Spots(n) :
                    Passed(h, p, q) <=> /\ Pos(h, e, n) <= Pos(q, e, n)
                                        /\ Pos(q, e, n) <= Pos(p, e, n)
BY DEF Spots, Pos, Passed

\* On the line a way to an item does not wrap around.
LEMMA ReachedInLine ==
    ASSUME ItemAssumption, NEW n \in Nat \ {0}, NEW t \in Tables(n),
           NEW e \in Spots(n), t[e] = NULL
    PROVE  Reached(t, n) <=> InLine(t, n, e, n - 1)
<1>1. \A p \in Spots(n) : t[p] # NULL => Home(t[p], n) \in Spots(n)
  BY HomeIsSpot DEF Tables
<1>2. \A p \in Spots(n) : Pos(p, e, n) <= n - 1
  BY PosBelow
<1>3. ASSUME Reached(t, n)
      PROVE  InLine(t, n, e, n - 1)
  <2> SUFFICES ASSUME NEW p \in Spots(n), t[p] # NULL
               PROVE  /\ 1 <= Pos(Home(t[p], n), e, n)
                      /\ Pos(Home(t[p], n), e, n) <= Pos(p, e, n)
                      /\ \A q \in Spots(n) :
                            Pos(Home(t[p], n), e, n) <= Pos(q, e, n) /\ Pos(q, e, n) <= Pos(p, e, n)
                               => t[q] # NULL
    BY DEF InLine
  <2>1. ~Passed(Home(t[p], n), p, e)
    BY <1>3 DEF Reached
  <2>2. \A q \in Spots(n) : Passed(Home(t[p], n), p, q) => t[q] # NULL
    BY <1>3 DEF Reached
  <2> QED
    BY <1>1, <2>1, <2>2, PassedInLine
<1>4. ASSUME InLine(t, n, e, n - 1)
      PROVE  Reached(t, n)
  <2> SUFFICES ASSUME NEW p \in Spots(n), t[p] # NULL, NEW q \in Spots(n),
                      Passed(Home(t[p], n), p, q)
               PROVE  t[q] # NULL
    BY DEF Reached
  <2>1. /\ 1 <= Pos(Home(t[p], n), e, n)
        /\ Pos(Home(t[p], n), e, n) <= Pos(p, e, n)
        /\ Pos(Home(t[p], n), e, n) <= Pos(q, e, n) /\ Pos(q, e, n) <= Pos(p, e, n) => t[q] # NULL
    BY <1>2, <1>4 DEF InLine
  <2> QED
    BY <1>1, <2>1, PassedInLine
<1> QED
  BY <1>3, <1>4

\* While the run after bucket b is added again, j being the position of the last
\* bucket that was: the items of old but the one in b, which only move towards b.
Refilled(s, old, n, b, e, j) ==
    /\ s \in [table : Tables(n), itemCount : Nat]
    /\ s.itemCount = Cardinality(Held(s.table))
    /\ s.table[e] = NULL
    /\ Distinct(s.table, n)
    /\ Held(s.table) = Held(old.table) \ {old.table[b]}
    /\ \A p \in Spots(n) :
          Pos(p, e, n) < Pos(b, e, n) \/ Pos(p, e, n) > j => s.table[p] = old.table[p]
    /\ InLine(s.table, n, e, j)
    /\ \A p \in Spots(n) : s.table[p] # NULL /\ Pos(b, e, n) <= Pos(p, e, n) =>
          \E q \in Spots(n) : old.table[q] = s.table[p] /\ Pos(p, e, n) <= Pos(q, e, n)

\* The removal starts with nothing added again.
LEMMA EmptiedIsRefilled ==
    ASSUME ItemAssumption, NEW n \in Nat \ {0}, NEW s, WellPlaced(s, n),
           NEW e \in Spots(n), s.table[e] = NULL, NEW b \in Spots(n), s.table[b] # NULL
    PROVE  /\ Refilled(Emptied(s, b), s, n, b, e, Pos(b, e, n))
           /\ Emptied(s, b).itemCount = s.itemCount - 1
<1> DEFINE t == s.table
           r == Emptied(s, b)
           u == r.table
<1>1. /\ t \in Tables(n) /\ Distinct(t, n) /\ Reached(t, n)
      /\ s.itemCount = Cardinality(Held(t)) /\ s.itemCount \in Nat
  BY DEF WellPlaced
<1>2. u = [t EXCEPT ![b] = NULL] /\ r = [table |-> u, itemCount |-> s.itemCount - 1]
  BY DEF Emptied
<1>3. t[e] = NULL /\ t[b] # NULL
  OBVIOUS
<1> HIDE DEF t, r, u
<1>4. u \in Tables(n) /\ Held(u) = Held(t) \ {t[b]}
  <2>1. [t EXCEPT ![b] = NULL] \in Tables(n)
    BY <1>1, ClearHeld
  <2>2. Held([t EXCEPT ![b] = NULL]) = Held(t) \ {t[b]}
    BY <1>1, ClearHeld
  <2> QED
    BY <1>2, <2>1, <2>2
<1>5. \A p \in Spots(n) : u[p] = IF p = b THEN NULL ELSE t[p]
  BY <1>1, <1>2 DEF Tables
<1>6. IsFiniteSet(Held(t)) /\ t[b] \in Held(t)
  BY <1>1, <1>3, HeldItems
<1>7. Cardinality(Held(u)) = s.itemCount - 1 /\ Cardinality(Held(u)) \in Nat
  <2>1. Cardinality(Held(t) \ {t[b]}) = Cardinality(Held(t)) - 1
    BY <1>6, FS_RemoveElement
  <2> QED
    BY <1>1, <1>4, <2>1, HeldItems
<1>8. r \in [table : Tables(n), itemCount : Nat] /\ r.itemCount = Cardinality(Held(u))
  BY <1>2, <1>4, <1>7
<1>9. u[e] = NULL /\ Distinct(u, n)
  BY <1>1, <1>3, <1>5 DEF Distinct
<1>10. \A p \in Spots(n) : Pos(p, e, n) < Pos(b, e, n) \/ Pos(p, e, n) > Pos(b, e, n) => p # b
  BY PosBelow
<1>11. InLine(t, n, e, n - 1)
  BY <1>1, <1>3, ReachedInLine
<1>12. InLine(u, n, e, Pos(b, e, n))
  <2> SUFFICES ASSUME NEW p \in Spots(n), u[p] # NULL, Pos(p, e, n) <= Pos(b, e, n)
               PROVE  /\ 1 <= Pos(Home(u[p], n), e, n)
                      /\ Pos(Home(u[p], n), e, n) <= Pos(p, e, n)
                      /\ \A q \in Spots(n) :
                            Pos(Home(u[p], n), e, n) <= Pos(q, e, n) /\ Pos(q, e, n) <= Pos(p, e, n)
                               => u[q] # NULL
    BY DEF InLine
  <2>1. p # b /\ u[p] = t[p]
    BY <1>5
  <2>2. Pos(p, e, n) < Pos(b, e, n) /\ Pos(p, e, n) <= n - 1
    BY <2>1, PosBelow
  <2>3. \A q \in Spots(n) : Pos(q, e, n) <= Pos(p, e, n) => q # b
    BY <2>2, PosBelow
  <2> QED
    BY <1>5, <1>11, <2>1, <2>2, <2>3 DEF InLine
<1>13. \A p \in Spots(n) : u[p] # NULL => t[p] = u[p] /\ Pos(p, e, n) <= Pos(p, e, n)
  BY <1>5, PosBelow
<1>14. \A p \in Spots(n) :
          Pos(p, e, n) < Pos(b, e, n) \/ Pos(p, e, n) > Pos(b, e, n) => u[p] = t[p]
  BY <1>5, <1>10
<1>15. \A p \in Spots(n) : u[p] # NULL => \E q \in Spots(n) : t[q] = u[p] /\ Pos(p, e, n) <= Pos(q, e, n)
  BY <1>13
<1>16. Refilled(r, s, n, b, e, Pos(b, e, n))
  BY <1>4, <1>8, <1>9, <1>12, <1>14, <1>15 DEF Refilled, t, u
<1> QED
  BY <1>7, <1>8, <1>16 DEF r

\* What is taken out and added again finds a bucket at or before its own, and not
\* before b.
LEMMA AddedAgainIsRefilled ==
    ASSUME ItemAssumption, NEW n \in Nat \ {0}, Limit(n) \in Nat,
           NEW old, WellPlaced(old, n),
           NEW e \in Spots(n), old.table[e] = NULL, NEW b \in Spots(n), old.table[b] # NULL,
           NEW j \in Nat, Pos(b, e, n) <= j,
           NEW s, Refilled(s, old, n, b, e, j), s.itemCount <= Limit(n),
           NEW c \in Spots(n), Pos(c, e, n) = j + 1, old.table[c] # NULL
    PROVE  /\ Refilled(AddedAgain(s, c), old, n, b, e, j + 1)
           /\ AddedAgain(s, c).itemCount = s.itemCount
<1> DEFINE t0 == old.table
           t == s.table
           x == t[c]
           u == [t EXCEPT ![c] = NULL]
           d == Probe(u, x)
           h == Home(x, n)
           v == [u EXCEPT ![d] = x]
           pos(p) == Pos(p, e, n)
           r == AddedAgain(s, c)
<1>1. /\ t0 \in Tables(n) /\ Distinct(t0, n) /\ InLine(t0, n, e, n - 1)
      /\ t0[e] = NULL /\ t0[b] # NULL /\ t0[c] # NULL
  BY ReachedInLine DEF WellPlaced
<1>2. /\ t \in Tables(n) /\ s.itemCount = Cardinality(Held(t)) /\ s.itemCount \in Nat
      /\ t[e] = NULL /\ Distinct(t, n) /\ Held(t) = Held(t0) \ {t0[b]}
      /\ \A p \in Spots(n) : pos(p) < pos(b) \/ pos(p) > j => t[p] = t0[p]
      /\ InLine(t, n, e, j)
      /\ \A p \in Spots(n) : t[p] # NULL /\ pos(b) <= pos(p) =>
            \E q \in Spots(n) : t0[q] = t[p] /\ pos(p) <= pos(q)
  BY DEF Refilled
<1>3. /\ pos(b) \in Nat /\ pos(c) = j + 1 /\ j + 1 <= n - 1 /\ pos(b) <= j
      /\ \A p \in Spots(n) : pos(p) \in Nat /\ pos(p) <= n - 1
      /\ \A p \in Spots(n) : pos(p) = 0 <=> p = e
      /\ \A p, q \in Spots(n) : pos(p) = pos(q) => p = q
  BY PosBelow
<1>4. Emptied(s, c) = [table |-> u, itemCount |-> s.itemCount - 1]
  BY DEF Emptied
<1>5. Put(Emptied(s, c), x)
         = [table |-> v, itemCount |-> IF u[d] = NULL THEN (s.itemCount - 1) + 1 ELSE s.itemCount - 1]
  BY <1>4 DEF Put
<1> HIDE DEF t0, t
<1>6. x = t0[c] /\ x \in Items /\ x # NULL
  BY <1>1, <1>2, <1>3 DEF Tables
<1>7. u \in Tables(n) /\ Held(u) = Held(t) \ {x}
  <2>1. [t EXCEPT ![c] = NULL] \in Tables(n)
    BY <1>2, ClearHeld
  <2>2. Held([t EXCEPT ![c] = NULL]) = Held(t) \ {t[c]}
    BY <1>2, ClearHeld
  <2> QED
    BY <2>1, <2>2
<1>8. \A p \in Spots(n) : u[p] = IF p = c THEN NULL ELSE t[p]
  BY <1>2 DEF Tables
<1> HIDE DEF u, x
<1>9. h \in Spots(n)
  BY <1>6, HomeIsSpot
<1>10. /\ 1 <= pos(h) /\ pos(h) <= j + 1
       /\ \A q \in Spots(n) : pos(h) <= pos(q) /\ pos(q) <= j + 1 => t0[q] # NULL
  BY <1>1, <1>3, <1>6 DEF InLine
<1>11. /\ d \in Spots(n) /\ Stops(u, x, d)
       /\ \A q \in Spots(n) : Passed(h, d, q) /\ q # d => ~Stops(u, x, q)
  <2>1. Stops(u, x, c)
    BY <1>8 DEF Stops
  <2> QED
    BY <1>6, <1>7, <2>1, ProbeStops
<1> HIDE DEF d, h
<1>12. \A p \in Spots(n) : u[p] # NULL => Key[u[p]] # Key[x]
  BY <1>2, <1>6, <1>8 DEF Distinct, x
<1>13. /\ u[d] = NULL
       /\ \A q \in Spots(n) : Passed(h, d, q) /\ q # d => u[q] # NULL
  BY <1>11, <1>12 DEF Stops
<1>14. pos(h) <= pos(d) /\ pos(d) <= j + 1
  <2>1. ~Passed(h, c, e)
    BY <1>3, <1>9, <1>10, PassedInLine
  <2>2. Passed(h, c, d) \/ Passed(h, d, c)
    BY <1>9, <1>11 DEF Spots, Passed
  <2>3. Passed(h, d, c) => d = c
    BY <1>8, <1>13
  <2>4. Passed(h, c, d)
    <3>1. Passed(h, c, c)
      BY <1>9 DEF Spots, Passed
    <3> QED
      BY <2>2, <2>3, <3>1
  <2> QED
    BY <1>3, <1>9, <1>11, <2>1, <2>4, PassedInLine
<1>15. \A q \in Spots(n) : pos(h) <= pos(q) /\ pos(q) <= pos(d) /\ q # d => u[q] # NULL
  BY <1>9, <1>10, <1>11, <1>13, <1>14, PassedInLine
<1> HIDE DEF pos
<1>16. pos(b) <= pos(d)
  <2> SUFFICES ASSUME pos(d) < pos(b)
               PROVE  FALSE
    BY <1>3, <1>11
  <2>1. d # c
    BY <1>3
  <2>2. u[d] = t0[d]
    BY <1>2, <1>8, <1>11, <2>1
  <2> QED
    BY <1>10, <1>11, <1>13, <1>14, <2>2
<1>17. d # e
  <2>1. pos(h) \in Nat /\ pos(d) \in Nat /\ pos(d) # 0
    BY <1>3, <1>9, <1>10, <1>11, <1>14
  <2> QED
    BY <1>3, <2>1
<1>18. v \in Tables(n) /\ \A p \in Spots(n) : v[p] = IF p = d THEN x ELSE IF p = c THEN NULL ELSE t[p]
  BY <1>6, <1>7, <1>8, <1>11 DEF Tables
<1>19. Distinct(u, n)
  BY <1>2, <1>8 DEF Distinct
<1>20. Held(v) = Held(t)
  <2>1. x \in Items \cup {NULL} /\ {x} \ {NULL} = {x}
    BY <1>6
  <2>2. Held(v) = (Held(u) \ {u[d]}) \cup ({x} \ {NULL})
    BY <1>7, <1>11, <1>19, <2>1, WriteHeld
  <2>3. u[d] \notin Held(u)
    BY <1>13 DEF Held
  <2>4. x \in Held(t)
    BY <1>2, <1>6, HeldItems DEF x
  <2>5. Held(u) \ {u[d]} = Held(u)
    BY <2>3
  <2>6. Held(v) = Held(u) \cup {x}
    BY <2>1, <2>2, <2>5
  <2> HIDE DEF v
  <2> QED
    BY <1>7, <2>4, <2>6
<1> HIDE DEF v
<1>21. r = [table |-> v, itemCount |-> s.itemCount]
  <2>1. Put(Emptied(s, c), x) = [table |-> v, itemCount |-> s.itemCount]
    <3>1. s.itemCount \in Nat => (s.itemCount - 1) + 1 = s.itemCount
      OBVIOUS
    <3>2. s.itemCount \in Nat /\ u[d] = NULL
      BY <1>2, <1>13
    <3> QED
      BY <1>5, <3>1, <3>2
  <2>2. Size(Emptied(s, c)) = n
    BY <1>4, <1>7, TableSize DEF Size
  <2>3. r = IF Put(Emptied(s, c), x).itemCount > Limit(n) THEN Grown(Put(Emptied(s, c), x))
            ELSE Put(Emptied(s, c), x)
    BY <2>2 DEF AddedAgain, Added, x, t
  <2> HIDE DEF r
  <2>4. ~(s.itemCount > Limit(n))
    BY <1>2
  <2> QED
    BY <2>1, <2>3, <2>4
<1>22. Distinct(v, n)
  <2>1. \A p \in Spots(n) : p # d /\ v[p] # NULL => Key[v[p]] # Key[x]
    BY <1>8, <1>12, <1>18
  <2> QED
    BY <1>2, <1>18, <2>1 DEF Distinct
<1>23. v[e] = NULL
  BY <1>1, <1>2, <1>17, <1>18
<1>24. \A p \in Spots(n) : pos(p) < pos(b) \/ pos(p) > j + 1 => v[p] = t0[p]
  <2> SUFFICES ASSUME NEW p \in Spots(n), pos(p) < pos(b) \/ pos(p) > j + 1
               PROVE  v[p] = t0[p]
    OBVIOUS
  <2>1. p # d /\ p # c
    BY <1>3, <1>11, <1>14, <1>16
  <2>2. t[p] = t0[p]
    BY <1>2, <1>3
  <2> QED
    BY <1>18, <2>1, <2>2
<1>25. InLine(v, n, e, j + 1)
  <2> SUFFICES ASSUME NEW p \in Spots(n), v[p] # NULL, pos(p) <= j + 1
               PROVE  /\ 1 <= pos(Home(v[p], n))
                      /\ pos(Home(v[p], n)) <= pos(p)
                      /\ \A q \in Spots(n) : pos(Home(v[p], n)) <= pos(q) /\ pos(q) <= pos(p)
                               => v[q] # NULL
    BY DEF InLine, pos
  <2>1. CASE p = d
    <3>1. v[p] = x /\ Home(v[p], n) = h
      BY <1>18, <2>1 DEF h
    <3>2. \A q \in Spots(n) : u[q] # NULL => v[q] # NULL
      BY <1>6, <1>8, <1>18
    <3> QED
      BY <1>6, <1>10, <1>14, <1>15, <1>18, <2>1, <3>1, <3>2
  <2>2. CASE p # d
    <3>1. v[p] = t[p] /\ p # c
      BY <1>18, <2>2
    <3>2. pos(p) <= j
      BY <1>3, <3>1
    <3>3. /\ 1 <= pos(Home(t[p], n)) /\ pos(Home(t[p], n)) <= pos(p)
          /\ \A q \in Spots(n) : pos(Home(t[p], n)) <= pos(q) /\ pos(q) <= pos(p) => t[q] # NULL
      BY <1>2, <3>1, <3>2 DEF InLine, pos
    <3>4. \A q \in Spots(n) : pos(q) <= pos(p) => q # c
      BY <1>3, <3>2
    <3>5. \A q \in Spots(n) : q # c /\ t[q] # NULL => v[q] # NULL
      BY <1>6, <1>18
    <3> QED
      BY <3>1, <3>3, <3>4, <3>5
  <2> QED
    BY <2>1, <2>2
<1>26. \A p \in Spots(n) : v[p] # NULL /\ pos(b) <= pos(p) =>
          \E q \in Spots(n) : t0[q] = v[p] /\ pos(p) <= pos(q)
  <2> SUFFICES ASSUME NEW p \in Spots(n), v[p] # NULL, pos(b) <= pos(p)
               PROVE  \E q \in Spots(n) : t0[q] = v[p] /\ pos(p) <= pos(q)
    OBVIOUS
  <2>1. CASE p = d
    BY <1>3, <1>6, <1>14, <1>18, <2>1
  <2>2. CASE p # d
    BY <1>2, <1>18, <2>2 DEF pos
  <2> QED
    BY <2>1, <2>2
<1>27. r \in [table : Tables(n), itemCount : Nat] /\ r.itemCount = Cardinality(Held(v))
  <2>1. s.itemCount \in Nat /\ v \in Tables(n) /\ s.itemCount = Cardinality(Held(v))
    BY <1>2, <1>18, <1>20
  <2> HIDE DEF r
  <2> QED
    BY <1>21, <2>1
<1> HIDE DEF r
<1>28. r.table = v /\ r.itemCount = s.itemCount
  BY <1>21
<1>29. Held(v) = Held(t0) \ {t0[b]}
  BY <1>2, <1>20
<1>30. Refilled(r, old, n, b, e, j + 1)
  BY <1>22, <1>23, <1>24, <1>25, <1>26, <1>27, <1>28, <1>29 DEF Refilled, t0, pos
<1> QED
  BY <1>28, <1>30 DEF r

\* The run after b has len buckets and ends before the empty bucket e.
RunUpTo(s, n, b, e, len) ==
    /\ s.table[e] = NULL /\ e # b /\ Pos(b, e, n) + len = n - 1
    /\ DOMAIN Run(s, b) = 1..len
    /\ \A m \in 1..len : /\ Run(s, b)[m] \in Spots(n)
                         /\ Pos(Run(s, b)[m], e, n) = Pos(b, e, n) + m
                         /\ s.table[Run(s, b)[m]] # NULL

\* The run after the bucket of the removed item ends at an empty bucket.
LEMMA RunEnds ==
    ASSUME NEW n \in Nat \ {0}, NEW s, s.table \in Tables(n), NEW b \in Spots(n),
           NEW free \in Spots(n), free # b, s.table[free] = NULL
    PROVE  \E len \in Nat, e \in Spots(n) : RunUpTo(s, n, b, e, len)
<1> DEFINE t == s.table
           at(k) == (b + k) % n
           ends(k) == /\ t[at(k)] = NULL
                      /\ \A m \in 1..(k - 1) : t[at(m)] # NULL
           d == CHOOSE k \in 1..n : ends(k)
           K == {k \in 1..n : t[at(k)] = NULL}
<1>1. b \in 0..(n - 1) /\ free \in 0..(n - 1) /\ n \in Nat /\ n > 0
  BY DEF Spots
<1>2. Size(s) = n
  BY TableSize DEF Size
<1>3. Run(s, b) = [m \in 1..(d - 1) |-> at(m)]
  BY <1>2, Zenon DEF Run
<1>4. \A k \in 1..n : at(k) = (IF b + k < n THEN b + k ELSE b + k - n) /\ at(k) \in Spots(n)
  <2> SUFFICES ASSUME NEW k \in 1..n
               PROVE  at(k) = (IF b + k < n THEN b + k ELSE b + k - n) /\ at(k) \in Spots(n)
    OBVIOUS
  <2>1. k \in 0..n
    OBVIOUS
  <2>2. (b + k) % n = IF b + k < n THEN b + k ELSE b + k - n
    BY <1>1, <2>1, Wraps
  <2>3. at(k) = (IF b + k < n THEN b + k ELSE b + k - n)
    BY <2>2
  <2> HIDE DEF at
  <2> QED
    BY <1>1, <2>3 DEF Spots
<1> HIDE DEF at, t
<1>5. PICK f \in 1..(n - 1) : t[at(f)] = NULL
  <2> DEFINE k == IF free > b THEN free - b ELSE (free - b) + n
  <2>1. k \in 1..(n - 1) /\ k \in 1..n /\ (IF b + k < n THEN b + k ELSE b + k - n) = free
    BY <1>1
  <2> HIDE DEF k
  <2>2. at(k) = free
    BY <1>4, <2>1
  <2> QED
    BY <2>1, <2>2 DEF t
<1>6. K # {}
  BY <1>5
<1>7. PICK k \in K : \A j \in K : k <= j
  <2>1. K \in SUBSET (1..n) /\ n \in Nat
    OBVIOUS
  <2> HIDE DEF K
  <2> QED
    BY <1>6, <2>1, MinIndex
<1>8. k \in 1..n /\ ends(k)
  BY <1>7
<1>9. d \in 1..n /\ ends(d)
  BY <1>8
<1> HIDE DEF d
<1>10. d <= n - 1
  <2> SUFFICES ASSUME d = n
               PROVE  FALSE
    BY <1>9
  <2>1. f \in 1..(d - 1)
    OBVIOUS
  <2> QED
    BY <1>5, <1>9, <2>1
<1> DEFINE e == at(d)
<1>11. e \in Spots(n) /\ t[e] = NULL /\ e = IF b + d < n THEN b + d ELSE b + d - n
  BY <1>4, <1>9
<1> HIDE DEF e
<1>12. e # b /\ Pos(b, e, n) + d = n
  BY <1>1, <1>9, <1>10, <1>11 DEF Pos, Spots
<1>13. ASSUME NEW m \in 1..(d - 1)
       PROVE  at(m) \in Spots(n) /\ Pos(at(m), e, n) = Pos(b, e, n) + m /\ t[at(m)] # NULL
  <2>1. m \in 1..n
    BY <1>9
  <2>2. at(m) = (IF b + m < n THEN b + m ELSE b + m - n) /\ at(m) \in Spots(n)
    BY <1>4, <2>1
  <2>3. Pos(at(m), e, n) = Pos(b, e, n) + m
    BY <1>1, <1>9, <1>10, <1>11, <2>1, <2>2 DEF Pos, Spots
  <2> QED
    BY <1>9, <2>2, <2>3
<1>14. d - 1 \in Nat /\ Pos(b, e, n) + (d - 1) = n - 1
  BY <1>1, <1>9, <1>11, <1>12 DEF Pos, Spots
<1>15. DOMAIN Run(s, b) = 1..(d - 1) /\ \A m \in 1..(d - 1) : Run(s, b)[m] = at(m)
  BY <1>3
<1>16. RunUpTo(s, n, b, e, d - 1)
  BY <1>11, <1>12, <1>13, <1>14, <1>15 DEF RunUpTo, t
<1> QED
  BY <1>11, <1>14, <1>16

\* What BRSetRemove adds again, one bucket after the other.
Refill(s, run) == FoldLeft(AddedAgain, s, run)

Refills(acc, s, run, len) ==
    /\ acc[0] = s
    /\ \A k \in 1..len : acc[k] = AddedAgain(acc[k - 1], run[k])
    /\ Refill(s, run) = acc[len]

RefillEquation(f, s, run) ==
    f = [d \in SUBSET DOMAIN run |->
           IF d = {} THEN s ELSE AddedAgain(f[d \ {Max(d)}], run[Max(d)])]

\* What is added again as a chain of additions.
LEMMA RefilledChain ==
    ASSUME ItemAssumption, NEW n \in Nat \ {0}, Limit(n) \in Nat,
           NEW s \in [table : Tables(n), itemCount : Int], s.itemCount <= Limit(n),
           NEW run, NEW len \in Nat, DOMAIN run = 1..len, \A m \in 1..len : run[m] \in Spots(n)
    PROVE  \E acc : Refills(acc, s, run, len)
<1> DEFINE A == {t \in [table : Tables(n), itemCount : Int] : t.itemCount <= Limit(n)}
           F == [k \in 1..len |-> [t \in A |-> AddedAgain(t, run[k])]]
<1>1. ASSUME NEW t \in A, NEW c \in Spots(n)
      PROVE  AddedAgain(t, c) \in A
  <2> DEFINE w == Emptied(t, c)
             x == t.table[c]
             r == Put(w, x)
  <2>1. w.table \in Tables(n) /\ w.itemCount = t.itemCount - 1 /\ w.itemCount \in Int
    BY DEF Emptied, Tables
  <2>2. w.itemCount + 1 <= Limit(n) /\ w.itemCount <= Limit(n)
    BY <2>1
  <2>3. x \in Items \cup {NULL} /\ Size(w) = n
    BY <2>1, TableSize DEF Tables, Size
  <2> HIDE DEF w, x
  <2>4. /\ [w.table EXCEPT ![Probe(w.table, x)] = x] \in Tables(n)
        /\ r = [table |-> [w.table EXCEPT ![Probe(w.table, x)] = x],
                itemCount |-> IF w.table[Probe(w.table, x)] = NULL THEN w.itemCount + 1
                              ELSE w.itemCount]
    BY <2>1, <2>3 DEF Put, Tables
  <2>5. r \in A
    <3>1. r.itemCount \in Int /\ r.itemCount <= Limit(n)
      BY <2>1, <2>2, <2>4
    <3>2. r \in [table : Tables(n), itemCount : Int]
      BY <2>1, <2>4
    <3> QED
      BY <3>1, <3>2
  <2>6. AddedAgain(t, c) = IF r.itemCount > Limit(n) THEN Grown(r) ELSE r
    BY <2>3 DEF AddedAgain, Added, w, x
  <2>7. ~(r.itemCount > Limit(n))
    BY <2>5
  <2> QED
    BY <2>5, <2>6, <2>7
<1>2. F \in [1..len -> [A -> A]]
  BY <1>1
<1>3. PICK g \in [SUBSET (1..len) -> A] : FoldsInOrder(g, s, F, len)
  <2>1. s \in A
    OBVIOUS
  <2> HIDE DEF F, A
  <2> QED
    BY <1>2, <2>1, FoldExists
<1>4. \A k \in 1..len, t \in A : F[k][t] = AddedAgain(t, run[k])
  OBVIOUS
<1> HIDE DEF F, A
<1>5. ASSUME NEW d \in SUBSET (1..len)
      PROVE  g[d] = IF d = {} THEN s ELSE AddedAgain(g[d \ {Max(d)}], run[Max(d)])
  <2>1. CASE d = {}
    BY <1>3, <2>1 DEF FoldsInOrder
  <2>2. CASE d # {}
    <3>1. Max(d) \in 1..len /\ d \ {Max(d)} \in SUBSET (1..len) /\ g[d] = F[Max(d)][g[d \ {Max(d)}]]
      BY <1>3, <2>2 DEF FoldsInOrder
    <3>2. g[d \ {Max(d)}] \in A
      BY <3>1
    <3> QED
      BY <1>4, <2>2, <3>1, <3>2
  <2> QED
    BY <2>1, <2>2
<1>6. RefillEquation(g, s, run)
  BY <1>5 DEF RefillEquation
<1>7. PICK f : /\ Refill(s, run) = f[DOMAIN run]
               /\ f = CHOOSE e : RefillEquation(e, s, run)
  BY DEF Refill, FoldLeft, MapThenFoldSet, RefillEquation
<1>8. RefillEquation(f, s, run)
  BY <1>6, <1>7
<1> DEFINE acc == [k \in 0..len |-> f[1..k]]
<1>9. acc[0] = s
  <2>1. 0 \in 0..len /\ 1..0 = {} /\ {} \in SUBSET DOMAIN run
    OBVIOUS
  <2> QED
    BY <1>8, <2>1 DEF RefillEquation
<1>10. ASSUME NEW k \in 1..len
       PROVE  acc[k] = AddedAgain(acc[k - 1], run[k])
  <2>1. k \in Nat /\ k # 0 /\ k \in 0..len /\ k - 1 \in 0..len /\ 1..k \in SUBSET DOMAIN run
        /\ k \in 1..k
    OBVIOUS
  <2>2. Max(1..k) = k /\ (1..k) \ {k} = 1..(k - 1)
    BY <2>1, LastPosition
  <2>3. \A d \in SUBSET DOMAIN run : d # {} => f[d] = AddedAgain(f[d \ {Max(d)}], run[Max(d)])
    BY <1>8 DEF RefillEquation
  <2>4. 1..k # {}
    BY <2>1
  <2>5. f[1..k] = AddedAgain(f[1..(k - 1)], run[k])
    BY <2>1, <2>2, <2>3, <2>4
  <2> QED
    BY <2>1, <2>5
<1>11. acc[len] = Refill(s, run)
  BY <1>7
<1> HIDE DEF acc
<1> QED
  BY <1>9, <1>10, <1>11 DEF Refills

\* BRSetRemove: what is left is well placed, and of the buckets before the one
\* that it empties none gets an item from behind.
LEMMA RemovedHolds ==
    ASSUME ItemAssumption, SizeAssumption, NEW i \in 2..Len(tableSizes),
           NEW s, Sized(s, i), NEW item \in Items
    PROVE  /\ Sized(Removed(s, item), i)
           /\ Held(Removed(s, item).table) = Held(s.table) \ Equal(item, Held(s.table))
           /\ LET b == Probe(s.table, item)
              IN  s.table[b] # NULL =>
                     \A p \in Spots(tableSizes[i]) :
                        p < b /\ Removed(s, item).table[p] # NULL =>
                           \E q \in Spots(tableSizes[i]) :
                              q < b /\ s.table[q] = Removed(s, item).table[p]
<1> DEFINE n == tableSizes[i]
           t == s.table
           b == Probe(t, item)
           E == Equal(item, Held(t))
           r == Removed(s, item)
           w == Emptied(s, b)
           run == Run(w, b)
<1>1. n \in Nat \ {0} /\ Limit(n) \in Nat /\ Limit(n) < n
  BY SizeFacts
<1>2. WellPlaced(s, n) /\ s.itemCount <= Limit(n) /\ s.itemCount \in Nat
  BY DEF Sized, WellPlaced
<1> HIDE DEF n
<1>3. s.itemCount < n /\ t \in Tables(n) /\ Distinct(t, n) /\ Reached(t, n) /\ Cardinality(Held(t)) < n
  BY <1>1, <1>2 DEF WellPlaced
<1>4. PICK free \in Spots(n) : t[free] = NULL
  BY <1>1, <1>3, BucketIsFree
<1>5. b \in Spots(n)
  BY <1>1, <1>3, <1>4, ProbeFinds
<1>6. (t[b] = NULL <=> E = {}) /\ (t[b] # NULL => E = {t[b]})
  <2>1. Found(s, item) = t[b]
    BY DEF Found
  <2> QED
    BY <1>1, <1>2, <1>3, <2>1, FoundIsEqual
<1>7. r = IF t[b] = NULL THEN s ELSE Refill(w, run)
  BY DEF Removed, Refill
<1> HIDE DEF b
<1>8. CASE t[b] = NULL
  BY <1>6, <1>7, <1>8
<1>9. CASE t[b] # NULL
  <2>1. w = [table |-> [t EXCEPT ![b] = NULL], itemCount |-> s.itemCount - 1]
    BY DEF Emptied
  <2>2. /\ w.table \in Tables(n) /\ \A p \in Spots(n) : w.table[p] = IF p = b THEN NULL ELSE t[p]
        /\ w.itemCount = s.itemCount - 1
        /\ w \in [table : Tables(n), itemCount : Int] /\ w.itemCount <= Limit(n)
    <3>1. [t EXCEPT ![b] = NULL] \in Tables(n)
      BY <1>3 DEF Tables
    <3>2. \A p \in Spots(n) : [t EXCEPT ![b] = NULL][p] = IF p = b THEN NULL ELSE t[p]
      BY <1>3 DEF Tables
    <3>3. s.itemCount - 1 \in Int /\ s.itemCount - 1 <= Limit(n)
      BY <1>1, <1>2
    <3> HIDE DEF w, t
    <3> QED
      BY <2>1, <3>1, <3>2, <3>3
  <2> HIDE DEF w
  <2>3. free # b /\ w.table[free] = NULL
    BY <1>4, <1>9, <2>2
  <2>a. PICK len \in Nat, e \in Spots(n) : RunUpTo(w, n, b, e, len)
    BY <1>1, <1>5, <2>2, <2>3, RunEnds
  <2>4. /\ w.table[e] = NULL /\ e # b /\ Pos(b, e, n) + len = n - 1
        /\ DOMAIN run = 1..len
        /\ \A m \in 1..len : /\ run[m] \in Spots(n)
                             /\ Pos(run[m], e, n) = Pos(b, e, n) + m
                             /\ w.table[run[m]] # NULL
    BY <2>a DEF RunUpTo
  <2> HIDE DEF run
  <2>b. PICK acc : Refills(acc, w, run, len)
    BY <1>1, <2>2, <2>4, RefilledChain
  <2>5. /\ acc[0] = w
        /\ \A k \in 1..len : acc[k] = AddedAgain(acc[k - 1], run[k])
        /\ Refill(w, run) = acc[len]
    BY <2>b DEF Refills
  <2>6. t[e] = NULL
    BY <2>2, <2>4
  <2> DEFINE beta == Pos(b, e, n)
             K == {k \in 0..len : /\ Refilled(acc[k], s, n, b, e, beta + k)
                                  /\ acc[k].itemCount = s.itemCount - 1}
  <2>7. beta \in Nat /\ beta + len = n - 1
    BY <1>1, <1>5, <2>4, PosBelow
  <2> HIDE DEF t
  <2>8. 0 \in K
    <3>1. Refilled(w, s, n, b, e, beta) /\ beta + 0 = beta
      BY <1>1, <1>2, <1>5, <1>9, <2>6, <2>7, EmptiedIsRefilled DEF w, t
    <3> QED
      BY <2>2, <2>5, <3>1
  <2>9. ASSUME NEW k \in K, k < len
        PROVE  k + 1 \in K
    <3> DEFINE u == acc[k]
               c == run[k + 1]
               j == beta + k
    <3>1. k \in Nat /\ k + 1 \in 1..len /\ k + 1 \in 0..len /\ (k + 1) - 1 = k
      BY <2>9
    <3>2. /\ c \in Spots(n) /\ Pos(c, e, n) = beta + (k + 1) /\ w.table[c] # NULL
          /\ acc[k + 1] = AddedAgain(u, c)
      BY <2>4, <2>5, <3>1
    <3>3. Refilled(u, s, n, b, e, j) /\ u.itemCount = s.itemCount - 1
      OBVIOUS
    <3>4. j \in Nat /\ beta <= j /\ beta + (k + 1) = j + 1
      BY <2>7, <3>1
    <3>5. t[c] # NULL
      BY <2>2, <3>2
    <3>6. u.itemCount <= Limit(n)
      BY <1>1, <1>2, <3>3
    <3> HIDE DEF u, c, j, K
    <3>7. Refilled(AddedAgain(u, c), s, n, b, e, j + 1) /\ AddedAgain(u, c).itemCount = u.itemCount
      BY <1>1, <1>2, <1>5, <1>9, <2>6, <3>2, <3>3, <3>4, <3>5, <3>6, AddedAgainIsRefilled DEF t
    <3> QED
      BY <3>1, <3>2, <3>3, <3>4, <3>7 DEF K
  <2>10. K = 0..len
    <3>1. K \in SUBSET (0..len)
      OBVIOUS
    <3> HIDE DEF K
    <3> QED
      BY <2>8, <2>9, <3>1, PrefixesReached
  <2>11. len \in K
    <3>1. len \in 0..len
      OBVIOUS
    <3> HIDE DEF K
    <3> QED
      BY <2>10, <3>1
  <2>12. Refilled(r, s, n, b, e, n - 1) /\ r.itemCount = s.itemCount - 1
    BY <1>7, <1>9, <2>5, <2>7, <2>11
  <2> HIDE DEF r, K
  <2>13. /\ r \in [table : Tables(n), itemCount : Nat]
         /\ r.itemCount = Cardinality(Held(r.table))
         /\ r.table[e] = NULL /\ Distinct(r.table, n)
         /\ Held(r.table) = Held(t) \ {t[b]}
         /\ \A p \in Spots(n) : Pos(p, e, n) < beta => r.table[p] = t[p]
         /\ InLine(r.table, n, e, n - 1)
         /\ \A p \in Spots(n) : r.table[p] # NULL /\ beta <= Pos(p, e, n) =>
               \E q \in Spots(n) : t[q] = r.table[p] /\ Pos(p, e, n) <= Pos(q, e, n)
    BY <2>12 DEF Refilled, t
  <2>14. Reached(r.table, n)
    BY <1>1, <2>13, ReachedInLine
  <2>15. WellPlaced(r, n)
    BY <2>13, <2>14 DEF WellPlaced
  <2>16. r.itemCount <= Limit(n)
    BY <1>1, <1>2, <2>12
  <2>17. Sized(r, i)
    BY <2>15, <2>16 DEF Sized, n
  <2>18. ASSUME NEW p \in Spots(n), p < b, r.table[p] # NULL
         PROVE  \E q \in Spots(n) : q < b /\ t[q] = r.table[p]
    <3>1. CASE Pos(p, e, n) < beta
      BY <2>13, <2>18, <3>1
    <3>2. CASE ~(Pos(p, e, n) < beta)
      <4>1. beta <= Pos(p, e, n)
        <5>1. Pos(p, e, n) \in Nat
          BY <1>1, PosBelow
        <5> HIDE DEF beta
        <5> QED
          BY <2>7, <3>2, <5>1
      <4>2. PICK q \in Spots(n) : t[q] = r.table[p] /\ Pos(p, e, n) <= Pos(q, e, n)
        BY <2>13, <2>18, <4>1
      <4>3. q < b
        BY <1>1, <1>5, <2>18, <4>1, <4>2, BehindStays
      <4> QED
        BY <4>2, <4>3
    <3> QED
      BY <3>1, <3>2
  <2>19. Held(r.table) = Held(t) \ E
    BY <1>6, <1>9, <2>13
  <2> QED
    BY <2>17, <2>18, <2>19 DEF r, t, n, b
<1> QED
  BY <1>8, <1>9

-----------------------------------------------------------------------------
(* Taking a set out of another *)

\* BRSetMinus, one bucket after the other.
TakenOut(t, item) == IF item = NULL THEN t ELSE Removed(t, item)

MinusEquation(f, s, o) ==
    f = [d \in SUBSET DOMAIN Buckets(o) |->
           IF d = {} THEN s
           ELSE IF Buckets(o)[Max(d)] = NULL THEN f[d \ {Max(d)}]
           ELSE Removed(f[d \ {Max(d)}], Buckets(o)[Max(d)])]

\* BRSetMinus as a chain of removals.
LEMMA WithoutChain ==
    ASSUME ItemAssumption, SizeAssumption, NEW n \in Nat \ {0}, NEW o, o.table \in Tables(n),
           NEW s \in States
    PROVE  \E acc : /\ acc[0] = s
                    /\ \A k \in 1..n : acc[k] = TakenOut(acc[k - 1], o.table[k - 1])
                    /\ Without(s, o) = acc[n]
<1> DEFINE A == States
           F == [k \in 1..n |-> [t \in A |-> TakenOut(t, o.table[k - 1])]]
<1>1. /\ DOMAIN Buckets(o) = 1..n
      /\ \A k \in 1..n : Buckets(o)[k] = o.table[k - 1] /\ Buckets(o)[k] \in Items \cup {NULL}
  BY BucketsOf
<1>2. ASSUME NEW t \in A, NEW x \in Items \cup {NULL}
      PROVE  TakenOut(t, x) \in A
  <2>1. \A i \in 2..Len(tableSizes) : Sized(t, i) /\ x # NULL => Sized(Removed(t, x), i)
    BY RemovedHolds
  <2> QED
    BY <2>1, StatesAreValid DEF TakenOut, Valid
<1>3. F \in [1..n -> [A -> A]]
  BY <1>1, <1>2
<1>4. PICK g \in [SUBSET (1..n) -> A] : FoldsInOrder(g, s, F, n)
  <2>1. s \in A /\ n \in Nat
    OBVIOUS
  <2> HIDE DEF F, A
  <2> QED
    BY <1>3, <2>1, FoldExists
<1>a. \A k \in 1..n, t \in A : F[k][t] = TakenOut(t, Buckets(o)[k])
  BY <1>1
<1> HIDE DEF F, A
<1>5. ASSUME NEW d \in SUBSET (1..n)
      PROVE  g[d] = IF d = {} THEN s
                    ELSE IF Buckets(o)[Max(d)] = NULL THEN g[d \ {Max(d)}]
                    ELSE Removed(g[d \ {Max(d)}], Buckets(o)[Max(d)])
  <2>1. CASE d = {}
    BY <1>4, <2>1 DEF FoldsInOrder
  <2>2. CASE d # {}
    <3>1. Max(d) \in 1..n /\ d \ {Max(d)} \in SUBSET (1..n) /\ g[d] = F[Max(d)][g[d \ {Max(d)}]]
      BY <1>4, <2>2 DEF FoldsInOrder
    <3>2. g[d \ {Max(d)}] \in A
      BY <3>1
    <3>3. g[d] = TakenOut(g[d \ {Max(d)}], Buckets(o)[Max(d)])
      BY <1>a, <3>1, <3>2
    <3> QED
      BY <2>2, <3>3 DEF TakenOut
  <2> QED
    BY <2>1, <2>2
<1>6. MinusEquation(g, s, o)
  BY <1>1, <1>5 DEF MinusEquation
<1>7. PICK f : /\ Without(s, o) = f[DOMAIN Buckets(o)]
               /\ f = CHOOSE e : MinusEquation(e, s, o)
  BY DEF Without, FoldLeft, MapThenFoldSet, MinusEquation
<1>8. MinusEquation(f, s, o)
  BY <1>6, <1>7
<1> DEFINE acc == [k \in 0..n |-> f[1..k]]
<1>9. acc[0] = s
  <2>1. 0 \in 0..n /\ 1..0 = {} /\ {} \in SUBSET DOMAIN Buckets(o)
    BY <1>1
  <2> QED
    BY <1>1, <1>8, <2>1 DEF MinusEquation
<1>10. ASSUME NEW k \in 1..n
       PROVE  acc[k] = TakenOut(acc[k - 1], o.table[k - 1])
  <2>1. k \in Nat /\ k # 0 /\ k \in 0..n /\ k - 1 \in 0..n /\ 1..k \in SUBSET DOMAIN Buckets(o)
        /\ k \in 1..k
    BY <1>1
  <2>2. Max(1..k) = k /\ (1..k) \ {k} = 1..(k - 1)
    BY <2>1, LastPosition
  <2>3. \A d \in SUBSET DOMAIN Buckets(o) : d # {} =>
           f[d] = TakenOut(f[d \ {Max(d)}], Buckets(o)[Max(d)])
    BY <1>8 DEF MinusEquation, TakenOut
  <2>4. 1..k # {}
    BY <2>1
  <2>5. f[1..k] = TakenOut(f[1..(k - 1)], Buckets(o)[k])
    BY <2>1, <2>2, <2>3, <2>4
  <2> QED
    BY <1>1, <2>1, <2>5
<1>11. acc[n] = Without(s, o)
  BY <1>1, <1>7
<1> HIDE DEF acc
<1> QED
  BY <1>9, <1>10, <1>11

\* BRSetMinus: what the other set has no equal of.
LEMMA WithoutHolds ==
    ASSUME ItemAssumption, SizeAssumption, NEW s, Valid(s), NEW o, Valid(o)
    PROVE  /\ Valid(Without(s, o))
           /\ Held(Without(s, o).table) = Held(s.table) \ Alike(Held(s.table), Held(o.table))
<1>1. PICK n \in Nat \ {0} : WellPlaced(o, n)
  BY SizeFacts DEF Valid, Sized
<1>2. o.table \in Tables(n)
  BY <1>1 DEF WellPlaced
<1>3. PICK acc : /\ acc[0] = s
                 /\ \A k \in 1..n : acc[k] = TakenOut(acc[k - 1], o.table[k - 1])
                 /\ Without(s, o) = acc[n]
  BY <1>2, StatesAreValid, WithoutChain
<1>4. /\ First(o, 0) = {} /\ First(o, n) = Held(o.table)
      /\ \A k \in 1..n : First(o, k) = First(o, k - 1) \cup ({o.table[k - 1]} \ {NULL})
  BY <1>2, FirstItems
<1> DEFINE H == Held(s.table)
           K == {k \in 0..n : /\ Valid(acc[k])
                              /\ Held(acc[k].table) = H \ Alike(H, First(o, k))}
<1>5. 0 \in K
  <2>1. Alike(H, First(o, 0)) = {}
    BY <1>4 DEF Alike, Equal
  <2>2. 0 \in 0..n
    OBVIOUS
  <2> HIDE DEF H
  <2>3. Held(acc[0].table) = H
    BY <1>3 DEF H
  <2> QED
    BY <1>3, <2>1, <2>2, <2>3
<1>6. ASSUME NEW k \in K, k < n
      PROVE  k + 1 \in K
  <2> DEFINE x == o.table[k]
  <2>1. k \in 0..n /\ k + 1 \in 1..n /\ (k + 1) - 1 = k /\ k + 1 \in 0..n
    BY <1>6
  <2>2. acc[k + 1] = TakenOut(acc[k], x)
    BY <1>3, <2>1
  <2>3. First(o, k + 1) = First(o, k) \cup ({x} \ {NULL})
    BY <1>4, <2>1
  <2>4. CASE x = NULL
    BY <2>1, <2>2, <2>3, <2>4 DEF TakenOut
  <2>5. CASE x # NULL
    <3>1. x \in Items
      BY <1>2, <1>6, <2>5 DEF Tables, Spots
    <3>3. First(o, k + 1) = First(o, k) \cup {x}
      BY <2>3, <2>5
    <3>4. Valid(acc[k]) /\ Held(acc[k].table) = H \ Alike(H, First(o, k))
      BY <1>6
    <3> HIDE DEF K, x, H
    <3>5. /\ Valid(Removed(acc[k], x))
          /\ Held(Removed(acc[k], x).table) = Held(acc[k].table) \ Equal(x, Held(acc[k].table))
      BY <3>1, <3>4, RemovedHolds DEF Valid
    <3>6. acc[k + 1] = Removed(acc[k], x)
      BY <2>2, <2>5 DEF TakenOut
    <3>7. (H \ Alike(H, First(o, k))) \ Equal(x, H \ Alike(H, First(o, k)))
            = H \ Alike(H, First(o, k + 1))
      BY <3>3 DEF Alike, Equal
    <3> QED
      BY <2>1, <3>4, <3>5, <3>6, <3>7 DEF K
  <2> QED
    BY <2>4, <2>5
<1>7. K = 0..n
  <2>1. n \in Nat /\ K \in SUBSET (0..n)
    OBVIOUS
  <2> HIDE DEF K
  <2> QED
    BY <1>5, <1>6, <2>1, PrefixesReached
<1>8. n \in K
  <2>1. n \in 0..n
    OBVIOUS
  <2> HIDE DEF K
  <2> QED
    BY <1>7, <2>1
<1> QED
  BY <1>3, <1>4, <1>8

-----------------------------------------------------------------------------
(* What two sets have in common *)

\* BRSetIntersect, one look after the other.
Looks(s, o, len) == FoldLeft(LAMBDA at, n : Looked(at, o), <<s, 0>>, [n \in 1..len |-> n])

LookEquation(f, s, o, len) ==
    f = [d \in SUBSET DOMAIN [n \in 1..len |-> n] |->
           IF d = {} THEN <<s, 0>> ELSE Looked(f[d \ {Max(d)}], o)]

\* Of s and bucket b: what BRSetIntersect may be at.
At(s, i, b) == Sized(s, i) /\ b \in 0..tableSizes[i]

\* A look leaves a table and a bucket of it, or the end.
LEMMA LookedIsAt ==
    ASSUME ItemAssumption, SizeAssumption, NEW i \in 2..Len(tableSizes),
           NEW s, NEW b, At(s, i, b), NEW o
    PROVE  At(Looked(<<s, b>>, o)[1], i, Looked(<<s, b>>, o)[2])
           /\ Looked(<<s, b>>, o) = <<Looked(<<s, b>>, o)[1], Looked(<<s, b>>, o)[2]>>
<1> DEFINE n == tableSizes[i]
           x == s.table[b]
<1>1. n \in Nat \ {0} /\ b \in 0..n /\ s.table \in Tables(n)
  BY SizeFacts DEF At, Sized, WellPlaced
<1>2. Size(s) = n
  BY <1>1, TableSize DEF Size
<1> HIDE DEF n, x
<1>3. Looked(<<s, b>>, o) = IF b = n THEN <<s, b>>
                            ELSE IF x # NULL /\ Found(o, x) = NULL THEN <<Removed(s, x), b>>
                            ELSE <<s, b + 1>>
  BY <1>2 DEF Looked, x
<1>4. CASE b = n
  BY <1>3, <1>4
<1>5. CASE b # n /\ x # NULL /\ Found(o, x) = NULL
  <2>1. x \in Items
    BY <1>1, <1>5 DEF Tables, Spots, x
  <2>2. Sized(Removed(s, x), i)
    BY <2>1, RemovedHolds DEF At
  <2> QED
    BY <1>3, <1>5, <2>2 DEF At
<1>6. CASE b # n /\ ~(x # NULL /\ Found(o, x) = NULL)
  <2>1. b + 1 \in 0..n
    BY <1>1, <1>6
  <2> QED
    BY <1>3, <1>6, <2>1 DEF At, n
<1> QED
  BY <1>4, <1>5, <1>6

LooksUpTo(acc, s, o, len) ==
    /\ acc[0] = <<s, 0>>
    /\ \A k \in 1..len : acc[k] = Looked(acc[k - 1], o)
    /\ Looks(s, o, len) = acc[len]

\* BRSetIntersect as a chain of looks.
LEMMA LooksChain ==
    ASSUME ItemAssumption, SizeAssumption, NEW i \in 2..Len(tableSizes),
           NEW s, Sized(s, i), NEW o, NEW len \in Nat
    PROVE  \E acc : LooksUpTo(acc, s, o, len)
<1> DEFINE A == {at \in States \X Nat : At(at[1], i, at[2])}
           F == [k \in 1..len |-> [at \in A |-> Looked(at, o)]]
           seq == [n \in 1..len |-> n]
<1>1. ASSUME NEW at \in A
      PROVE  Looked(at, o) \in A
  <2>1. at = <<at[1], at[2]>> /\ At(at[1], i, at[2])
    OBVIOUS
  <2> DEFINE l == Looked(at, o)
  <2>2. At(l[1], i, l[2]) /\ l = <<l[1], l[2]>>
    BY <2>1, LookedIsAt
  <2> HIDE DEF l
  <2>3. l[1] \in States /\ l[2] \in Nat
    BY <2>2, StatesAreValid, SizeFacts DEF At, Valid
  <2> QED
    BY <2>2, <2>3 DEF l
<1>2. F \in [1..len -> [A -> A]]
  BY <1>1
<1>3. PICK g \in [SUBSET (1..len) -> A] : FoldsInOrder(g, <<s, 0>>, F, len)
  <2>1. s \in States /\ At(s, i, 0)
    BY StatesAreValid, SizeFacts DEF At, Valid
  <2>2. <<s, 0>> \in A
    BY <2>1
  <2> HIDE DEF F, A
  <2> QED
    BY <1>2, <2>2, FoldExists
<1>4. \A k \in 1..len, t \in A : F[k][t] = Looked(t, o)
  OBVIOUS
<1> HIDE DEF F, A
<1>5. ASSUME NEW d \in SUBSET (1..len)
      PROVE  g[d] = IF d = {} THEN <<s, 0>> ELSE Looked(g[d \ {Max(d)}], o)
  <2>1. CASE d = {}
    BY <1>3, <2>1 DEF FoldsInOrder
  <2>2. CASE d # {}
    <3>1. Max(d) \in 1..len /\ d \ {Max(d)} \in SUBSET (1..len) /\ g[d] = F[Max(d)][g[d \ {Max(d)}]]
      BY <1>3, <2>2 DEF FoldsInOrder
    <3>2. g[d \ {Max(d)}] \in A
      BY <3>1
    <3> QED
      BY <1>4, <2>2, <3>1, <3>2
  <2> QED
    BY <2>1, <2>2
<1>6. LookEquation(g, s, o, len)
  BY <1>5 DEF LookEquation
<1>7. PICK f : /\ Looks(s, o, len) = f[DOMAIN seq]
               /\ f = CHOOSE e : LookEquation(e, s, o, len)
  BY DEF Looks, FoldLeft, MapThenFoldSet, LookEquation
<1>8. LookEquation(f, s, o, len)
  BY <1>6, <1>7
<1>a. DOMAIN seq = 1..len
  OBVIOUS
<1>b. \A d \in SUBSET (1..len) : f[d] = IF d = {} THEN <<s, 0>> ELSE Looked(f[d \ {Max(d)}], o)
  BY <1>8 DEF LookEquation
<1> HIDE DEF seq
<1> DEFINE acc == [k \in 0..len |-> f[1..k]]
<1>9. acc[0] = <<s, 0>>
  <2>1. 0 \in 0..len /\ 1..0 = {} /\ {} \in SUBSET (1..len)
    OBVIOUS
  <2> QED
    BY <1>b, <2>1
<1>10. ASSUME NEW k \in 1..len
       PROVE  acc[k] = Looked(acc[k - 1], o)
  <2>1. k \in Nat /\ k # 0 /\ k \in 0..len /\ k - 1 \in 0..len /\ 1..k \in SUBSET (1..len)
        /\ k \in 1..k
    OBVIOUS
  <2>2. Max(1..k) = k /\ (1..k) \ {k} = 1..(k - 1)
    BY <2>1, LastPosition
  <2>4. 1..k # {}
    BY <2>1
  <2>5. f[1..k] = Looked(f[1..(k - 1)], o)
    BY <1>b, <2>1, <2>2, <2>4
  <2> QED
    BY <2>1, <2>5
<1>11. acc[len] = Looks(s, o, len)
  BY <1>7, <1>a
<1> HIDE DEF acc
<1> QED
  BY <1>9, <1>10, <1>11 DEF LooksUpTo

\* After k looks, at bucket b of s: what is left of old has all that other has too,
\* and the buckets before b nothing else.  A look goes on or takes one item out.
Looking(s, b, old, other, i, k) ==
    /\ At(s, i, b)
    /\ Held(s.table) \subseteq Held(old.table)
    /\ Alike(Held(old.table), Held(other.table)) \subseteq Held(s.table)
    /\ \A p \in Spots(tableSizes[i]) :
          p < b /\ s.table[p] # NULL => Equal(s.table[p], Held(other.table)) # {}
    /\ b # tableSizes[i] => (tableSizes[i] - b) + s.itemCount + k <= tableSizes[i] + old.itemCount

\* The looks that are left, after one that goes on and after one that takes an item out.
LEMMA LooksLeft ==
    \A n, b, c, k, o \in Nat : (n - b) + c + k <= n + o =>
       /\ (n - (b + 1)) + c + (k + 1) <= n + o
       /\ (n - b) + (c - 1) + (k + 1) <= n + o
OBVIOUS

\* A look keeps what holds of the looks before it.
LEMMA LookedIsLooking ==
    ASSUME ItemAssumption, SizeAssumption, NEW i \in 2..Len(tableSizes),
           NEW old, Sized(old, i), NEW other, Valid(other), NEW k \in Nat,
           NEW s, NEW b, Looking(s, b, old, other, i, k)
    PROVE  \E t, c : Looked(<<s, b>>, other) = <<t, c>> /\ Looking(t, c, old, other, i, k + 1)
<1> DEFINE n == tableSizes[i]
           x == s.table[b]
           G == Held(other.table)
           H == Held(s.table)
           r == Removed(s, x)
<1>1. n \in Nat \ {0} /\ Limit(n) \in Nat /\ Limit(n) < n
  BY SizeFacts
<1>2. /\ Sized(s, i) /\ b \in 0..n
      /\ s.table \in Tables(n) /\ Distinct(s.table, n) /\ Reached(s.table, n)
      /\ s.itemCount = Cardinality(H) /\ s.itemCount \in Nat /\ s.itemCount < n
  <2>1. Sized(s, i) /\ b \in 0..n
    BY DEF Looking, At
  <2>2. WellPlaced(s, n) /\ s.itemCount <= Limit(n)
    BY <2>1 DEF Sized
  <2>3. s.itemCount \in Nat /\ s.itemCount < n
    BY <1>1, <2>2 DEF WellPlaced
  <2> QED
    BY <2>1, <2>2, <2>3 DEF WellPlaced
<1>3. /\ H \subseteq Held(old.table) /\ Alike(Held(old.table), G) \subseteq H
      /\ \A p \in Spots(n) : p < b /\ s.table[p] # NULL => Equal(s.table[p], G) # {}
      /\ b # n => (n - b) + s.itemCount + k <= n + old.itemCount
  BY DEF Looking
<1>4. old.itemCount \in Nat
  BY DEF Sized, WellPlaced
<1>5. PICK m \in Nat \ {0} : WellPlaced(other, m) /\ other.itemCount < m
  <2>1. PICK l \in 2..Len(tableSizes) : Sized(other, l)
    BY DEF Valid
  <2>2. tableSizes[l] \in Nat \ {0} /\ Limit(tableSizes[l]) \in Nat /\ Limit(tableSizes[l]) < tableSizes[l]
    BY SizeFacts
  <2>3. WellPlaced(other, tableSizes[l]) /\ other.itemCount <= Limit(tableSizes[l]) /\ other.itemCount \in Nat
    BY <2>1 DEF Sized, WellPlaced
  <2>4. other.itemCount < tableSizes[l]
    BY <2>2, <2>3
  <2> QED
    BY <2>2, <2>3, <2>4
<1>6. Size(s) = n
  BY <1>1, <1>2, TableSize DEF Size
<1>7. Looked(<<s, b>>, other) = IF b = n THEN <<s, b>>
                                ELSE IF x # NULL /\ Found(other, x) = NULL THEN <<r, b>>
                                ELSE <<s, b + 1>>
  BY <1>6 DEF Looked
<1> HIDE DEF n
<1>8. b # n => b \in Spots(n)
  BY <1>1, <1>2 DEF Spots
<1>9. b # n /\ x # NULL => x \in Items
  BY <1>2, <1>8 DEF Tables
<1>10. b # n /\ x # NULL => (Found(other, x) = NULL <=> Equal(x, G) = {})
  BY <1>5, <1>9, FoundIsEqual
<1> HIDE DEF x, r, G, H
<1>11. CASE b = n
  BY <1>2, <1>3, <1>7, <1>11 DEF Looking, At, n, G, H
<1>12. CASE b # n /\ x # NULL /\ Found(other, x) = NULL
  <2>1. x \in Items /\ b \in Spots(n) /\ Equal(x, G) = {}
    BY <1>8, <1>9, <1>10, <1>12
  <2>2. \E e \in Spots(n) : s.table[e] = NULL
    BY <1>1, <1>2, BucketIsFree DEF H
  <2>3. Probe(s.table, x) = b
    BY <1>1, <1>2, <1>12, <2>1, <2>2, ProbeFindsEqual DEF x
  <2>4. /\ Sized(r, i) /\ Held(r.table) = H \ Equal(x, H)
        /\ \A p \in Spots(n) : p < b /\ r.table[p] # NULL =>
              \E q \in Spots(n) : q < b /\ s.table[q] = r.table[p]
    <3>1. Sized(Removed(s, x), i)
      BY <1>2, <2>1, RemovedHolds
    <3>2. Held(Removed(s, x).table) = Held(s.table) \ Equal(x, Held(s.table))
      BY <1>2, <2>1, RemovedHolds
    <3>a. s.table[Probe(s.table, x)] # NULL =>
             \A p \in Spots(tableSizes[i]) :
                p < Probe(s.table, x) /\ Removed(s, x).table[p] # NULL =>
                   \E q \in Spots(tableSizes[i]) :
                      q < Probe(s.table, x) /\ s.table[q] = Removed(s, x).table[p]
      BY <1>2, <2>1, RemovedHolds
    <3>3. s.table[b] # NULL =>
             \A p \in Spots(tableSizes[i]) :
                p < b /\ Removed(s, x).table[p] # NULL =>
                   \E q \in Spots(tableSizes[i]) :
                      q < b /\ s.table[q] = Removed(s, x).table[p]
      BY <2>3, <3>a, Zenon
    <3> QED
      BY <1>12, <3>1, <3>2, <3>3 DEF r, H, n, x
  <2>5. At(r, i, b)
    BY <1>2, <2>4 DEF At, n
  <2>6. Held(r.table) \subseteq Held(old.table)
    BY <1>3, <2>4
  <2>7. Alike(Held(old.table), G) \subseteq Held(r.table)
    <3>1. \A y : Key[y] = Key[x] => Equal(y, G) = {}
      BY <2>1 DEF Equal
    <3> QED
      BY <1>3, <2>4, <3>1 DEF Alike, Equal
  <2>8. \A p \in Spots(n) : p < b /\ r.table[p] # NULL => Equal(r.table[p], G) # {}
    <3> SUFFICES ASSUME NEW p \in Spots(n), p < b, r.table[p] # NULL
                 PROVE  Equal(r.table[p], G) # {}
      OBVIOUS
    <3>1. PICK q \in Spots(n) : q < b /\ s.table[q] = r.table[p]
      BY <2>4
    <3>2. Equal(s.table[q], G) # {}
      BY <1>3, <3>1
    <3> QED
      BY <3>1, <3>2
  <2>9. r.itemCount = s.itemCount - 1
    <3>1. IsFiniteSet(H) /\ x \in H
      BY <1>1, <1>2, <1>12, <2>1, HeldItems DEF x, H
    <3>2. Equal(x, H) = {x}
      <4>1. x \in Equal(x, H)
        BY <3>1 DEF Equal
      <4>2. Found(s, x) = x
        BY <2>3 DEF Found, x
      <4>3. WellPlaced(s, n)
        BY <1>2 DEF Sized, n
      <4>4. Found(s, x) # NULL => Equal(x, H) = {Found(s, x)}
        BY <1>1, <1>2, <2>1, <4>3, FoundIsEqual DEF H
      <4> QED
        BY <1>12, <4>2, <4>4
    <3>3. Cardinality(H \ {x}) = Cardinality(H) - 1
      BY <3>1, FS_RemoveElement
    <3>4. r.itemCount = Cardinality(Held(r.table))
      BY <2>4 DEF Sized, WellPlaced
    <3> QED
      BY <1>2, <2>4, <3>2, <3>3, <3>4
  <2>10. (n - b) + r.itemCount + (k + 1) <= n + old.itemCount
    <3>1. /\ n \in Nat /\ b \in Nat /\ s.itemCount \in Nat /\ old.itemCount \in Nat
          /\ (n - b) + s.itemCount + k <= n + old.itemCount
      BY <1>1, <1>2, <1>3, <1>4, <1>12
    <3>2. (n - b) + (s.itemCount - 1) + (k + 1) <= n + old.itemCount
      BY <3>1, LooksLeft, Zenon
    <3> QED
      BY <2>9, <3>2, Zenon
  <2>11. Looking(r, b, old, other, i, k + 1)
    BY <2>5, <2>6, <2>7, <2>8, <2>10 DEF Looking, n, G
  <2> QED
    BY <1>7, <1>12, <2>11
<1>13. CASE b # n /\ ~(x # NULL /\ Found(other, x) = NULL)
  <2>1. b + 1 \in 0..n /\ b \in Spots(n)
    BY <1>1, <1>2, <1>8, <1>13
  <2>2. At(s, i, b + 1)
    BY <1>2, <2>1 DEF At, n
  <2>3. \A p \in Spots(n) : p < b + 1 /\ s.table[p] # NULL => Equal(s.table[p], G) # {}
    <3> SUFFICES ASSUME NEW p \in Spots(n), p < b + 1, s.table[p] # NULL
                 PROVE  Equal(s.table[p], G) # {}
      OBVIOUS
    <3>1. CASE p = b
      BY <1>10, <1>13, <3>1 DEF x
    <3>2. CASE p # b
      <4>1. p < b
        BY <1>1, <2>1, <3>2 DEF Spots
      <4> QED
        BY <1>3, <4>1
    <3> QED
      BY <3>1, <3>2
  <2>4. (n - (b + 1)) + s.itemCount + (k + 1) <= n + old.itemCount
    <3>1. /\ n \in Nat /\ b \in Nat /\ s.itemCount \in Nat /\ old.itemCount \in Nat
          /\ (n - b) + s.itemCount + k <= n + old.itemCount
      BY <1>1, <1>2, <1>3, <1>4, <1>13
    <3> QED
      BY <3>1, LooksLeft, Zenon
  <2>5. Looking(s, b + 1, old, other, i, k + 1)
    BY <1>3, <2>2, <2>3, <2>4 DEF Looking, n, G, H
  <2> QED
    BY <1>7, <1>13, <2>5
<1> QED
  BY <1>11, <1>12, <1>13

\* BRSetIntersect: what the other set has an equal of.
LEMMA IntersectedHolds ==
    ASSUME ItemAssumption, SizeAssumption, NEW s, Valid(s), NEW o, Valid(o)
    PROVE  /\ Valid(Intersected(s, o))
           /\ Held(Intersected(s, o).table) = Alike(Held(s.table), Held(o.table))
<1>1. PICK i \in 2..Len(tableSizes) : Sized(s, i)
  BY DEF Valid
<1> DEFINE n == tableSizes[i]
           len == n + s.itemCount
<1>2. n \in Nat \ {0}
  BY SizeFacts
<1>3. s.table \in Tables(n) /\ s.itemCount \in Nat
  BY <1>1 DEF Sized, WellPlaced
<1> HIDE DEF n
<1>4. len \in Nat
  BY <1>2, <1>3
<1>5. Size(s) = n
  BY <1>2, <1>3, TableSize DEF Size
<1>6. Intersected(s, o) = Looks(s, o, len)[1]
  BY <1>5 DEF Intersected, Looks
<1> HIDE DEF len
<1>a. PICK acc : LooksUpTo(acc, s, o, len)
  BY <1>1, <1>4, LooksChain
<1>7. /\ acc[0] = <<s, 0>>
      /\ \A k \in 1..len : acc[k] = Looked(acc[k - 1], o)
      /\ Looks(s, o, len) = acc[len]
  BY <1>a DEF LooksUpTo
<1> DEFINE K == {k \in 0..len : \E t, c : acc[k] = <<t, c>> /\ Looking(t, c, s, o, i, k)}
<1>8. 0 \in K
  <2>1. Alike(Held(s.table), Held(o.table)) \subseteq Held(s.table)
    BY DEF Alike
  <2>2. \A p \in Spots(n) : ~(p < 0)
    BY <1>2 DEF Spots
  <2>3. (n - 0) + s.itemCount + 0 <= n + s.itemCount
    BY <1>2, <1>3
  <2>4. At(s, i, 0)
    BY <1>1, <1>2 DEF At, n
  <2>5. Looking(s, 0, s, o, i, 0)
    BY <2>1, <2>2, <2>3, <2>4 DEF Looking, n
  <2>6. 0 \in 0..len
    BY <1>4
  <2> QED
    BY <1>7, <2>5, <2>6
<1>9. ASSUME NEW k \in K, k < len
      PROVE  k + 1 \in K
  <2>1. k \in Nat /\ k + 1 \in 1..len /\ k + 1 \in 0..len /\ (k + 1) - 1 = k
    BY <1>4, <1>9
  <2>2. PICK t, c : acc[k] = <<t, c>> /\ Looking(t, c, s, o, i, k)
    OBVIOUS
  <2>3. acc[k + 1] = Looked(<<t, c>>, o)
    BY <1>7, <2>1, <2>2
  <2>4. \E u, d : Looked(<<t, c>>, o) = <<u, d>> /\ Looking(u, d, s, o, i, k + 1)
    BY <1>1, <2>1, <2>2, LookedIsLooking
  <2> QED
    BY <2>1, <2>3, <2>4
<1>10. K = 0..len
  <2>1. K \in SUBSET (0..len)
    OBVIOUS
  <2> HIDE DEF K
  <2> QED
    BY <1>4, <1>8, <1>9, <2>1, PrefixesReached
<1>11. len \in K
  <2>1. len \in 0..len
    BY <1>4
  <2> HIDE DEF K
  <2> QED
    BY <1>10, <2>1
<1>12. PICK t, c : acc[len] = <<t, c>> /\ Looking(t, c, s, o, i, len)
  BY <1>11
<1>13. Intersected(s, o) = t
  BY <1>6, <1>7, <1>12
<1>14. /\ Sized(t, i) /\ c \in 0..n
       /\ Held(t.table) \subseteq Held(s.table)
       /\ Alike(Held(s.table), Held(o.table)) \subseteq Held(t.table)
       /\ \A p \in Spots(n) : p < c /\ t.table[p] # NULL => Equal(t.table[p], Held(o.table)) # {}
       /\ c # n => (n - c) + t.itemCount + len <= n + s.itemCount
  BY <1>12 DEF Looking, At, n
<1>15. t.table \in Tables(n) /\ t.itemCount \in Nat
  BY <1>14 DEF Sized, WellPlaced, n
<1>16. c = n
  <2> SUFFICES ASSUME c # n
               PROVE  FALSE
    OBVIOUS
  <2>1. (n - c) + t.itemCount <= 0
    BY <1>2, <1>3, <1>14, <1>15 DEF len
  <2>2. c < n
    BY <1>2, <1>14
  <2> QED
    BY <1>2, <1>14, <1>15, <2>1, <2>2
<1>17. Held(t.table) \subseteq Alike(Held(s.table), Held(o.table))
  <2> SUFFICES ASSUME NEW x \in Held(t.table)
               PROVE  Equal(x, Held(o.table)) # {}
    BY <1>14 DEF Alike
  <2>1. PICK p \in Spots(n) : x = t.table[p] /\ t.table[p] # NULL
    BY <1>2, <1>15, TableSize DEF Held
  <2>2. p < c
    BY <1>2, <1>16 DEF Spots
  <2> QED
    BY <1>14, <2>1, <2>2
<1> QED
  BY <1>13, <1>14, <1>17 DEF Valid

-----------------------------------------------------------------------------
(* All the sets *)

SetInv ==
    /\ set \in [Sets -> States]
    /\ result \in Items \cup {NULL}

Members == [s \in Sets |-> ItemsOf(set[s])]

\* The items of the abstract set are what the table holds.
LEMMA ItemsAreHeld ==
    ASSUME NEW s
    PROVE  ItemsOf(s) = Held(s.table)
BY DEF ItemsOf, Held

\* What is found is what the abstract operations return.
LEMMA FoundIsReturned ==
    ASSUME ItemAssumption, SizeAssumption, NEW s, Valid(s), NEW item \in Items
    PROVE  LET E == Equal(item, ItemsOf(s))
           IN  /\ Found(s, item) \in Items \cup {NULL}
               /\ Found(s, item) = IF E = {} THEN NULL ELSE CHOOSE x \in E : TRUE
<1> DEFINE E == Equal(item, ItemsOf(s))
<1>1. PICK i \in 2..Len(tableSizes) : Sized(s, i)
  BY DEF Valid
<1> DEFINE n == tableSizes[i]
<1>2. n \in Nat \ {0} /\ Limit(n) \in Nat /\ Limit(n) < n
  BY SizeFacts
<1>3. WellPlaced(s, n) /\ s.itemCount <= Limit(n) /\ s.itemCount \in Nat
  BY <1>1 DEF Sized, WellPlaced
<1>4. s.itemCount < n
  BY <1>2, <1>3
<1>5. E = Equal(item, Held(s.table))
  BY ItemsAreHeld
<1> HIDE DEF n
<1>6. (Found(s, item) = NULL <=> E = {}) /\ (Found(s, item) # NULL => E = {Found(s, item)})
  BY <1>2, <1>3, <1>4, <1>5, FoundIsEqual
<1>7. Held(s.table) \subseteq Items
  BY <1>2, <1>3, HeldItems DEF WellPlaced
<1>8. E \subseteq Items
  BY <1>5, <1>7 DEF Equal
<1> HIDE DEF E
<1>9. Found(s, item) \in Items \cup {NULL}
  BY <1>6, <1>8
<1>10. CASE E = {}
  BY <1>6, <1>9, <1>10 DEF E
<1>11. CASE E # {}
  <2>1. E = {Found(s, item)}
    BY <1>6, <1>11
  <2>2. (CHOOSE x \in {Found(s, item)} : TRUE) = Found(s, item)
    OBVIOUS
  <2> QED
    BY <1>9, <1>11, <2>1, <2>2 DEF E
<1> QED
  BY <1>10, <1>11

\* An operation changes one of the sets.
LEMMA OneSetChanges ==
    ASSUME set \in [Sets -> States], NEW s \in Sets, NEW v, Valid(v),
           set' = [set EXCEPT ![s] = v]
    PROVE  /\ (set \in [Sets -> States])'
           /\ Members' = [Members EXCEPT ![s] = ItemsOf(v)]
<1>1. v \in States
  BY StatesAreValid
<1>2. set' \in [Sets -> States]
  BY <1>1
<1>3. Members' = [r \in Sets |-> ItemsOf(set'[r])]
  BY DEF Members
<1>4. \A r \in Sets : set'[r] = IF r = s THEN v ELSE set[r]
  OBVIOUS
<1> QED
  BY <1>2, <1>3, <1>4 DEF Members

\* What the invariant says of one set.
LEMMA SetsAreValid ==
    ASSUME SetInv, NEW s \in Sets
    PROVE  Valid(set[s]) /\ Members[s] = Held(set[s].table)
BY StatesAreValid, ItemsAreHeld DEF SetInv, Members

\* BRSetAdd is what the header says.
LEMMA AddStep ==
    ASSUME ItemAssumption, SizeAssumption, SetInv,
           NEW s \in Sets, NEW item \in Items, BRSetAdd(s, item)
    PROVE  SetInv' /\ Abstract!Add(s, item)
<1> DEFINE v == Added(set[s], item)
           E == Equal(item, ItemsOf(set[s]))
<1>1. Valid(set[s]) /\ Members[s] = Held(set[s].table)
  BY SetsAreValid
<1>2. set' = [set EXCEPT ![s] = v] /\ result' = Found(set[s], item)
  BY DEF BRSetAdd
<1>3. Valid(v) /\ ItemsOf(v) = (Members[s] \ Equal(item, Members[s])) \cup {item}
  <2>1. PICK i \in 2..Len(tableSizes) : Sized(set[s], i)
    BY <1>1 DEF Valid
  <2>2. Valid(v)
    BY <2>1, AddedHolds
  <2>3. Held(v.table) = (Held(set[s].table) \ Equal(item, Held(set[s].table))) \cup {item}
    BY <2>1, AddedHolds
  <2> QED
    BY <1>1, <2>2, <2>3, ItemsAreHeld
<1> HIDE DEF v
<1>4. /\ (set \in [Sets -> States])'
      /\ Members' = [Members EXCEPT ![s] = ItemsOf(v)]
  BY <1>2, <1>3, OneSetChanges DEF SetInv
<1>5. /\ result' \in Items \cup {NULL}
      /\ result' = IF E = {} THEN NULL ELSE CHOOSE x \in E : TRUE
  BY <1>1, <1>2, FoundIsReturned
<1>6. E = Equal(item, Members[s])
  BY DEF Members
<1> HIDE DEF E
<1>7. SetInv'
  BY <1>4, <1>5 DEF SetInv
<1>8. Abstract!EqualTo(item, Members[s]) = E
  BY <1>6 DEF Abstract!EqualTo, Equal
<1>9. Members' = [Members EXCEPT ![s] = (@ \ E) \cup {item}]
  BY <1>3, <1>4, <1>6 DEF Members
<1>10. Abstract!Returns(E)
  BY <1>5 DEF Abstract!Returns, Abstract!NULL, NULL
<1> QED
  BY <1>7, <1>8, <1>9, <1>10 DEF Abstract!Add, Members

\* BRSetRemove is what the header says.
LEMMA RemoveStep ==
    ASSUME ItemAssumption, SizeAssumption, SetInv,
           NEW s \in Sets, NEW item \in Items, BRSetRemove(s, item)
    PROVE  SetInv' /\ Abstract!Remove(s, item)
<1> DEFINE v == Removed(set[s], item)
           E == Equal(item, ItemsOf(set[s]))
<1>1. Valid(set[s]) /\ Members[s] = Held(set[s].table)
  BY SetsAreValid
<1>2. set' = [set EXCEPT ![s] = v] /\ result' = Found(set[s], item)
  BY DEF BRSetRemove
<1>3. Valid(v) /\ ItemsOf(v) = Members[s] \ Equal(item, Members[s])
  <2>1. PICK i \in 2..Len(tableSizes) : Sized(set[s], i)
    BY <1>1 DEF Valid
  <2>2. Sized(v, i)
    BY <2>1, RemovedHolds
  <2>3. Held(v.table) = Held(set[s].table) \ Equal(item, Held(set[s].table))
    BY <2>1, RemovedHolds
  <2>4. Valid(v)
    BY <2>2 DEF Valid
  <2> QED
    BY <1>1, <2>3, <2>4, ItemsAreHeld
<1> HIDE DEF v
<1>4. /\ (set \in [Sets -> States])'
      /\ Members' = [Members EXCEPT ![s] = ItemsOf(v)]
  BY <1>2, <1>3, OneSetChanges DEF SetInv
<1>5. /\ result' \in Items \cup {NULL}
      /\ result' = IF E = {} THEN NULL ELSE CHOOSE x \in E : TRUE
  BY <1>1, <1>2, FoundIsReturned
<1>6. E = Equal(item, Members[s])
  BY DEF Members
<1> HIDE DEF E
<1>7. SetInv'
  BY <1>4, <1>5 DEF SetInv
<1>8. Abstract!EqualTo(item, Members[s]) = E
  BY <1>6 DEF Abstract!EqualTo, Equal
<1>9. Members' = [Members EXCEPT ![s] = @ \ E]
  BY <1>3, <1>4, <1>6 DEF Members
<1>10. Abstract!Returns(E)
  BY <1>5 DEF Abstract!Returns, Abstract!NULL, NULL
<1> QED
  BY <1>7, <1>8, <1>9, <1>10 DEF Abstract!Remove, Members

\* BRSetGet is what the header says.
LEMMA GetStep ==
    ASSUME ItemAssumption, SizeAssumption, SetInv,
           NEW s \in Sets, NEW item \in Items, BRSetGet(s, item)
    PROVE  SetInv' /\ Abstract!Get(s, item)
<1> DEFINE E == Equal(item, ItemsOf(set[s]))
<1>1. Valid(set[s])
  BY SetsAreValid
<1>2. set' = set /\ result' = Found(set[s], item)
  BY DEF BRSetGet
<1>3. /\ result' \in Items \cup {NULL}
      /\ result' = IF E = {} THEN NULL ELSE CHOOSE x \in E : TRUE
  BY <1>1, <1>2, FoundIsReturned
<1>4. E = Equal(item, Members[s])
  BY DEF Members
<1> HIDE DEF E
<1>5. SetInv'
  BY <1>2, <1>3 DEF SetInv
<1>6. Abstract!EqualTo(item, Members[s]) = E
  BY <1>4 DEF Abstract!EqualTo, Equal
<1>7. Members' = Members
  BY <1>2 DEF Members
<1>8. Abstract!Returns(E)
  BY <1>3 DEF Abstract!Returns, Abstract!NULL, NULL
<1> QED
  BY <1>5, <1>6, <1>7, <1>8 DEF Abstract!Get, Members

\* BRSetClear, and the operations on two sets: one of them gets other items.
LEMMA BecomesStep ==
    ASSUME SetInv, NEW s \in Sets, NEW v, Valid(v),
           set' = [set EXCEPT ![s] = v], UNCHANGED result
    PROVE  SetInv' /\ Abstract!Becomes(s, ItemsOf(v))
<1>1. /\ (set \in [Sets -> States])'
      /\ Members' = [Members EXCEPT ![s] = ItemsOf(v)]
  BY OneSetChanges DEF SetInv
<1>2. SetInv'
  BY <1>1 DEF SetInv
<1> QED
  BY <1>1, <1>2 DEF Abstract!Becomes, Members

\* BRSetClear leaves the empty set.
LEMMA ClearStep ==
    ASSUME ItemAssumption, SizeAssumption, SetInv, NEW s \in Sets, BRSetClear(s)
    PROVE  SetInv' /\ Abstract!Becomes(s, {})
<1> DEFINE v == [table |-> [b \in DOMAIN set[s].table |-> NULL], itemCount |-> 0]
<1>1. PICK i \in 2..Len(tableSizes) : Sized(set[s], i)
  BY SetsAreValid DEF Valid
<1> DEFINE n == tableSizes[i]
<1>2. n \in Nat \ {0} /\ Limit(n) \in Nat
  BY SizeFacts
<1>3. DOMAIN set[s].table = Spots(n)
  BY <1>1, <1>2, TableSize DEF Sized, WellPlaced
<1> HIDE DEF n
<1>4. v = [table |-> [b \in Spots(n) |-> NULL], itemCount |-> 0]
  BY <1>3
<1>5. /\ v.table \in Tables(n) /\ v.itemCount = 0 /\ v \in [table : Tables(n), itemCount : Nat]
      /\ \A b \in Spots(n) : v.table[b] = NULL
      /\ DOMAIN v.table = Spots(n)
  BY <1>4 DEF Tables
<1>6. set' = [set EXCEPT ![s] = v] /\ UNCHANGED result
  BY DEF BRSetClear, SetInv
<1> HIDE DEF v
<1>7. Held(v.table) = {}
  BY <1>5 DEF Held
<1>8. Distinct(v.table, n) /\ Reached(v.table, n)
  BY <1>5 DEF Distinct, Reached
<1>9. WellPlaced(v, n) /\ v.itemCount <= Limit(n)
  BY <1>2, <1>5, <1>7, <1>8, FS_EmptySet DEF WellPlaced
<1>10. Valid(v)
  BY <1>9 DEF Valid, Sized, n
<1>11. ItemsOf(v) = {}
  BY <1>7, ItemsAreHeld
<1> QED
  BY <1>6, <1>10, <1>11, BecomesStep

\* BRSetUnion is what the header says.
LEMMA UnionStep ==
    ASSUME ItemAssumption, SizeAssumption, SetInv,
           NEW s \in Sets, NEW o \in Sets, BRSetUnion(s, o)
    PROVE  /\ SetInv'
           /\ Abstract!Becomes(s, (Members[s] \ Abstract!Among(Members[s], Members[o])) \cup Members[o])
<1> DEFINE v == United(set[s], set[o])
<1>1. /\ Valid(set[s]) /\ Members[s] = Held(set[s].table)
      /\ Valid(set[o]) /\ Members[o] = Held(set[o].table)
  BY SetsAreValid
<1>2. Valid(v)
  BY <1>1, UnitedHolds
<1>3. Held(v.table) = (Members[s] \ Alike(Members[s], Members[o])) \cup Members[o]
  <2>1. Held(United(set[s], set[o]).table)
           = (Held(set[s].table) \ Alike(Held(set[s].table), Held(set[o].table)))
                \cup Held(set[o].table)
    BY <1>1, UnitedHolds
  <2> QED
    BY <1>1, <2>1, Zenon
<1>4. set' = [set EXCEPT ![s] = v] /\ UNCHANGED result
  BY DEF BRSetUnion, SetInv
<1> HIDE DEF v
<1>5. ItemsOf(v) = (Members[s] \ Abstract!Among(Members[s], Members[o])) \cup Members[o]
  BY <1>3, ItemsAreHeld DEF Abstract!Among, Abstract!EqualTo, Alike, Equal
<1>6. SetInv' /\ Abstract!Becomes(s, ItemsOf(v))
  BY <1>2, <1>4, BecomesStep
<1> QED
  BY <1>5, <1>6

\* BRSetMinus is what the header says.
LEMMA MinusStep ==
    ASSUME ItemAssumption, SizeAssumption, SetInv,
           NEW s \in Sets, NEW o \in Sets, BRSetMinus(s, o)
    PROVE  /\ SetInv'
           /\ Abstract!Becomes(s, Members[s] \ Abstract!Among(Members[s], Members[o]))
<1> DEFINE v == Without(set[s], set[o])
<1>1. /\ Valid(set[s]) /\ Members[s] = Held(set[s].table)
      /\ Valid(set[o]) /\ Members[o] = Held(set[o].table)
  BY SetsAreValid
<1>2. Valid(v)
  BY <1>1, WithoutHolds
<1>3. Held(v.table) = Members[s] \ Alike(Members[s], Members[o])
  BY <1>1, WithoutHolds
<1>4. set' = [set EXCEPT ![s] = v] /\ UNCHANGED result
  BY DEF BRSetMinus, SetInv
<1> HIDE DEF v
<1>5. ItemsOf(v) = Members[s] \ Abstract!Among(Members[s], Members[o])
  BY <1>3, ItemsAreHeld DEF Abstract!Among, Abstract!EqualTo, Alike, Equal
<1>6. SetInv' /\ Abstract!Becomes(s, ItemsOf(v))
  BY <1>2, <1>4, BecomesStep
<1> QED
  BY <1>5, <1>6

\* BRSetIntersect is what the header says.
LEMMA IntersectStep ==
    ASSUME ItemAssumption, SizeAssumption, SetInv,
           NEW s \in Sets, NEW o \in Sets, BRSetIntersect(s, o)
    PROVE  /\ SetInv'
           /\ Abstract!Becomes(s, Abstract!Among(Members[s], Members[o]))
<1> DEFINE v == Intersected(set[s], set[o])
<1>1. /\ Valid(set[s]) /\ Members[s] = Held(set[s].table)
      /\ Valid(set[o]) /\ Members[o] = Held(set[o].table)
  BY SetsAreValid
<1>2. Valid(v)
  BY <1>1, IntersectedHolds
<1>3. Held(v.table) = Alike(Members[s], Members[o])
  BY <1>1, IntersectedHolds
<1>4. set' = [set EXCEPT ![s] = v] /\ UNCHANGED result
  BY DEF BRSetIntersect, SetInv
<1> HIDE DEF v
<1>5. ItemsOf(v) = Abstract!Among(Members[s], Members[o])
  BY <1>3, ItemsAreHeld DEF Abstract!Among, Abstract!EqualTo, Alike, Equal
<1>6. SetInv' /\ Abstract!Becomes(s, ItemsOf(v))
  BY <1>2, <1>4, BecomesStep
<1> QED
  BY <1>5, <1>6

\* The new sets satisfy the invariant and are empty.
LEMMA SetInvInit ==
    ASSUME ItemAssumption, SizeAssumption, CapacityAssumption, Init
    PROVE  SetInv /\ Abstract!Init
<1>1. \A c \in Capacities : Valid(New(c)) /\ ItemsOf(New(c)) = {}
  <2> SUFFICES ASSUME NEW c \in Capacities
               PROVE  Valid(New(c)) /\ ItemsOf(New(c)) = {}
    OBVIOUS
  <2>1. PICK i \in 2..Len(tableSizes) : NewSize(c) = tableSizes[i]
    BY CapacityHasSize
  <2>2. Sized(New(c), i)
    BY <2>1, NewIsSized
  <2>3. Held(New(c).table) = {}
    BY <2>1, NewIsSized
  <2> QED
    BY <2>2, <2>3, ItemsAreHeld DEF Valid
<1>2. \A s \in Sets : \E c \in Capacities : set[s] = New(c)
  BY DEF Init
<1>3. set \in [Sets -> States]
  <2>1. \A c \in Capacities : New(c) \in States
    BY <1>1, StatesAreValid
  <2> QED
    BY <2>1 DEF Init
<1>4. SetInv
  BY <1>3 DEF SetInv, Init
<1>5. \A s \in Sets : ItemsOf(set[s]) = {}
  BY <1>1, <1>2
<1>6. Abstract!Init
  BY <1>5 DEF Abstract!Init, Init, Abstract!NULL, NULL
<1> QED
  BY <1>4, <1>6

\* Every step keeps the invariant, and is one of the abstract sets.
LEMMA SetInvStep ==
    ASSUME ItemAssumption, SizeAssumption, SetInv, [Next]_vars
    PROVE  SetInv' /\ [Abstract!Next]_(Abstract!vars)
<1>1. ASSUME NEW s \in Sets, NEW item \in Items, BRSetAdd(s, item)
      PROVE  SetInv' /\ Abstract!Next
  <2>1. SetInv' /\ Abstract!Add(s, item)
    BY <1>1, AddStep
  <2> QED
    BY <2>1 DEF Abstract!Next
<1>2. ASSUME NEW s \in Sets, NEW item \in Items, BRSetRemove(s, item)
      PROVE  SetInv' /\ Abstract!Next
  <2>1. SetInv' /\ Abstract!Remove(s, item)
    BY <1>2, RemoveStep
  <2> QED
    BY <2>1 DEF Abstract!Next
<1>3. ASSUME NEW s \in Sets, NEW item \in Items, BRSetGet(s, item)
      PROVE  SetInv' /\ Abstract!Next
  <2>1. SetInv' /\ Abstract!Get(s, item)
    BY <1>3, GetStep
  <2> QED
    BY <2>1 DEF Abstract!Next
<1>4. ASSUME NEW s \in Sets, BRSetClear(s)
      PROVE  SetInv' /\ Abstract!Next
  <2>1. SetInv' /\ Abstract!Becomes(s, {})
    BY <1>4, ClearStep
  <2> QED
    BY <2>1 DEF Abstract!Next
<1>5. ASSUME NEW s \in Sets, NEW o \in Sets, BRSetUnion(s, o)
      PROVE  SetInv' /\ Abstract!Next
  <2>1. /\ SetInv'
        /\ Abstract!Becomes(s, (Members[s] \ Abstract!Among(Members[s], Members[o])) \cup Members[o])
    BY <1>5, UnionStep
  <2> QED
    BY <2>1 DEF Abstract!Next, Members
<1>6. ASSUME NEW s \in Sets, NEW o \in Sets, BRSetMinus(s, o)
      PROVE  SetInv' /\ Abstract!Next
  <2>1. /\ SetInv'
        /\ Abstract!Becomes(s, Members[s] \ Abstract!Among(Members[s], Members[o]))
    BY <1>6, MinusStep
  <2> QED
    BY <2>1 DEF Abstract!Next, Members
<1>7. ASSUME NEW s \in Sets, NEW o \in Sets, BRSetIntersect(s, o)
      PROVE  SetInv' /\ Abstract!Next
  <2>1. /\ SetInv'
        /\ Abstract!Becomes(s, Abstract!Among(Members[s], Members[o]))
    BY <1>7, IntersectStep
  <2> QED
    BY <2>1 DEF Abstract!Next, Members
<1>8. CASE UNCHANGED vars
  BY <1>8 DEF vars, SetInv, Abstract!vars
<1> QED
  BY <1>1, <1>2, <1>3, <1>4, <1>5, <1>6, <1>7, <1>8 DEF Next

\* In every table an item is reached from the bucket of its hash through buckets that
\* are not empty, no two items are equal, the count is that of the items, and the table
\* has grown before it was full, whatever was added, replaced and removed in whatever
\* order (SetInv: BRSet.c:98-154).
THEOREM TablesInvariant == Spec => []SetInv
<1>1. Init => SetInv
  BY SetInvInit, ItemAssumption, SizeAssumption, CapacityAssumption
<1>2. SetInv /\ [Next]_vars => SetInv'
  BY SetInvStep, ItemAssumption, SizeAssumption
<1> QED
  BY <1>1, <1>2, PTL DEF Spec

\* The invariant gives the types.
LEMMA SetInvTypes ==
    ASSUME SizeAssumption, SetInv
    PROVE  TypeOK
<1>1. ASSUME NEW s \in Sets
      PROVE  /\ \E i \in DOMAIN tableSizes :
                   set[s].table \in [0..(tableSizes[i] - 1) -> Items \cup {NULL}]
             /\ \A b, c \in DOMAIN set[s].table :
                   set[s].table[b] # NULL /\ set[s].table[c] # NULL /\ b # c
                       => Key[set[s].table[b]] # Key[set[s].table[c]]
  <2>1. PICK i \in 2..Len(tableSizes) : Sized(set[s], i)
    BY <1>1, SetsAreValid DEF Valid
  <2>2. i \in DOMAIN tableSizes
    BY DEF SizeAssumption
  <2> QED
    BY <2>1, <2>2 DEF Sized, WellPlaced, Tables, Spots, Distinct
<1> QED
  BY <1>1 DEF TypeOK, SetInv

\* The invariant gives that probes end.
LEMMA SetInvProbeEnds ==
    ASSUME SizeAssumption, SetInv
    PROVE  ProbeEnds
<1> SUFFICES ASSUME NEW s \in Sets
             PROVE  /\ set[s].itemCount = Cardinality(ItemsOf(set[s]))
                    /\ set[s].itemCount < Size(set[s])
  BY DEF ProbeEnds
<1>1. PICK i \in 2..Len(tableSizes) : Sized(set[s], i)
  BY SetsAreValid DEF Valid
<1> DEFINE n == tableSizes[i]
<1>2. n \in Nat \ {0} /\ Limit(n) \in Nat /\ Limit(n) < n
  BY SizeFacts
<1>3. WellPlaced(set[s], n) /\ set[s].itemCount <= Limit(n) /\ set[s].itemCount \in Nat
  BY <1>1 DEF Sized, WellPlaced
<1> HIDE DEF n
<1>4. Size(set[s]) = n
  BY <1>2, <1>3, TableSize DEF Size, WellPlaced
<1>5. set[s].itemCount < n
  BY <1>2, <1>3
<1>6. set[s].itemCount = Cardinality(Held(set[s].table))
  BY <1>3 DEF WellPlaced
<1>7. ItemsOf(set[s]) = Held(set[s].table)
  BY ItemsAreHeld
<1> QED
  BY <1>4, <1>5, <1>6, <1>7

\* No two equal items are ever in one table (TypeOK: BRSet.c:133-145).
THEOREM SetTyped == Spec => []TypeOK
<1>1. SetInv => TypeOK
  BY SetInvTypes, SizeAssumption
<1> QED
  BY <1>1, TablesInvariant, PTL

\* The count is that of the items, and there is always an empty bucket, so that the
\* probe for an item that is not there ends (ProbeEnds: BRSet.c:108-115, 226).
THEOREM ProbeAlwaysEnds == Spec => []ProbeEnds
<1>1. SetInv => ProbeEnds
  BY SetInvProbeEnds, SizeAssumption
<1> QED
  BY <1>1, TablesInvariant, PTL

\* The tables are the sets of the header, whatever their sizes and hashes: each
\* operation leaves and returns what the set would (ImplementsItemSet: BRSet.h:48-96).
THEOREM TablesImplementSets == Spec => ImplementsItemSet
<1>1. Init => Abstract!Init
  BY SetInvInit, ItemAssumption, SizeAssumption, CapacityAssumption
<1>2. SetInv /\ [Next]_vars => [Abstract!Next]_(Abstract!vars)
  BY SetInvStep, ItemAssumption, SizeAssumption
<1> QED
  BY <1>1, <1>2, TablesInvariant, PTL DEF Spec, ImplementsItemSet, Abstract!Spec

=============================================================================
