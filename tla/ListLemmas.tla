----------------------------- MODULE ListLemmas -----------------------------
(***************************************************************************)
(* Facts about positions in the arrays of BRArray.h that the proofs of the *)
(* components cite: the last position with a property, what inserting and  *)
(* removing an element does to every position, the tails of a list; and    *)
(* induction over numbers and finite sets, for what the folds of the       *)
(* models compute.                                                         *)
(***************************************************************************)
EXTENDS Integers, Sequences, SequencesExt, SequenceTheorems,
        FiniteSetTheorems, WellFoundedInduction, TLAPS

\* A scan of an array from its end finds the last index of a set.
LEMMA MaxIndex ==
    ASSUME NEW n \in Nat, NEW I \in SUBSET (1..n), I # {}
    PROVE  Max(I) \in I /\ \A j \in I : j <= Max(I)
<1> DEFINE D == {d \in Nat : \E i \in I : d = n - i}
<1>1. PICK i0 \in I : TRUE
  OBVIOUS
<1>2. n - i0 \in D
  OBVIOUS
<1>3. PICK d \in D : \A e \in D : ~(<<e, d>> \in OpToRel(<, Nat))
  <2> HIDE DEF D
  <2>1. D \subseteq Nat /\ D # {}
    BY <1>2 DEF D
  <2> QED
    BY <2>1, NatLessThanWellFounded, WFMin
<1>4. PICK m \in I : d = n - m
  OBVIOUS
<1>5. \A j \in I : m >= j
  <2> TAKE j \in I
  <2>1. n - j \in D /\ n - j \in Nat /\ d \in Nat
    OBVIOUS
  <2>2. <<n - j, d>> \notin OpToRel(<, Nat)
    BY <1>3, <2>1
  <2>3. ~(n - j < d)
    BY <2>1, <2>2 DEF OpToRel
  <2> QED
    BY <1>4, <2>3
<1> QED
  BY <1>5 DEF Max

\* A set of natural numbers has a least one.
LEMMA MinNatural ==
    ASSUME NEW I \in SUBSET Nat, I # {}
    PROVE  Min(I) \in I /\ \A j \in I : Min(I) <= j
<1>1. PICK m \in I : \A e \in I : ~(<<e, m>> \in OpToRel(<, Nat))
  BY NatLessThanWellFounded, WFMin
<1>2. \A j \in I : m <= j
  <2> TAKE j \in I
  <2>1. ~(j < m)
    BY <1>1 DEF OpToRel
  <2> QED
    BY <2>1
<1> QED
  BY <1>2 DEF Min

\* A scan from the start finds the first index of a set.
LEMMA MinIndex ==
    ASSUME NEW n \in Nat, NEW I \in SUBSET (1..n), I # {}
    PROVE  Min(I) \in I /\ \A j \in I : Min(I) <= j
<1>1. I \in SUBSET Nat
  OBVIOUS
<1> QED
  BY <1>1, MinNatural

\* array_insert: what it does to each position.
LEMMA InsertAtElements ==
    ASSUME NEW S, NEW list \in Seq(S), NEW t \in S, NEW k \in 0..Len(list)
    PROVE  /\ InsertAt(list, k + 1, t) \in Seq(S)
           /\ Len(InsertAt(list, k + 1, t)) = Len(list) + 1
           /\ \A i \in 1..(Len(list) + 1) : InsertAt(list, k + 1, t)[i] =
                IF i <= k THEN list[i] ELSE IF i = k + 1 THEN t ELSE list[i - 1]
<1> DEFINE a == SubSeq(list, 1, k)
           b == SubSeq(list, k + 1, Len(list))
           c == a \o <<t>>
<1>0. Len(list) \in Nat /\ k \in Nat /\ k <= Len(list) /\ (k + 1) - 1 = k
  OBVIOUS
<1>1. InsertAt(list, k + 1, t) = c \o b
  BY <1>0 DEF InsertAt
<1>2. \A i \in 1..Len(list) : list[i] \in S
  BY ElementOfSeq
<1>3. /\ a \in Seq(S) /\ Len(a) = k
      /\ \A i \in 1..k : a[i] = list[i]
  BY <1>0, <1>2, SubSeqProperties
<1>4. /\ b \in Seq(S) /\ Len(b) = Len(list) - k
      /\ \A i \in 1..(Len(list) - k) : b[i] = list[k + i]
  BY <1>0, <1>2, SubSeqProperties
<1>5. <<t>> \in Seq(S) /\ Len(<<t>>) = 1 /\ <<t>>[1] = t
  OBVIOUS
<1> HIDE DEF a, b
<1>6. /\ c \in Seq(S) /\ Len(c) = k + 1
      /\ \A i \in 1..(k + 1) : c[i] = IF i <= k THEN list[i] ELSE t
  BY <1>0, <1>3, <1>5, ConcatProperties
<1> HIDE DEF c
<1>7. /\ c \o b \in Seq(S)
      /\ Len(c \o b) = Len(list) + 1
      /\ \A i \in 1..(Len(list) + 1) : (c \o b)[i] =
            IF i <= k + 1 THEN c[i] ELSE b[i - (k + 1)]
  BY <1>0, <1>4, <1>6, ConcatProperties
<1> DEFINE r == c \o b
<1> HIDE DEF r
<1>8. ASSUME NEW i \in 1..(Len(list) + 1)
      PROVE  r[i] =
                IF i <= k THEN list[i] ELSE IF i = k + 1 THEN t ELSE list[i - 1]
  <2>1. CASE i <= k + 1
    <3>1. i \in 1..(k + 1)
      BY <1>0, <2>1
    <3>2. r[i] = c[i]
      BY <1>0, <1>7, <2>1 DEF r
    <3> QED
      BY <1>0, <1>6, <2>1, <3>1, <3>2
  <2>2. CASE i > k + 1
    <3>1. i - (k + 1) \in 1..(Len(list) - k) /\ k + (i - (k + 1)) = i - 1
      BY <1>0, <2>2
    <3>2. r[i] = b[i - (k + 1)]
      BY <1>0, <1>7, <2>2 DEF r
    <3> QED
      BY <1>0, <1>4, <2>2, <3>1, <3>2
  <2>3. i <= k + 1 \/ i > k + 1
    BY <1>0
  <2> QED
    BY <2>1, <2>2, <2>3
<1>9. InsertAt(list, k + 1, t) = r /\ r \in Seq(S) /\ Len(r) = Len(list) + 1
  BY <1>1, <1>7 DEF r
<1> QED
  BY <1>8, <1>9

\* array_rm: what it does to each position.
LEMMA RemoveAtElements ==
    ASSUME NEW S, NEW list \in Seq(S), NEW k \in 1..Len(list)
    PROVE  /\ RemoveAt(list, k) \in Seq(S)
           /\ Len(RemoveAt(list, k)) = Len(list) - 1
           /\ \A i \in 1..(Len(list) - 1) : RemoveAt(list, k)[i] =
                IF i < k THEN list[i] ELSE list[i + 1]
<1> DEFINE a == SubSeq(list, 1, k - 1)
           b == SubSeq(list, k + 1, Len(list))
<1>0. Len(list) \in Nat /\ k \in Nat /\ 1 <= k /\ k <= Len(list)
  OBVIOUS
<1>1. RemoveAt(list, k) = a \o b
  BY DEF RemoveAt
<1>2. \A i \in 1..Len(list) : list[i] \in S
  BY ElementOfSeq
<1>3. /\ a \in Seq(S) /\ Len(a) = k - 1
      /\ \A i \in 1..(k - 1) : a[i] = list[i]
  BY <1>0, <1>2, SubSeqProperties
<1>4. /\ b \in Seq(S) /\ Len(b) = Len(list) - k
      /\ \A i \in 1..(Len(list) - k) : b[i] = list[k + i]
  BY <1>0, <1>2, SubSeqProperties
<1> HIDE DEF a, b
<1> DEFINE r == a \o b
<1>4a. Len(a) + Len(b) = Len(list) - 1
  BY <1>0, <1>3, <1>4
<1>5. /\ r \in Seq(S)
      /\ Len(r) = Len(list) - 1
      /\ \A i \in 1..(Len(list) - 1) : r[i] =
            IF i <= k - 1 THEN a[i] ELSE b[i - (k - 1)]
  <2>1. /\ r \in Seq(S)
        /\ Len(r) = Len(a) + Len(b)
        /\ \A i \in 1..(Len(a) + Len(b)) : r[i] =
              IF i <= Len(a) THEN a[i] ELSE b[i - Len(a)]
    BY <1>3, <1>4, ConcatProperties
  <2> HIDE DEF r
  <2> QED
    BY <1>3, <1>4a, <2>1
<1> HIDE DEF r
<1>6. ASSUME NEW i \in 1..(Len(list) - 1)
      PROVE  r[i] = IF i < k THEN list[i] ELSE list[i + 1]
  <2>1. CASE i < k
    BY <1>0, <1>3, <1>5, <2>1
  <2>2. CASE i >= k
    <3>1. i - (k - 1) \in 1..(Len(list) - k) /\ k + (i - (k - 1)) = i + 1
      BY <1>0, <2>2
    <3>2. r[i] = b[i - (k - 1)]
      BY <1>0, <1>5, <2>2
    <3> QED
      BY <1>0, <1>4, <2>2, <3>1, <3>2
  <2>3. i < k \/ i >= k
    BY <1>0
  <2> QED
    BY <2>1, <2>2, <2>3
<1>7. RemoveAt(list, k) = r
  BY <1>1 DEF r
<1> QED
  BY <1>5, <1>6, <1>7

\* What is left of a list when its beginning is cut off.
TailOf(s, t) == \E k \in 0..Len(t) : s = SubSeq(t, k + 1, Len(t))

\* Its elements are the last ones.
LEMMA TailElements ==
    ASSUME NEW S, NEW t \in Seq(S), NEW k \in 0..Len(t)
    PROVE  /\ SubSeq(t, k + 1, Len(t)) \in Seq(S)
           /\ Len(SubSeq(t, k + 1, Len(t))) = Len(t) - k
           /\ \A i \in 1..(Len(t) - k) : SubSeq(t, k + 1, Len(t))[i] = t[k + i]
<1>1. /\ Len(t) \in Nat /\ k + 1 \in 1..(Len(t) + 1)
      /\ \A i \in (k + 1)..Len(t) : t[i] \in S
  BY ElementOfSeq
<1>2. SubSeq(t, k + 1, Len(t)) = [i \in 1..(Len(t) - k) |-> t[k + i]]
  BY <1>1
<1>3. \A i \in 1..(Len(t) - k) : t[k + i] \in S
  BY <1>1
<1>4. Len(t) - k \in Nat
  BY <1>1
<1> QED
  BY <1>2, <1>3, <1>4

\* The tail of a tail is one.
LEMMA TailOfTail ==
    ASSUME NEW S, NEW t \in Seq(S), NEW s, TailOf(s, t), NEW k \in 0..Len(s)
    PROVE  TailOf(SubSeq(s, k + 1, Len(s)), t)
<1>1. PICK j \in 0..Len(t) : s = SubSeq(t, j + 1, Len(t))
  BY DEF TailOf
<1>2. /\ s \in Seq(S) /\ Len(s) = Len(t) - j /\ Len(t) \in Nat
      /\ \A i \in 1..(Len(t) - j) : s[i] = t[j + i]
  BY <1>1, TailElements
<1> DEFINE a == SubSeq(s, k + 1, Len(s))
           b == SubSeq(t, (j + k) + 1, Len(t))
<1>3. j + k \in 0..Len(t)
  BY <1>2
<1>4. /\ a \in Seq(S) /\ Len(a) = Len(s) - k
      /\ \A i \in 1..(Len(s) - k) : a[i] = s[k + i]
  BY <1>2, TailElements
<1>5. /\ b \in Seq(S) /\ Len(b) = Len(t) - (j + k)
      /\ \A i \in 1..(Len(t) - (j + k)) : b[i] = t[(j + k) + i]
  BY <1>3, TailElements
<1> HIDE DEF a, b
<1>6. Len(a) = Len(b)
  BY <1>2, <1>4, <1>5
<1>7. \A i \in 1..Len(a) : a[i] = b[i]
  <2> TAKE i \in 1..Len(a)
  <2>1. i \in 1..(Len(s) - k) /\ k + i \in 1..(Len(t) - j) /\ i \in 1..(Len(t) - (j + k))
    BY <1>2, <1>4
  <2>2. j + (k + i) = (j + k) + i
    BY <2>1
  <2> QED
    BY <1>2, <1>4, <1>5, <2>1, <2>2
<1>8. a = b
  BY <1>4, <1>5, <1>6, <1>7, SeqEqual
<1> QED
  BY <1>3, <1>8 DEF TailOf, a, b

\* Adding the same to a list and to its tail.
LEMMA TailOfConcat ==
    ASSUME NEW S, NEW t \in Seq(S), NEW s, TailOf(s, t), NEW u \in Seq(S)
    PROVE  TailOf(s \o u, t \o u)
<1>1. PICK j \in 0..Len(t) : s = SubSeq(t, j + 1, Len(t))
  BY DEF TailOf
<1>2. /\ s \in Seq(S) /\ Len(s) = Len(t) - j /\ Len(t) \in Nat /\ Len(u) \in Nat
      /\ \A i \in 1..(Len(t) - j) : s[i] = t[j + i]
  BY <1>1, TailElements
<1> DEFINE a == s \o u
           w == t \o u
           b == SubSeq(w, j + 1, Len(w))
<1>3. /\ a \in Seq(S) /\ Len(a) = Len(s) + Len(u)
      /\ \A i \in 1..(Len(s) + Len(u)) : a[i] = IF i <= Len(s) THEN s[i] ELSE u[i - Len(s)]
  <2>1. s \in Seq(S) /\ u \in Seq(S)
    BY <1>2
  <2> QED
    BY <2>1, ConcatProperties, Zenon
<1>4. /\ w \in Seq(S) /\ Len(w) = Len(t) + Len(u)
      /\ \A i \in 1..(Len(t) + Len(u)) : w[i] = IF i <= Len(t) THEN t[i] ELSE u[i - Len(t)]
  BY ConcatProperties, Zenon
<1> HIDE DEF a, w
<1>5. j \in 0..Len(w)
  BY <1>2, <1>4
<1>6. /\ b \in Seq(S) /\ Len(b) = Len(w) - j
      /\ \A i \in 1..(Len(w) - j) : b[i] = w[j + i]
  BY <1>4, <1>5, TailElements
<1> HIDE DEF b
<1>7. Len(a) = Len(b)
  BY <1>2, <1>3, <1>4, <1>6
<1>8. \A i \in 1..Len(a) : a[i] = b[i]
  <2> TAKE i \in 1..Len(a)
  <2>1. /\ i \in 1..(Len(w) - j) /\ j + i \in 1..(Len(t) + Len(u)) /\ i \in Nat
        /\ i \in 1..(Len(s) + Len(u))
    BY <1>2, <1>3, <1>4
  <2>2. CASE i <= Len(s)
    <3>1. j + i <= Len(t) /\ i \in 1..(Len(t) - j)
      BY <1>2, <2>1, <2>2
    <3> QED
      BY <1>2, <1>3, <1>4, <1>6, <2>1, <2>2, <3>1
  <2>3. CASE ~(i <= Len(s))
    <3>1. ~(j + i <= Len(t)) /\ (j + i) - Len(t) = i - Len(s)
      BY <1>2, <2>1, <2>3
    <3> QED
      BY <1>3, <1>4, <1>6, <2>1, <2>3, <3>1
  <2> QED
    BY <2>2, <2>3
<1>9. a = b
  BY <1>3, <1>6, <1>7, <1>8, SeqEqual
<1> QED
  BY <1>5, <1>9 DEF TailOf, a, w, b

\* A tail is a suffix.
LEMMA TailIsSuffix ==
    ASSUME NEW S, NEW t \in Seq(S), NEW s, TailOf(s, t)
    PROVE  IsSuffix(s, t)
<1>1. PICK j \in 0..Len(t) : s = SubSeq(t, j + 1, Len(t))
  BY DEF TailOf
<1>2. /\ s \in Seq(S) /\ Len(s) = Len(t) - j /\ Len(t) \in Nat
      /\ \A i \in 1..(Len(t) - j) : s[i] = t[j + i]
  BY <1>1, TailElements
<1> DEFINE n == Len(s)
           m == Len(t)
           a == Reverse(s)
           b == Reverse(t)
<1>3. n \in Nat /\ m \in Nat /\ n <= m /\ n = m - j
  BY <1>2
<1>4. /\ \A i \in 1..n : n - i + 1 \in 1..n
      /\ \A i \in 1..m : m - i + 1 \in 1..m
      /\ \A i \in 1..n : i \in 1..m /\ j + ((n - i) + 1) = (m - i) + 1
  BY <1>3
<1>5. \A i \in 1..n : s[(n - i) + 1] = t[(m - i) + 1]
  <2> TAKE i \in 1..n
  <2> DEFINE k == (n - i) + 1
             l == (m - i) + 1
  <2>1. k \in 1..(Len(t) - j) /\ j + k = l
    BY <1>2, <1>4
  <2> HIDE DEF k, l
  <2>2. s[k] = t[j + k]
    BY <1>2, <2>1
  <2>3. s[k] = t[l]
    BY <2>1, <2>2, Zenon
  <2> QED
    BY <2>3 DEF k, l
<1>6. a = [i \in 1..n |-> s[(n - i) + 1]] /\ b = [i \in 1..m |-> t[(m - i) + 1]]
  BY DEF Reverse
<1>7. (\A i \in 1..n : s[(n - i) + 1] \in S) /\ \A i \in 1..m : t[(m - i) + 1] \in S
  BY <1>2, <1>3, <1>4
<1> HIDE DEF n, m, a, b
<1>8. a \in Seq(S) /\ Len(a) = n /\ b \in Seq(S) /\ Len(b) = m
  <2>1. a \in [1..n -> S] /\ b \in [1..m -> S]
    BY <1>6, <1>7
  <2> QED
    BY <1>3, <2>1
<1>9. \A i \in 1..n : a[i] = b[i]
  BY <1>4, <1>5, <1>6
<1>10. SubSeq(a, 1, Len(a)) = SubSeq(b, 1, Len(a))
  BY <1>3, <1>8, <1>9
<1> QED
  BY <1>3, <1>8, <1>10 DEF IsSuffix, IsPrefix, a, b

-----------------------------------------------------------------------------
(* Induction, and what a fold computes *)

\* A set of natural numbers that has zero and, with each number, the next
\* has them all.
LEMMA NaturalsReached ==
    ASSUME NEW S \in SUBSET Nat, 0 \in S, \A n \in S : n + 1 \in S
    PROVE  S = Nat
<1> SUFFICES ASSUME Nat \ S # {} PROVE FALSE
  OBVIOUS
<1>1. PICK m \in Nat \ S : \A e \in Nat \ S : ~(<<e, m>> \in OpToRel(<, Nat))
  BY NatLessThanWellFounded, WFMin
<1>2. m - 1 \in Nat /\ m - 1 < m /\ (m - 1) + 1 = m
  OBVIOUS
<1>3. <<m - 1, m>> \in OpToRel(<, Nat)
  BY <1>2 DEF OpToRel
<1>4. m - 1 \in S
  BY <1>1, <1>2, <1>3
<1> QED
  BY <1>2, <1>4

\* The same up to a bound.
LEMMA PrefixesReached ==
    ASSUME NEW n \in Nat, NEW K \in SUBSET (0..n), 0 \in K,
           \A k \in K : k < n => k + 1 \in K
    PROVE  K = 0..n
<1> DEFINE S == {k \in Nat : k \in K \/ k > n}
<1>1. S \in SUBSET Nat /\ 0 \in S
  OBVIOUS
<1>2. \A k \in S : k + 1 \in S
  OBVIOUS
<1>3. S = Nat
  <2> HIDE DEF S
  <2> QED
    BY <1>1, <1>2, NaturalsReached
<1>4. \A k \in 0..n : k \in S /\ ~(k > n)
  BY <1>3
<1> QED
  BY <1>4

\* FoldLeft takes the positions of a list out from the last one.
LEMMA LastPosition ==
    ASSUME NEW k \in Nat, k # 0
    PROVE  Max(1..k) = k /\ (1..k) \ {k} = 1..(k - 1)
<1>1. Max(1..k) \in 1..k /\ \A j \in 1..k : j <= Max(1..k)
  <2>1. 1..k # {}
    OBVIOUS
  <2> QED
    BY <2>1, MaxIndex
<1>2. k \in 1..k
  OBVIOUS
<1>3. k <= Max(1..k) /\ Max(1..k) <= k /\ Max(1..k) \in Nat
  BY <1>1, <1>2
<1> QED
  BY <1>3

\* C takes an element of each set; g is what is computed by taking out the
\* elements one after the other, F[x][a] being the result after x.
Chooses(C, S) == \A s \in SUBSET S : s # {} => C[s] \in s
Folds(g, base, F, C, S) ==
    \A s \in SUBSET S : g[s] = IF s = {} THEN base ELSE F[C[s]][g[s \ {C[s]}]]

\* A function of the subsets of a finite set can be defined by taking out one
\* element after the other: what the folds of the community modules rest on.
LEMMA SubsetRecursion ==
    ASSUME NEW S, IsFiniteSet(S),
           NEW C, Chooses(C, S),
           NEW A, NEW base \in A,
           NEW F \in [S -> [A -> A]]
    PROVE  \E g \in [SUBSET S -> A] : Folds(g, base, F, C, S)
<1> USE DEF Chooses
<1> DEFINE Small(k) == {s \in SUBSET S : Cardinality(s) <= k}
           Fits(g, k) == \A s \in Small(k) :
              g[s] = IF s = {} THEN base ELSE F[C[s]][g[s \ {C[s]}]]
           K == {k \in Nat : \E g \in [Small(k) -> A] : Fits(g, k)}
<1>1. \A s \in SUBSET S : IsFiniteSet(s) /\ Cardinality(s) \in Nat
  BY FS_Subset, FS_CardinalityType
<1>2. 0 \in K
  <2> DEFINE g == [s \in Small(0) |-> base]
  <2>1. \A s \in Small(0) : s = {}
    BY <1>1, FS_EmptySet
  <2>2. g \in [Small(0) -> A] /\ Fits(g, 0)
    BY <2>1
  <2> QED
    BY <2>2
<1>3. ASSUME NEW k \in K
      PROVE  k + 1 \in K
  <2>1. PICK g \in [Small(k) -> A] : Fits(g, k)
    OBVIOUS
  <2> DEFINE h == [s \in Small(k + 1) |->
                      IF s = {} THEN base ELSE F[C[s]][g[s \ {C[s]}]]]
  <2>2. \A s \in Small(k + 1) : s # {} => s \ {C[s]} \in Small(k) /\ C[s] \in S
    <3> SUFFICES ASSUME NEW s \in Small(k + 1), s # {}
                 PROVE  s \ {C[s]} \in Small(k) /\ C[s] \in S
      OBVIOUS
    <3>1. C[s] \in s /\ IsFiniteSet(s) /\ Cardinality(s) \in Nat /\ Cardinality(s) <= k + 1
      BY <1>1
    <3>2. \A x \in s : Cardinality(s \ {x}) = Cardinality(s) - 1
      BY <3>1, FS_RemoveElement
    <3> QED
      BY <3>1, <3>2
  <2>3. h \in [Small(k + 1) -> A]
    BY <2>2
  <2>4. \A s \in Small(k) : s \in Small(k + 1) /\ h[s] = g[s]
    <3>1. Small(k) \subseteq Small(k + 1)
      BY <1>1
    <3> QED
      BY <2>1, <3>1
  <2>5. Fits(h, k + 1)
    <3> SUFFICES ASSUME NEW s \in Small(k + 1)
                 PROVE  h[s] = IF s = {} THEN base ELSE F[C[s]][h[s \ {C[s]}]]
      OBVIOUS
    <3>1. s # {} => h[s \ {C[s]}] = g[s \ {C[s]}]
      BY <2>2, <2>4
    <3> QED
      BY <3>1
  <2> HIDE DEF h, Fits, Small
  <2> QED
    BY <2>3, <2>5
<1>4. K = Nat
  <2> HIDE DEF K
  <2>1. K \subseteq Nat
    BY DEF K
  <2> QED
    BY <1>2, <1>3, <2>1, NaturalsReached
<1>5. Cardinality(S) \in K
  BY <1>1, <1>4
<1>6. Small(Cardinality(S)) = SUBSET S
  BY FS_Subset
<1> QED
  BY <1>5, <1>6 DEF Folds

\* g[s] is what a list gives that is folded over the positions s only, in order.
FoldsInOrder(g, base, F, n) ==
    \A s \in SUBSET (1..n) :
       /\ s # {} => Max(s) \in 1..n /\ s \ {Max(s)} \in SUBSET (1..n)
       /\ g[s] = IF s = {} THEN base ELSE F[Max(s)][g[s \ {Max(s)}]]

\* What FoldLeft computes exists, if each element maps A to itself.
LEMMA FoldExists ==
    ASSUME NEW n \in Nat, NEW A, NEW base \in A, NEW F \in [1..n -> [A -> A]]
    PROVE  \E g \in [SUBSET (1..n) -> A] : FoldsInOrder(g, base, F, n)
<1> DEFINE D == 1..n
           C == [s \in SUBSET D |-> Max(s)]
<1>1. IsFiniteSet(D)
  BY FS_Interval
<1>2. \A s \in SUBSET D : s # {} => Max(s) \in s
  BY MaxIndex
<1>3. Chooses(C, D)
  BY <1>2 DEF Chooses
<1>4. PICK g \in [SUBSET D -> A] : Folds(g, base, F, C, D)
  <2> HIDE DEF D, C
  <2>1. F \in [D -> [A -> A]]
    BY DEF D
  <2> QED
    BY <1>1, <1>3, <2>1, SubsetRecursion
<1>5. ASSUME NEW s \in SUBSET D
      PROVE  /\ s # {} => Max(s) \in D /\ s \ {Max(s)} \in SUBSET D
             /\ g[s] = IF s = {} THEN base ELSE F[Max(s)][g[s \ {Max(s)}]]
  <2>1. g[s] = IF s = {} THEN base ELSE F[C[s]][g[s \ {C[s]}]]
    BY <1>4 DEF Folds
  <2> QED
    BY <1>2, <2>1
<1> QED
  BY <1>5 DEF FoldsInOrder

\* A family of subsets of a finite set that has a subset when it has what is
\* left of it without any one of its elements has all subsets.
LEMMA FiniteSubsetsReached ==
    ASSUME NEW S, IsFiniteSet(S), NEW P,
           \A s \in SUBSET S : (\A x \in s : s \ {x} \in P) => s \in P
    PROVE  SUBSET S \subseteq P
<1> DEFINE K == {k \in Nat : \A s \in SUBSET S : Cardinality(s) <= k => s \in P}
<1>1. \A s \in SUBSET S : IsFiniteSet(s) /\ Cardinality(s) \in Nat
  BY FS_Subset, FS_CardinalityType
<1>2. 0 \in K
  BY <1>1, FS_EmptySet
<1>3. ASSUME NEW k \in K
      PROVE  k + 1 \in K
  <2> SUFFICES ASSUME NEW s \in SUBSET S, Cardinality(s) <= k + 1
               PROVE  s \in P
    OBVIOUS
  <2> SUFFICES ASSUME NEW x \in s
               PROVE  s \ {x} \in P
    OBVIOUS
  <2>1. Cardinality(s \ {x}) = Cardinality(s) - 1
    BY <1>1, FS_RemoveElement
  <2>2. Cardinality(s \ {x}) <= k /\ s \ {x} \in SUBSET S
    BY <1>1, <2>1
  <2> QED
    BY <2>2
<1>4. K = Nat
  <2> HIDE DEF K
  <2>1. K \subseteq Nat
    BY DEF K
  <2> QED
    BY <1>2, <1>3, <2>1, NaturalsReached
<1>5. SUFFICES ASSUME NEW s \in SUBSET S
               PROVE  s \in P
  OBVIOUS
<1>6. Cardinality(s) \in K
  BY <1>1, <1>4
<1> QED
  BY <1>1, <1>6

\* A finite set of natural numbers has a greatest one.
LEMMA MaxFinite ==
    ASSUME NEW S \in SUBSET Nat, IsFiniteSet(S), S # {}
    PROVE  Max(S) \in S /\ \A x \in S : x <= Max(S)
<1> DEFINE P == {s \in SUBSET S : s # {} => \E m \in s : \A x \in s : m >= x}
<1>1. ASSUME NEW s \in SUBSET S, \A x \in s : s \ {x} \in P
      PROVE  s \in P
  <2> SUFFICES ASSUME NEW y \in s
               PROVE  \E m \in s : \A x \in s : m >= x
    OBVIOUS
  <2>1. CASE s \ {y} = {}
    BY <2>1
  <2>2. CASE s \ {y} # {}
    <3>1. PICK m \in s \ {y} : \A x \in s \ {y} : m >= x
      BY <1>1, <2>2
    <3>2. CASE m >= y
      BY <3>1, <3>2
    <3>3. CASE ~(m >= y)
      <4>1. \A x \in s : y >= x
        BY <3>1, <3>3
      <4> QED
        BY <4>1
    <3> QED
      BY <3>2, <3>3
  <2> QED
    BY <2>1, <2>2
<1>2. SUBSET S \subseteq P
  <2> HIDE DEF P
  <2> QED
    BY <1>1, FiniteSubsetsReached
<1>3. PICK m \in S : \A x \in S : m >= x
  BY <1>2
<1>4. Max(S) \in S /\ \A x \in S : Max(S) >= x
  BY <1>3 DEF Max
<1> QED
  BY <1>4

\* A sum over the subsets of a finite set, whichever element is taken first.
Sums(g, w, C, S) ==
    \A s \in SUBSET S : g[s] = IF s = {} THEN 0 ELSE w[C[s]] + g[s \ {C[s]}]

\* Such a sum is an integer, unique, and any element may be taken out first.
LEMMA SumElement ==
    ASSUME NEW S, IsFiniteSet(S),
           NEW C, Chooses(C, S),
           NEW w, \A x \in S : w[x] \in Int,
           NEW g, Sums(g, w, C, S)
    PROVE  \A s \in SUBSET S :
              /\ g[s] \in Int
              /\ \A x \in s : g[s] = w[x] + g[s \ {x}]
<1> USE DEF Chooses
<1> DEFINE Q == {s \in SUBSET S : g[s] \in Int}
           P == {s \in SUBSET S : \A x \in s : g[s] = w[x] + g[s \ {x}]}
<1>1. SUBSET S \subseteq Q
  <2>1. ASSUME NEW s \in SUBSET S, \A x \in s : s \ {x} \in Q
        PROVE  s \in Q
    <3>1. s = {} \/ C[s] \in s
      OBVIOUS
    <3>2. s # {} => w[C[s]] \in Int /\ g[s \ {C[s]}] \in Int
      BY <2>1, <3>1
    <3>3. g[s] \in Int
      BY <3>2 DEF Sums
    <3> QED
      BY <3>3
  <2> HIDE DEF Q
  <2> QED
    BY <2>1, FiniteSubsetsReached
<1>2. ASSUME NEW s \in SUBSET S, \A x \in s : s \ {x} \in P
      PROVE  s \in P
  <2> SUFFICES ASSUME NEW x \in s
               PROVE  g[s] = w[x] + g[s \ {x}]
    OBVIOUS
  <2> DEFINE c == C[s]
  <2>1. c \in s /\ g[s] = w[c] + g[s \ {c}]
    BY DEF Sums
  <2> HIDE DEF c
  <2>2. CASE x = c
    BY <2>1, <2>2
  <2>3. CASE x # c
    <3> DEFINE rest == g[(s \ {c}) \ {x}]
    <3>1. (s \ {x}) \ {c} = (s \ {c}) \ {x}
      OBVIOUS
    <3>2. s \ {x} \in P /\ s \ {c} \in P
      BY <1>2, <2>1
    <3>3. g[s \ {x}] = w[c] + rest
      BY <2>1, <2>3, <3>1, <3>2
    <3>4. g[s \ {c}] = w[x] + rest
      BY <2>3, <3>2
    <3>5. w[x] \in Int /\ w[c] \in Int /\ rest \in Int
      BY <1>1, <2>1
    <3> HIDE DEF rest
    <3> QED
      BY <2>1, <3>3, <3>4, <3>5
  <2> QED
    BY <2>2, <2>3
<1>3. SUBSET S \subseteq P
  <2> HIDE DEF P
  <2> QED
    BY <1>2, FiniteSubsetsReached
<1> QED
  BY <1>1, <1>3

\* The sum over a set does not depend on what it is a subset of.
LEMMA SumUnique ==
    ASSUME NEW S, NEW T, IsFiniteSet(T), T \subseteq S,
           NEW C, Chooses(C, T),
           NEW w, NEW g, Sums(g, w, C, S), NEW h, Sums(h, w, C, T)
    PROVE  \A s \in SUBSET T : g[s] = h[s]
<1> USE DEF Chooses
<1> DEFINE P == {s \in SUBSET T : g[s] = h[s]}
<1>1. ASSUME NEW s \in SUBSET T, \A x \in s : s \ {x} \in P
      PROVE  s \in P
  <2>1. s \in SUBSET S
    OBVIOUS
  <2>2. s # {} => g[s \ {C[s]}] = h[s \ {C[s]}]
    BY <1>1
  <2> QED
    BY <2>1, <2>2 DEF Sums
<1>2. SUBSET T \subseteq P
  <2> HIDE DEF P
  <2> QED
    BY <1>1, FiniteSubsetsReached
<1> QED
  BY <1>2

\* Disjoint sets: their sums are added.
LEMMA SumDisjoint ==
    ASSUME NEW S, IsFiniteSet(S),
           NEW C, Chooses(C, S),
           NEW w, \A x \in S : w[x] \in Int,
           NEW g, Sums(g, w, C, S),
           NEW a \in SUBSET S, NEW b \in SUBSET S, a \cap b = {}
    PROVE  g[a \cup b] = g[a] + g[b]
<1> USE DEF Chooses
<1> DEFINE P == {s \in SUBSET S : s \cap b = {} => g[s \cup b] = g[s] + g[b]}
<1>1. \A s \in SUBSET S :
         /\ g[s] \in Int
         /\ \A x \in s : g[s] = w[x] + g[s \ {x}]
  BY SumElement
<1>2. ASSUME NEW s \in SUBSET S, \A x \in s : s \ {x} \in P
      PROVE  s \in P
  <2> SUFFICES ASSUME s \cap b = {}
               PROVE  g[s \cup b] = g[s] + g[b]
    OBVIOUS
  <2>1. g[b] \in Int
    BY <1>1
  <2>2. CASE s = {}
    <3>1. s \cup b = b
      BY <2>2
    <3>2. g[s] = 0
      BY <2>2 DEF Sums
    <3>3. g[s \cup b] = g[b]
      BY <3>1
    <3> QED
      BY <2>1, <3>2, <3>3
  <2>3. CASE s # {}
    <3>1. PICK x \in s : TRUE
      BY <2>3
    <3> DEFINE r == s \ {x}
               both == s \cup b
    <3>2. /\ r \in SUBSET S /\ both \in SUBSET S /\ x \in both
          /\ both \ {x} = r \cup b /\ r \cap b = {}
      OBVIOUS
    <3>3. g[s] = w[x] + g[r] /\ g[r] \in Int /\ w[x] \in Int
      BY <1>1, <3>2
    <3>4. g[r \cup b] = g[r] + g[b]
      BY <1>2, <3>2
    <3> HIDE DEF r, both
    <3>5. g[both] = w[x] + g[both \ {x}]
      BY <1>1, <3>2
    <3>6. g[both] = w[x] + (g[r] + g[b])
      BY <3>2, <3>4, <3>5
    <3>7. g[both] = g[s] + g[b]
      BY <2>1, <3>3, <3>6
    <3> QED
      BY <3>7 DEF both
  <2> QED
    BY <2>2, <2>3
<1>3. SUBSET S \subseteq P
  <2> HIDE DEF P
  <2> QED
    BY <1>2, FiniteSubsetsReached
<1> QED
  BY <1>3

\* A sum of natural numbers is one.
LEMMA SumNat ==
    ASSUME NEW S, IsFiniteSet(S),
           NEW C, Chooses(C, S),
           NEW w, \A x \in S : w[x] \in Nat,
           NEW g, Sums(g, w, C, S)
    PROVE  \A s \in SUBSET S : g[s] \in Nat
<1> USE DEF Chooses
<1> DEFINE Q == {s \in SUBSET S : g[s] \in Nat}
<1>1. ASSUME NEW s \in SUBSET S, \A x \in s : s \ {x} \in Q
      PROVE  s \in Q
  <2>1. s = {} \/ C[s] \in s
    OBVIOUS
  <2> DEFINE r == s \ {C[s]}
  <2>2. s # {} => w[C[s]] \in Nat /\ g[r] \in Nat
    BY <1>1, <2>1
  <2>3. g[s] = IF s = {} THEN 0 ELSE w[C[s]] + g[r]
    BY DEF Sums
  <2> HIDE DEF r
  <2>4. g[s] \in Nat
    BY <2>2, <2>3
  <2> QED
    BY <2>4
<1>2. SUBSET S \subseteq Q
  <2> HIDE DEF Q
  <2> QED
    BY <1>1, FiniteSubsetsReached
<1> QED
  BY <1>2

=============================================================================
