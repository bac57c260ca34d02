------------------------------- MODULE BRSet --------------------------------
(***************************************************************************)
(* The hash tables of BRSet.c, which hold the blocks, the orphans and the  *)
(* checkpoints of the peer manager and the transactions, outputs and       *)
(* addresses of the wallet: probing for the next bucket, growing before    *)
(* the table is full, and what is added again after a removal.  The        *)
(* callers hold a lock, so that an operation is one step.                  *)
(***************************************************************************)
EXTENDS Naturals, FiniteSets, SequencesExt

CONSTANTS
    Sets,
    Items,              \* pointers
    Key,                \* eq: two items with one key are equal
    Hash,               \* Hash[item], a size_t
    tableSizes,         \* the first of the sizes, as many as are reached
    Capacities          \* that BRSetNew is called with

NULL == "null"

\* Mutant: a table grows when it is full.
LimitFull(size) == size

\* The number of items beyond which a table grows.
Limit(size) == ((size + 2) \div 3) * 2

\* "any two items that are equal must also have identical hash values"
ASSUME ItemAssumption ==
    /\ NULL \notin Items
    /\ IsFiniteSet(Items)
    /\ Hash \in [Items -> Nat]
    /\ \A x, y \in Items : Key[x] = Key[y] => Hash[x] = Hash[y]

\* The sizes are 1, 3, 7, 13, ...: a table gets the second at least, and one that has
\* grown does not have to grow at once.  The last holds all items (there are sizes for
\* more than 10^9).
ASSUME SizeAssumption ==
    /\ tableSizes \in Seq(Nat \ {0})
    /\ Len(tableSizes) >= 2
    /\ \A i \in 2..Len(tableSizes) :
          /\ \A j \in 1..(i - 1) : tableSizes[j] < tableSizes[i]
          /\ tableSizes[i] = 3 \/ tableSizes[i] > 4
          /\ i > 2 => tableSizes[i - 1] + 3 <= tableSizes[i]
    /\ Cardinality(Items) <= Limit(tableSizes[Len(tableSizes)])

ASSUME CapacityAssumption ==
    /\ Capacities \subseteq Nat
    /\ \A c \in Capacities : c <= tableSizes[Len(tableSizes) - 1]

VARIABLES
    set,                \* set[s].table, whose buckets are 0..size - 1, and .itemCount
    result              \* what the last operation returned

vars == <<set, result>>

-----------------------------------------------------------------------------
(* The tables *)

Size(s) == Cardinality(DOMAIN s.table)

\* _BRSetInit: the size after the first one that holds the capacity.  (Beyond
\* the last of the sizes nothing is allocated: more than 10^9 items.)
NewSize(capacity) ==
    LET i == CHOOSE i \in DOMAIN tableSizes :
                 /\ capacity <= tableSizes[i]
                 /\ \A j \in 1..(i - 1) : tableSizes[j] < capacity
    IN  tableSizes[i + 1]

New(capacity) == [table |-> [b \in 0..(NewSize(capacity) - 1) |-> NULL], itemCount |-> 0]

\* The first bucket from that of its hash on that is empty or has an equal item.
Probe(table, item) ==
    LET size == Cardinality(DOMAIN table)
        home == Hash[item] % size
        bucket(n) == (home + n) % size
        stops(n) == \/ table[bucket(n)] = NULL
                    \/ Key[table[bucket(n)]] = Key[item]
    IN  bucket(CHOOSE n \in 0..(size - 1) : stops(n) /\ \A m \in 0..(n - 1) : ~stops(m))

\* BRSetGet
Found(s, item) == s.table[Probe(s.table, item)]

Buckets(s) == [n \in 1..Size(s) |-> s.table[n - 1]]

Put(s, item) ==
    LET b == Probe(s.table, item)
    IN  [table |-> [s.table EXCEPT ![b] = item],
         itemCount |-> IF s.table[b] = NULL THEN s.itemCount + 1 ELSE s.itemCount]

\* _BRSetGrow
Grown(s) ==
    FoldLeft(LAMBDA t, item : IF item = NULL THEN t ELSE Put(t, item),
             New(Size(s)), Buckets(s))

\* BRSetAdd
Added(s, item) ==
    LET put == Put(s, item)
    IN  IF put.itemCount > Limit(Size(s)) THEN Grown(put) ELSE put

Emptied(s, b) == [table |-> [s.table EXCEPT ![b] = NULL], itemCount |-> s.itemCount - 1]

\* Mutant: the end of the table ends a run.
RunToEnd(s, b) ==
    LET n == CHOOSE n \in 1..Size(s) :
                 /\ b + n = Size(s) \/ s.table[(b + n) % Size(s)] = NULL
                 /\ \A m \in 1..(n - 1) : b + m # Size(s) /\ s.table[b + m] # NULL
    IN  [m \in 1..(n - 1) |-> b + m]

\* The buckets after b, up to the next that is empty: b itself at the latest.
Run(s, b) ==
    LET n == CHOOSE n \in 1..Size(s) :
                 /\ s.table[(b + n) % Size(s)] = NULL
                 /\ \A m \in 1..(n - 1) : s.table[(b + m) % Size(s)] # NULL
    IN  [m \in 1..(n - 1) |-> (b + m) % Size(s)]

AddedAgain(s, b) == Added(Emptied(s, b), s.table[b])

\* BRSetRemove: the items of the run are taken out and added again, one by one.
Removed(s, item) ==
    LET b == Probe(s.table, item)
        without == Emptied(s, b)
    IN  IF s.table[b] = NULL THEN s ELSE FoldLeft(AddedAgain, without, Run(without, b))

\* BRSetUnion
United(s, o) ==
    FoldLeft(LAMBDA t, item : IF item = NULL THEN t ELSE Added(t, item), s, Buckets(o))

\* BRSetMinus
Without(s, o) ==
    FoldLeft(LAMBDA t, item : IF item = NULL THEN t ELSE Removed(t, item), s, Buckets(o))

\* The next bucket that BRSetIntersect looks at: at[1] is the table so far, at[2] the
\* bucket.  Mutant: the bucket of an item that is removed is not looked at again.
NotLookedAtAgain(at, o) ==
    LET item == at[1].table[at[2]]
    IN  IF at[2] = Size(at[1]) THEN at
        ELSE <<IF item # NULL /\ Found(o, item) = NULL THEN Removed(at[1], item) ELSE at[1],
               at[2] + 1>>

Looked(at, o) ==
    LET item == at[1].table[at[2]]
    IN  IF at[2] = Size(at[1]) THEN at
        ELSE IF item # NULL /\ Found(o, item) = NULL THEN <<Removed(at[1], item), at[2]>>
        ELSE <<at[1], at[2] + 1>>

\* Each look goes one bucket on or takes an item out.
Intersected(s, o) ==
    FoldLeft(LAMBDA at, n : Looked(at, o), <<s, 0>>, [n \in 1..(Size(s) + s.itemCount) |-> n])[1]

-----------------------------------------------------------------------------
(* The operations *)

Init ==
    /\ set \in [Sets -> {New(capacity) : capacity \in Capacities}]
    /\ result = NULL

BRSetAdd(s, item) ==
    /\ set' = [set EXCEPT ![s] = Added(@, item)]
    /\ result' = Found(set[s], item)

BRSetRemove(s, item) ==
    /\ set' = [set EXCEPT ![s] = Removed(@, item)]
    /\ result' = Found(set[s], item)

\* BRSetContains is whether there is a result.
BRSetGet(s, item) ==
    /\ result' = Found(set[s], item)
    /\ UNCHANGED set

BRSetClear(s) ==
    /\ set' = [set EXCEPT ![s] = [table |-> [b \in DOMAIN @.table |-> NULL], itemCount |-> 0]]
    /\ UNCHANGED result

BRSetUnion(s, o) ==
    /\ set' = [set EXCEPT ![s] = United(@, set[o])]
    /\ UNCHANGED result

BRSetMinus(s, o) ==
    /\ set' = [set EXCEPT ![s] = Without(@, set[o])]
    /\ UNCHANGED result

BRSetIntersect(s, o) ==
    /\ set' = [set EXCEPT ![s] = Intersected(@, set[o])]
    /\ UNCHANGED result

Next ==
    \/ \E s \in Sets, item \in Items :
          BRSetAdd(s, item) \/ BRSetRemove(s, item) \/ BRSetGet(s, item)
    \/ \E s \in Sets : BRSetClear(s)
    \/ \E s \in Sets : \E o \in Sets \ {s} :
          BRSetUnion(s, o) \/ BRSetMinus(s, o) \/ BRSetIntersect(s, o)

Spec == Init /\ [][Next]_vars

-----------------------------------------------------------------------------
(* Properties *)

ItemsOf(s) == {s.table[b] : b \in DOMAIN s.table} \ {NULL}

\* The types.  Two equal items are never in one table: after a removal in the
\* middle of a run, an item whose probe stops early would be added twice
\* (BRSet.c:133-145).
TypeOK ==
    /\ \A s \in Sets :
          /\ \E i \in DOMAIN tableSizes : set[s].table \in [0..(tableSizes[i] - 1) -> Items \cup {NULL}]
          /\ \A b, c \in DOMAIN set[s].table :
                set[s].table[b] # NULL /\ set[s].table[c] # NULL /\ b # c
                    => Key[set[s].table[b]] # Key[set[s].table[c]]
    /\ result \in Items \cup {NULL}

\* The count is that of the items, through replacements, what is added again
\* and what a growing table takes over, and there is always an empty bucket: the
\* probe for an item that is not there ends (BRSet.c:108-115, 128-131, 226).
ProbeEnds ==
    \A s \in Sets :
        /\ set[s].itemCount = Cardinality(ItemsOf(set[s]))
        /\ set[s].itemCount < Size(set[s])

Abstract == INSTANCE ItemSet WITH members <- [s \in Sets |-> ItemsOf(set[s])]

\* The tables are the sets that the header promises: whatever was added,
\* replaced and removed in whatever order, an item is found if and only if an
\* equal one is in the set, and the item that was replaced or removed is
\* returned, the object to free (BRSet.h:48-96; BRPeerManager.c:1156, 1344, 1419).
ImplementsItemSet == Abstract!Spec

=============================================================================
