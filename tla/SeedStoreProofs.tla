-------------------------- MODULE SeedStoreProofs ---------------------------
(***************************************************************************)
(* A stored identity stays the identity of the app until the user changes  *)
(* it, and what is stored is a seed under an id of the device, for any     *)
(* number of objects, of calls in flight, of restarts and of seeds.        *)
(***************************************************************************)
EXTENDS SeedStore, TLAPS

-----------------------------------------------------------------------------
(* The queues of calls *)

Listed(q) == \E S : q \in Seq(S)

LEMMA ListedTail ==
    ASSUME NEW q, Listed(q), q # <<>>
    PROVE  /\ Listed(Tail(q))
           /\ \A i \in DOMAIN Tail(q) : \E k \in DOMAIN q : Tail(q)[i] = q[k]
           /\ 1 \in DOMAIN q /\ Head(q) = q[1]
<1>1. PICK S : q \in Seq(S)
  BY DEF Listed
<1>2. Tail(q) \in Seq(S)
  BY <1>1
<1>3. \A i \in DOMAIN Tail(q) : i + 1 \in DOMAIN q /\ Tail(q)[i] = q[i + 1]
  BY <1>1
<1> QED
  BY <1>1, <1>2, <1>3 DEF Listed

LEMMA ListedAppend ==
    ASSUME NEW q, Listed(q), NEW e
    PROVE  /\ Listed(Append(q, e))
           /\ \A i \in DOMAIN Append(q, e) :
                Append(q, e)[i] = e \/ \E k \in DOMAIN q : Append(q, e)[i] = q[k]
<1>1. PICK S : q \in Seq(S)
  BY DEF Listed
<1> DEFINE T == S \cup {e}
<1>2. q \in Seq(T) /\ e \in T
  BY <1>1
<1>3. Append(q, e) \in Seq(T)
  BY <1>2
<1>4. \A i \in DOMAIN Append(q, e) :
         Append(q, e)[i] = e \/ (i \in DOMAIN q /\ Append(q, e)[i] = q[i])
  BY <1>1
<1> QED
  BY <1>3, <1>4 DEF Listed

\* Each element of s is one of q or of r.
From(s, q, r) ==
    \A i \in DOMAIN s : \/ \E k \in DOMAIN q : s[i] = q[k]
                       \/ \E k \in DOMAIN r : s[i] = r[k]

LEMMA ListedConcat ==
    ASSUME NEW q, Listed(q), NEW r, Listed(r)
    PROVE  Listed(q \o r) /\ From(q \o r, q, r)
<1> DEFINE s == q \o r
<1>1. PICK S : q \in Seq(S)
  BY DEF Listed
<1>2. PICK T : r \in Seq(T)
  BY DEF Listed
<1> DEFINE U == S \cup T
<1>3. q \in Seq(U) /\ r \in Seq(U)
  BY <1>1, <1>2
<1>4. s \in Seq(U)
  BY <1>3
<1>5. \A i \in DOMAIN s :
         \/ i \in DOMAIN q /\ s[i] = q[i]
         \/ i - Len(q) \in DOMAIN r /\ s[i] = r[i - Len(q)]
  BY <1>1, <1>2
<1> QED
  <2>1. From(s, q, r)
    BY <1>5, Zenon DEF From
  <2> QED
    BY <1>4, <2>1 DEF Listed

-----------------------------------------------------------------------------
(* The invariant *)

Ops == {"populate", "restore", "save"}

\* A call for one of the objects up to k.
Owned(c, k) == c.op \in Ops /\ c.model \in Models /\ c.model <= k

\* Objects that were not created yet have no seed.
Objects ==
    /\ keyData \in Models \ {Service}
    /\ seeds = [m \in Models |-> seeds[m]]
    /\ \A m \in Models : m > keyData => seeds[m] = None
    /\ changes \in Nat

\* Every call is for an object that exists, and one that the main thread is to
\* complete finds the id in the cache.
Pending ==
    /\ device \in Ids
    /\ Listed(persister)
    /\ Listed(posted)
    /\ \A i \in DOMAIN persister : Owned(persister[i], keyData)
    /\ \A i \in DOMAIN posted :
          /\ Owned(posted[i].call, keyData)
          /\ posted[i].ok \in BOOLEAN
          /\ posted[i].ok => cached # None
    /\ \A j \in jobs : Owned(j.call, keyData)

IInv == Objects /\ Pending

\* What onComplete starts belongs to its call; a populate starts a decryption of
\* the preference, and only for an object without a seed.
LEMMA BegunJobs ==
    ASSUME NEW c, c.op \in Ops, NEW key, NEW seed, NEW text
    PROVE  /\ \A j \in Begin(c, key, seed, text) : j.call = c
           /\ c.op = "populate" =>
                \A j \in Begin(c, key, seed, text) :
                    seed = None /\ j = Job("decrypt", c, text, key)
<1>1. CASE c.op = "populate"
  <2>1. CASE seed = None
    BY <1>1, <2>1 DEF Begin, Job
  <2>2. CASE seed # None
    BY <1>1, <2>2 DEF Begin
  <2> QED
    BY <2>1, <2>2
<1>2. CASE c.op = "restore"
  BY <1>2 DEF Begin, Job
<1>3. CASE c.op = "save"
  BY <1>3 DEF Begin, Job
<1> QED
  BY <1>1, <1>2, <1>3 DEF Ops

\* updateAdId adds calls to the queue, or jobs of these calls; jobs of populates
\* decrypt the preference for an object without a seed.
LEMMA UpdateAdIdAdds ==
    ASSUME NEW calls, Listed(calls), NEW held, NEW text,
           \A i \in DOMAIN calls : calls[i].op \in Ops,
           Listed(persister),
           UpdateAdId(calls, held, text)
    PROVE  /\ Listed(persister')
           /\ \A i \in DOMAIN persister' :
                \/ \E k \in DOMAIN persister : persister'[i] = persister[k]
                \/ \E k \in DOMAIN calls : persister'[i] = calls[k]
           /\ \A j \in jobs' :
                \/ j \in jobs
                \/ \E k \in DOMAIN calls :
                     /\ j.call = calls[k]
                     /\ calls[k].op = "populate" =>
                          /\ cached # None
                          /\ held[calls[k].model] = None
                          /\ j = Job("decrypt", calls[k], text, cached)
<1>1. CASE cached = None
  <2>1. persister' = persister \o calls /\ jobs' = jobs
    BY <1>1 DEF UpdateAdId
  <2>2. Listed(persister \o calls) /\ From(persister \o calls, persister, calls)
    BY ListedConcat, Zenon
  <2>3. /\ Listed(persister')
        /\ \A i \in DOMAIN persister' :
             \/ \E k \in DOMAIN persister : persister'[i] = persister[k]
             \/ \E k \in DOMAIN calls : persister'[i] = calls[k]
    <3>1. Listed(persister') /\ From(persister', persister, calls)
      BY <2>1, <2>2, Zenon
    <3> QED
      BY <3>1, Zenon DEF From
  <2> QED
    BY <2>1, <2>3
<1>2. CASE cached # None
  <2>1. /\ persister' = persister
        /\ jobs' = jobs \cup UNION {Begin(c, cached, held[c.model], text) : c \in Range(calls)}
    BY <1>2 DEF UpdateAdId
  <2>2. ASSUME NEW j \in jobs', j \notin jobs
        PROVE  \E k \in DOMAIN calls :
                 /\ j.call = calls[k]
                 /\ calls[k].op = "populate" =>
                      /\ held[calls[k].model] = None
                      /\ j = Job("decrypt", calls[k], text, cached)
    <3>1. PICK k \in DOMAIN calls :
             j \in Begin(calls[k], cached, held[calls[k].model], text)
      BY <2>1, <2>2 DEF Range
    <3> QED
      BY <3>1, BegunJobs
  <2> QED
    BY <1>2, <2>1, <2>2
<1> QED
  BY <1>1, <1>2

LEMMA PopulateCalls ==
    ASSUME NEW m
    PROVE  /\ Listed(Populates(m))
           /\ \A i \in DOMAIN Populates(m) :
                Populates(m)[i].op = "populate" /\ Populates(m)[i].model = m
<1>1. Populates(m) \in Seq({Call("populate", m, Blank, 0), Call("populate", m, Blank, 1)})
  BY DEF Populates
<1>2. Listed(Populates(m))
  BY <1>1 DEF Listed
<1>3. \A i \in DOMAIN Populates(m) :
         Populates(m)[i].op = "populate" /\ Populates(m)[i].model = m
  BY DEF Populates, Call
<1> QED
  BY <1>2, <1>3

LEMMA OneCall ==
    ASSUME NEW op, NEW m, NEW text, NEW by
    PROVE  /\ Listed(<<Call(op, m, text, by)>>)
           /\ \A i \in DOMAIN <<Call(op, m, text, by)>> :
                /\ <<Call(op, m, text, by)>>[i].op = op
                /\ <<Call(op, m, text, by)>>[i].model = m
<1>1. <<Call(op, m, text, by)>> \in Seq({Call(op, m, text, by)})
  OBVIOUS
<1>2. Listed(<<Call(op, m, text, by)>>)
  BY <1>1 DEF Listed
<1>3. \A i \in DOMAIN <<Call(op, m, text, by)>> :
         /\ <<Call(op, m, text, by)>>[i].op = op
         /\ <<Call(op, m, text, by)>>[i].model = m
  BY DEF Call
<1> QED
  BY <1>2, <1>3

LEMMA NoCalls == Listed(<<>>)
<1>1. <<>> \in Seq({})
  OBVIOUS
<1> QED
  BY <1>1 DEF Listed

LEMMA OwnedStays ==
    ASSUME NEW c, NEW k \in Models, NEW n \in Models, k <= n, Owned(c, k)
    PROVE  Owned(c, n)
BY IdentityAssumption DEF Owned, Models

\* updateAdId for the calls of an object that exists afterwards.
LEMMA UpdateAdIdOwned ==
    ASSUME Pending, keyData \in Models,
           NEW n \in Models, keyData <= n,
           NEW calls, Listed(calls), \A i \in DOMAIN calls : Owned(calls[i], n),
           NEW held, NEW text, UpdateAdId(calls, held, text)
    PROVE  /\ Listed(persister')
           /\ \A i \in DOMAIN persister' : Owned(persister'[i], n)
           /\ \A j \in jobs' : Owned(j.call, n)
<1>1. /\ Listed(persister)
      /\ \A i \in DOMAIN persister : Owned(persister[i], n)
      /\ \A j \in jobs : Owned(j.call, n)
  BY OwnedStays DEF Pending
<1>2. \A i \in DOMAIN calls : calls[i].op \in Ops
  BY DEF Owned
<1>3. /\ Listed(persister')
      /\ \A i \in DOMAIN persister' :
           \/ \E k \in DOMAIN persister : persister'[i] = persister[k]
           \/ \E k \in DOMAIN calls : persister'[i] = calls[k]
      /\ \A j \in jobs' : j \in jobs \/ \E k \in DOMAIN calls : j.call = calls[k]
  BY <1>1, <1>2, UpdateAdIdAdds
<1>4. ASSUME NEW i \in DOMAIN persister' PROVE Owned(persister'[i], n)
  BY <1>1, <1>3
<1>5. ASSUME NEW j \in jobs' PROVE Owned(j.call, n)
  BY <1>1, <1>3
<1> QED
  BY <1>3, <1>4, <1>5

-----------------------------------------------------------------------------
(* The invariant holds *)

LEMMA FirstObject == 1 \in Models \ {Service}
BY IdentityAssumption DEF Models, Service

LEMMA InitIInv == Init => IInv
<1> SUFFICES ASSUME Init PROVE IInv
  OBVIOUS
<1>1. Objects
  BY FirstObject, IdentityAssumption DEF Init, Objects, Models
<1>2. device \in Ids
  BY IdentityAssumption DEF Init
<1>3. /\ Listed(persister)
      /\ \A i \in DOMAIN persister : Owned(persister[i], keyData)
  <2>1. persister = Populates(1) /\ keyData = 1
    BY DEF Init
  <2>2. Listed(Populates(1))
    BY PopulateCalls
  <2>3. \A i \in DOMAIN Populates(1) : Owned(Populates(1)[i], 1)
    BY PopulateCalls, FirstObject DEF Owned, Ops
  <2> QED
    BY <2>1, <2>2, <2>3
<1>4. Listed(posted) /\ posted = <<>> /\ jobs = {}
  BY NoCalls DEF Init
<1>5. Pending
  BY <1>2, <1>3, <1>4 DEF Pending
<1> QED
  BY <1>1, <1>5 DEF IInv

\* The executor hands a call to the main thread; an answer has filled the cache.
LEMMA PostedIInv ==
    ASSUME IInv, NEW ok \in BOOLEAN,
           persister # <<>>,
           persister' = Tail(persister),
           posted' = Append(posted, [call |-> Head(persister), ok |-> ok]),
           cached' = IF ok THEN device ELSE cached,
           UNCHANGED <<device, keyData, seeds, jobs, changes>>
    PROVE  IInv'
<1>1. Objects'
  BY DEF IInv, Objects
<1>2. (ok => cached' # None) /\ (cached # None => cached' # None)
  BY IdentityAssumption DEF IInv, Pending
<1>3. Listed(persister) /\ Listed(posted)
  BY DEF IInv, Pending
<1>4. Listed(persister') /\ Owned(Head(persister), keyData)
  BY <1>3, ListedTail DEF IInv, Pending
<1>5. ASSUME NEW i \in DOMAIN persister' PROVE Owned(persister'[i], keyData)
  <2>1. PICK k \in DOMAIN persister : persister'[i] = persister[k]
    BY <1>3, ListedTail
  <2> QED
    BY <2>1 DEF IInv, Pending
<1>6. Listed(posted')
  BY <1>3, ListedAppend
<1>7. ASSUME NEW i \in DOMAIN posted'
      PROVE  /\ Owned(posted'[i].call, keyData)
             /\ posted'[i].ok \in BOOLEAN
             /\ posted'[i].ok => cached' # None
  <2>1. \/ posted'[i] = [call |-> Head(persister), ok |-> ok]
        \/ \E k \in DOMAIN posted : posted'[i] = posted[k]
    BY <1>3, ListedAppend
  <2>2. CASE posted'[i] = [call |-> Head(persister), ok |-> ok]
    BY <2>2, <1>2, <1>4
  <2>3. CASE \E k \in DOMAIN posted : posted'[i] = posted[k]
    BY <2>3, <1>2 DEF IInv, Pending
  <2> QED
    BY <2>1, <2>2, <2>3
<1>8. Pending'
  <2>1. device' = device /\ keyData' = keyData /\ jobs' = jobs
    OBVIOUS
  <2> QED
    BY <2>1, <1>4, <1>5, <1>6, <1>7 DEF IInv, Pending
<1> QED
  BY <1>1, <1>8 DEF IInv

\* The main thread takes the first answer; what it starts is for the call.
LEMMA TakenIInv ==
    ASSUME IInv,
           posted # <<>>,
           posted' = Tail(posted),
           \A j \in jobs' : j \in jobs \/ j.call = Head(posted).call,
           UNCHANGED <<device, cached, keyData, seeds, persister, changes>>
    PROVE  IInv'
<1>1. Objects'
  BY DEF IInv, Objects
<1>2. Listed(posted)
  BY DEF IInv, Pending
<1>3. Listed(posted') /\ Owned(Head(posted).call, keyData)
  BY <1>2, ListedTail DEF IInv, Pending
<1>4. ASSUME NEW i \in DOMAIN posted'
      PROVE  /\ Owned(posted'[i].call, keyData)
             /\ posted'[i].ok \in BOOLEAN
             /\ posted'[i].ok => cached # None
  <2>1. PICK k \in DOMAIN posted : posted'[i] = posted[k]
    BY <1>2, ListedTail
  <2> QED
    BY <2>1 DEF IInv, Pending
<1>5. ASSUME NEW j \in jobs' PROVE Owned(j.call, keyData)
  BY <1>3 DEF IInv, Pending
<1>6. Pending'
  <2>1. /\ device' = device /\ cached' = cached
        /\ keyData' = keyData /\ persister' = persister
    OBVIOUS
  <2> QED
    BY <2>1, <1>3, <1>4, <1>5 DEF IInv, Pending
<1> QED
  BY <1>1, <1>6 DEF IInv

\* A job ends: the seed of its object may change, a job that follows it is for
\* the same call.
LEMMA JobIInv ==
    ASSUME IInv, NEW j \in jobs,
           \/ seeds' = seeds
           \/ \E s : seeds' = [seeds EXCEPT ![j.call.model] = s],
           \A w \in jobs' : w \in jobs \/ w.call = j.call,
           changes' \in {changes, changes + 1},
           UNCHANGED <<device, cached, keyData, persister, posted>>
    PROVE  IInv'
<1>1. Owned(j.call, keyData)
  BY DEF IInv, Pending
<1>2. ASSUME NEW w \in jobs' PROVE Owned(w.call, keyData)
  BY <1>1 DEF IInv, Pending
<1>3. Pending'
  <2>1. /\ device' = device /\ cached' = cached /\ keyData' = keyData
        /\ persister' = persister /\ posted' = posted
    OBVIOUS
  <2> QED
    BY <2>1, <1>2 DEF IInv, Pending
<1>4. Objects'
  <2>1. /\ seeds' = [m \in Models |-> seeds'[m]]
        /\ \A m \in Models : m # j.call.model => seeds'[m] = seeds[m]
    BY <1>1 DEF IInv, Objects, Owned
  <2>2. \A m \in Models : m > keyData => m # j.call.model
    BY <1>1, IdentityAssumption DEF Owned, Models, IInv, Objects
  <2> QED
    BY <2>1, <2>2 DEF IInv, Objects
<1> QED
  BY <1>3, <1>4 DEF IInv

\* The parts of Pending that the main thread's queue takes from the rest.
LEMMA QueueKept ==
    ASSUME IInv, NEW n \in Models, keyData <= n,
           keyData' = n,
           UNCHANGED <<device, cached, posted>>,
           Listed(persister'),
           \A i \in DOMAIN persister' : Owned(persister'[i], n),
           \A j \in jobs' : Owned(j.call, n)
    PROVE  Pending'
<1>1. keyData \in Models
  BY DEF IInv, Objects
<1>2. \A i \in DOMAIN posted : Owned(posted[i].call, n)
  BY <1>1, OwnedStays DEF IInv, Pending
<1>3. device' = device /\ cached' = cached /\ posted' = posted
  OBVIOUS
<1> QED
  BY <1>2, <1>3 DEF IInv, Pending

LEMMA OpenIInv == ASSUME IInv, Open PROVE IInv'
<1>1. keyData \in Models /\ keyData + 1 \in Models /\ keyData <= keyData + 1
  BY IdentityAssumption DEF IInv, Objects, Open, Models
<1>2. /\ keyData' = keyData + 1
      /\ UpdateAdId(Populates(keyData + 1), seeds, stored)
      /\ UNCHANGED <<device, cached, seeds, posted, changes>>
  BY DEF Open
<1>3. Objects'
  BY <1>1, <1>2, IdentityAssumption DEF IInv, Objects, Models, Service
<1>4. Listed(Populates(keyData + 1))
  BY PopulateCalls
<1>5. ASSUME NEW i \in DOMAIN Populates(keyData + 1)
      PROVE  Owned(Populates(keyData + 1)[i], keyData + 1)
  BY <1>1, PopulateCalls DEF Owned, Ops, Models
<1>6. /\ Listed(persister')
      /\ \A i \in DOMAIN persister' : Owned(persister'[i], keyData + 1)
      /\ \A j \in jobs' : Owned(j.call, keyData + 1)
  BY <1>1, <1>2, <1>4, <1>5, UpdateAdIdOwned DEF IInv
<1> QED
  BY <1>1, <1>2, <1>3, <1>6, QueueKept DEF IInv

\* One call for a model object m that is there afterwards.
LEMMA OneCallPending ==
    ASSUME IInv, NEW n \in Models, keyData <= n, keyData' = n,
           NEW m \in Models, m <= n,
           NEW op \in Ops, NEW text, NEW by, NEW held, NEW pref,
           UpdateAdId(<<Call(op, m, text, by)>>, held, pref),
           UNCHANGED <<device, cached, posted>>
    PROVE  Pending'
<1>1. Listed(<<Call(op, m, text, by)>>)
  BY OneCall
<1>2. ASSUME NEW i \in DOMAIN <<Call(op, m, text, by)>>
      PROVE  Owned(<<Call(op, m, text, by)>>[i], n)
  <2>1. /\ <<Call(op, m, text, by)>>[i].op = op
        /\ <<Call(op, m, text, by)>>[i].model = m
    BY OneCall
  <2> QED
    BY <2>1, IdentityAssumption DEF Owned, Models
<1>3. keyData \in Models
  BY DEF IInv, Objects
<1>4. /\ Listed(persister')
      /\ \A i \in DOMAIN persister' : Owned(persister'[i], n)
      /\ \A j \in jobs' : Owned(j.call, n)
  BY <1>1, <1>2, <1>3, UpdateAdIdOwned DEF IInv
<1> QED
  BY <1>4, QueueKept

LEMMA NextIInv == IInv /\ [Next]_vars => IInv'
<1> SUFFICES ASSUME IInv, [Next]_vars PROVE IInv'
  OBVIOUS
<1>1. CASE FetchId
  <2>1. device \in Ids
    BY DEF IInv, Pending
  <2> QED
    BY <1>1, PostedIInv DEF FetchId
<1>2. CASE FetchIdFails
  BY <1>2, PostedIInv DEF FetchIdFails
<1>3. CASE IdKnown
  <2> DEFINE c == Head(posted).call
  <2>1. c.op \in Ops
    BY <1>3, ListedTail DEF IdKnown, IInv, Pending, Owned
  <2>2. jobs' = jobs \cup Begin(c, cached, seeds[c.model], stored)
    BY <1>3 DEF IdKnown
  <2>3. \A j \in Begin(c, cached, seeds[c.model], stored) : j.call = c
    BY <2>1, BegunJobs
  <2> QED
    BY <1>3, <2>2, <2>3, TakenIInv DEF IdKnown
<1>4. CASE IdUnknown
  BY <1>4, TakenIInv DEF IdUnknown
<1>5. ASSUME NEW j \in jobs, Decrypted(j) PROVE IInv'
  BY <1>5, JobIInv DEF Decrypted
<1>6. ASSUME NEW j \in jobs, NotDecrypted(j) PROVE IInv'
  BY <1>6, JobIInv DEF NotDecrypted, DecryptFails, Job
<1>7. ASSUME NEW j \in jobs, Store(j) PROVE IInv'
  BY <1>7, JobIInv DEF Store, Job
<1>8. ASSUME NEW j \in jobs, Encrypted(j) PROVE IInv'
  BY <1>8, JobIInv DEF Encrypted
<1>9. ASSUME NEW j \in jobs, NotEncrypted(j) PROVE IInv'
  BY <1>9, JobIInv DEF NotEncrypted
<1>10. CASE Open
  BY <1>10, OpenIInv
<1>11. CASE NewIntent
  <2>1. /\ keyData \in Models /\ keyData <= keyData
        /\ keyData' = keyData
        /\ UpdateAdId(<<Call("populate", keyData, Blank, 1)>>, seeds, stored)
        /\ UNCHANGED <<device, cached, posted, seeds, changes>>
    BY <1>11, IdentityAssumption DEF NewIntent, IInv, Objects, Models
  <2>2. "populate" \in Ops
    BY DEF Ops
  <2>3. Pending'
    BY <2>1, <2>2, OneCallPending
  <2>4. Objects'
    BY <2>1 DEF IInv, Objects
  <2> QED
    BY <2>3, <2>4 DEF IInv
<1>12. CASE Flush
  BY <1>12 DEF Flush, IInv, Objects, Pending
<1>13. CASE Backup
  BY <1>13 DEF Backup, IInv, Objects, Pending
<1>14. ASSUME NEW text, Restore(text) PROVE IInv'
  <2>1. /\ keyData \in Models /\ keyData <= keyData
        /\ keyData' = keyData
        /\ UpdateAdId(<<Call("restore", keyData, text, 2 + changes)>>, seeds, text)
        /\ UNCHANGED <<device, cached, posted, seeds>>
        /\ changes' = changes + 1
    BY <1>14, IdentityAssumption DEF Restore, IInv, Objects, Models
  <2>2. "restore" \in Ops
    BY DEF Ops
  <2>3. Pending'
    BY <2>1, <2>2, OneCallPending
  <2>4. Objects'
    BY <2>1 DEF IInv, Objects
  <2> QED
    BY <2>3, <2>4 DEF IInv
<1>15. ASSUME NEW s, EnterPhrase(s) PROVE IInv'
  <2>1. /\ keyData \in Models /\ keyData + 1 \in Models /\ keyData <= keyData + 1
        /\ keyData' = keyData + 1
        /\ seeds' = [seeds EXCEPT ![keyData + 1] = s]
        /\ UpdateAdId(<<Call("save", keyData + 1, Blank, 2 + changes)>>, seeds', stored)
        /\ UNCHANGED <<device, cached, posted>>
        /\ changes' = changes + 1
    BY <1>15, IdentityAssumption DEF EnterPhrase, IInv, Objects, Models
  <2>2. "save" \in Ops
    BY DEF Ops
  <2>3. Pending'
    BY <2>1, <2>2, OneCallPending
  <2>4. Objects'
    <3>1. /\ keyData + 1 # Service
          /\ \A m \in Models : m > keyData + 1 => m > keyData /\ m # keyData + 1
      BY IdentityAssumption DEF IInv, Objects, Models, Service
    <3> QED
      BY <2>1, <3>1 DEF IInv, Objects
  <2> QED
    BY <2>3, <2>4 DEF IInv
<1>16. ASSUME NEW id \in Ids, ResetId(id) PROVE IInv'
  BY <1>16 DEF ResetId, IInv, Objects, Pending
<1>17. CASE Restart
  <2>1. Objects'
    BY <1>17, FirstObject DEF Restart, IInv, Objects
  <2>2. persister' = Populates(1) /\ posted' = <<>> /\ jobs' = {} /\ keyData' = 1
    BY <1>17 DEF Restart
  <2>3. Listed(persister') /\ Listed(posted')
    BY <2>2, PopulateCalls, NoCalls
  <2>4. \A i \in DOMAIN persister' : Owned(persister'[i], 1)
    BY <2>2, PopulateCalls, FirstObject DEF Owned, Ops
  <2>5. device' \in Ids
    BY <1>17 DEF Restart, IInv, Pending
  <2> QED
    BY <2>1, <2>2, <2>3, <2>4, <2>5 DEF IInv, Pending
<1>18. ASSUME NEW j \in jobs, DecryptionError(j) PROVE IInv'
  BY <1>18, JobIInv DEF DecryptionError, DecryptFails, Job
<1>19. CASE CreateService
  <2>1. /\ keyData \in Models /\ Service \in Models /\ Service <= keyData
        /\ keyData <= keyData /\ keyData' = keyData
        /\ UpdateAdId(<<Call("populate", Service, Blank, 0)>>, seeds, stored)
        /\ UNCHANGED <<device, cached, posted, seeds, changes>>
    BY <1>19, IdentityAssumption DEF CreateService, IInv, Objects, Models, Service
  <2>2. "populate" \in Ops
    BY DEF Ops
  <2>3. Pending'
    BY <2>1, <2>2, OneCallPending
  <2>4. Objects'
    BY <2>1 DEF IInv, Objects
  <2> QED
    BY <2>3, <2>4 DEF IInv
<1>20. CASE UNCHANGED vars
  BY <1>20 DEF vars, IInv, Objects, Pending
<1> QED
  BY <1>1, <1>2, <1>3, <1>4, <1>5, <1>6, <1>7, <1>8, <1>9, <1>10, <1>11, <1>12, <1>13,
     <1>14, <1>15, <1>16, <1>17, <1>18, <1>19, <1>20 DEF Next, Background

\* Calls are for objects that exist, and run on the main thread with the id.
THEOREM IInvAlways == Spec => []IInv
<1>1. Init => IInv
  BY InitIInv
<1>2. IInv /\ [Next]_vars => IInv'
  BY NextIInv
<1> QED
  BY <1>1, <1>2, PTL DEF Spec

-----------------------------------------------------------------------------
(* A stored identity is kept *)

\* A job that an identity which is kept lets run.
Reads(j, s) ==
    /\ j.step = "decrypt"
    /\ j.call.op = "populate"
    /\ j.text = Cipher(s, device)
    /\ j.key = device

\* Populates of an object that is new or holds no other seed.
LEMMA PopulatesKeep ==
    ASSUME IInv, NEW s, Kept(s),
           NEW calls, Listed(calls),
           \A i \in DOMAIN calls : calls[i].op = "populate",
           UpdateAdId(calls, seeds, stored)
    PROVE  /\ \A i \in DOMAIN persister' : persister'[i].op = "populate"
           /\ \A j \in jobs' : Reads(j, s)
<1>1. /\ Listed(persister)
      /\ \A i \in DOMAIN calls : calls[i].op \in Ops
  BY DEF IInv, Pending, Ops
<1>2. ASSUME NEW i \in DOMAIN persister' PROVE persister'[i].op = "populate"
  <2>1. \/ \E k \in DOMAIN persister : persister'[i] = persister[k]
        \/ \E k \in DOMAIN calls : persister'[i] = calls[k]
    BY <1>1, UpdateAdIdAdds
  <2> QED
    BY <2>1 DEF Kept
<1>3. ASSUME NEW j \in jobs', j \notin jobs PROVE Reads(j, s)
  <2>1. PICK k \in DOMAIN calls :
           /\ j.call = calls[k]
           /\ cached # None
           /\ j = Job("decrypt", calls[k], stored, cached)
    BY <1>1, <1>3, UpdateAdIdAdds
  <2>2. cached = device /\ stored = Cipher(s, device)
    BY <2>1 DEF Kept
  <2> QED
    BY <2>1, <2>2 DEF Reads, Job
<1>4. \A j \in jobs : Reads(j, s)
  BY DEF Kept, Reads
<1> QED
  BY <1>2, <1>3, <1>4

\* The executor answers a populate, whether it found the id or not.
LEMMA PostedKeeps ==
    ASSUME IInv, NEW s, Kept(s), NEW ok,
           persister # <<>>,
           persister' = Tail(persister),
           posted' = Append(posted, [call |-> Head(persister), ok |-> ok]),
           cached' \in {None, device},
           UNCHANGED <<device, stored, disk, keyData, seeds, jobs>>
    PROVE  Kept(s)'
<1>1. Listed(persister) /\ Listed(posted)
  BY DEF IInv, Pending
<1>2. ASSUME NEW i \in DOMAIN persister' PROVE persister'[i].op = "populate"
  <2>1. PICK k \in DOMAIN persister : persister'[i] = persister[k]
    BY <1>1, ListedTail
  <2> QED
    BY <2>1 DEF Kept
<1>3. Head(persister).op = "populate"
  BY <1>1, ListedTail DEF Kept
<1>4. ASSUME NEW i \in DOMAIN posted' PROVE posted'[i].call.op = "populate"
  <2>1. \/ posted'[i] = [call |-> Head(persister), ok |-> ok]
        \/ \E k \in DOMAIN posted : posted'[i] = posted[k]
    BY <1>1, ListedAppend
  <2> QED
    BY <2>1, <1>3 DEF Kept
<1>5. /\ device' = device /\ stored' = stored /\ disk' = disk /\ keyData' = keyData
      /\ seeds' = seeds /\ jobs' = jobs
  OBVIOUS
<1> QED
  BY <1>2, <1>4, <1>5 DEF Kept

\* The main thread takes the answer to a populate.
LEMMA TakenKeeps ==
    ASSUME IInv, NEW s, Kept(s),
           posted # <<>>,
           posted' = Tail(posted),
           \A j \in jobs' : Reads(j, s),
           UNCHANGED <<device, cached, stored, disk, keyData, seeds, persister>>
    PROVE  Kept(s)'
<1>1. Listed(posted)
  BY DEF IInv, Pending
<1>2. ASSUME NEW i \in DOMAIN posted' PROVE posted'[i].call.op = "populate"
  <2>1. PICK k \in DOMAIN posted : posted'[i] = posted[k]
    BY <1>1, ListedTail
  <2> QED
    BY <2>1 DEF Kept
<1>3. /\ device' = device /\ cached' = cached /\ stored' = stored /\ disk' = disk
      /\ keyData' = keyData /\ seeds' = seeds /\ persister' = persister
  OBVIOUS
<1> QED
  BY <1>2, <1>3 DEF Kept, Reads

LEMMA IdKnownKeeps ==
    ASSUME IInv, NEW s, Kept(s), IdKnown
    PROVE  Kept(s)'
<1> DEFINE c == Head(posted).call
<1>1. Listed(posted) /\ posted # <<>> /\ Head(posted).ok
  BY DEF IInv, Pending, IdKnown
<1>2. PICK i \in DOMAIN posted : Head(posted) = posted[i]
  BY <1>1, ListedTail
<1>3. c.op = "populate" /\ cached = device
  BY <1>1, <1>2 DEF Kept, IInv, Pending
<1>4. \A j \in Begin(c, cached, seeds[c.model], stored) : j = Job("decrypt", c, stored, cached)
  BY <1>3, BegunJobs DEF Ops
<1>5. \A j \in Begin(c, cached, seeds[c.model], stored) : Reads(j, s)
  BY <1>3, <1>4 DEF Kept, Reads, Job
<1>6. jobs' = jobs \cup Begin(c, cached, seeds[c.model], stored)
  BY DEF IdKnown
<1>7. \A j \in jobs' : Reads(j, s)
  BY <1>5, <1>6 DEF Kept, Reads
<1> QED
  BY <1>1, <1>7, TakenKeeps DEF IdKnown

\* No step but one of the user's changes takes the identity away.
LEMMA StepKeeps ==
    ASSUME IInv, NEW s, Kept(s), Next
    PROVE  Kept(s)' \/ changes' # changes
<1>1. CASE FetchId
  BY <1>1, PostedKeeps DEF FetchId
<1>2. CASE FetchIdFails
  <2>1. cached \in {None, device}
    BY DEF Kept
  <2> QED
    BY <1>2, <2>1, PostedKeeps DEF FetchIdFails
<1>3. CASE IdKnown
  BY <1>3, IdKnownKeeps
<1>4. CASE IdUnknown
  <2>1. \A j \in jobs : Reads(j, s)
    BY DEF Kept, Reads
  <2> QED
    BY <1>4, <2>1, TakenKeeps DEF IdUnknown
<1>5. ASSUME NEW j \in jobs, Decrypted(j) PROVE Kept(s)'
  <2>1. j.text.seed = s
    BY DEF Kept, Cipher
  <2>2. seeds'[keyData] \in {None, s}
    BY <1>5, <2>1 DEF Decrypted, Kept, IInv, Objects
  <2> QED
    BY <1>5, <2>2 DEF Decrypted, Kept
<1>6. ASSUME NEW j \in jobs, NotDecrypted(j) PROVE FALSE
  BY <1>6 DEF NotDecrypted, DecryptFails, Kept, Cipher
<1>7. ASSUME NEW j \in jobs, Store(j) \/ Encrypted(j) \/ NotEncrypted(j) PROVE FALSE
  BY <1>7 DEF Store, Encrypted, NotEncrypted, Kept
<1>8. CASE Open
  <2>1. /\ UpdateAdId(Populates(keyData + 1), seeds, stored)
        /\ keyData' = keyData + 1
        /\ UNCHANGED <<device, cached, stored, disk, seeds, posted>>
    BY <1>8 DEF Open
  <2>2. seeds[keyData + 1] = None
    BY <1>8, IdentityAssumption DEF Open, IInv, Objects, Models
  <2>3. /\ Listed(Populates(keyData + 1))
        /\ \A i \in DOMAIN Populates(keyData + 1) : Populates(keyData + 1)[i].op = "populate"
    BY PopulateCalls
  <2>4. /\ \A i \in DOMAIN persister' : persister'[i].op = "populate"
        /\ \A j \in jobs' : Reads(j, s)
    BY <2>1, <2>3, PopulatesKeep
  <2> QED
    BY <2>1, <2>2, <2>4 DEF Kept, Reads
<1>9. CASE NewIntent
  <2>1. /\ UpdateAdId(<<Call("populate", keyData, Blank, 1)>>, seeds, stored)
        /\ UNCHANGED <<device, cached, stored, disk, keyData, seeds, posted>>
    BY <1>9 DEF NewIntent
  <2>2. /\ Listed(<<Call("populate", keyData, Blank, 1)>>)
        /\ \A i \in DOMAIN <<Call("populate", keyData, Blank, 1)>> :
              <<Call("populate", keyData, Blank, 1)>>[i].op = "populate"
    BY OneCall
  <2>3. /\ \A i \in DOMAIN persister' : persister'[i].op = "populate"
        /\ \A j \in jobs' : Reads(j, s)
    BY <2>1, <2>2, PopulatesKeep
  <2> QED
    BY <2>1, <2>3 DEF Kept, Reads
<1>10. CASE Flush
  BY <1>10 DEF Flush, Kept
<1>11. CASE Backup
  BY <1>11 DEF Backup, Kept
<1>12. ASSUME \/ \E text \in backups \cup {Junk} : Restore(text)
              \/ \E t \in Phrases : EnterPhrase(t)
              \/ \E id \in Ids : ResetId(id)
       PROVE  changes' # changes
  <2>1. changes' = changes + 1 /\ changes \in Nat
    BY <1>12 DEF Restore, EnterPhrase, ResetId, IInv, Objects
  <2> QED
    BY <2>1
<1>13. CASE Restart
  <2>1. /\ stored' = disk /\ UNCHANGED <<device, disk>>
        /\ cached' = None /\ keyData' = 1
        /\ seeds' = [m \in Models |-> None]
        /\ persister' = Populates(1) /\ posted' = <<>> /\ jobs' = {}
    BY <1>13 DEF Restart
  <2>2. \A i \in DOMAIN Populates(1) : Populates(1)[i].op = "populate"
    BY PopulateCalls
  <2> QED
    BY <2>1, <2>2, FirstObject DEF Kept
<1>14. ASSUME NEW j \in jobs, DecryptionError(j) PROVE changes' # changes
  BY <1>14 DEF DecryptionError, IInv, Objects
<1>15. CASE CreateService
  <2>1. /\ UpdateAdId(<<Call("populate", Service, Blank, 0)>>, seeds, stored)
        /\ UNCHANGED <<device, cached, stored, disk, keyData, seeds, posted>>
    BY <1>15 DEF CreateService
  <2>2. /\ Listed(<<Call("populate", Service, Blank, 0)>>)
        /\ \A i \in DOMAIN <<Call("populate", Service, Blank, 0)>> :
              <<Call("populate", Service, Blank, 0)>>[i].op = "populate"
    BY OneCall
  <2>3. /\ \A i \in DOMAIN persister' : persister'[i].op = "populate"
        /\ \A j \in jobs' : Reads(j, s)
    BY <2>1, <2>2, PopulatesKeep
  <2> QED
    BY <2>1, <2>3 DEF Kept, Reads
<1> QED
  BY <1>1, <1>2, <1>3, <1>4, <1>5, <1>6, <1>7, <1>8, <1>9, <1>10, <1>11, <1>12, <1>13,
     <1>14, <1>15 DEF Next, Background

\* An identity that is stored, and that nothing under way can replace, stays the
\* identity until the user restores, types a phrase or resets the id.
THEOREM IdentityKeptAlways == Spec => IdentityKept
<1>1. Init => IInv
  BY InitIInv
<1>2. IInv /\ [Next]_vars => IInv'
  BY NextIInv
<1>3. ASSUME IInv, Next, NEW s \in Seeds, Kept(s)
      PROVE  Kept(s)' \/ changes' # changes
  BY <1>3, StepKeeps
<1>4. IInv /\ [Next]_vars =>
         [\A s \in Seeds : Kept(s) => Kept(s)' \/ changes' # changes]_vars
  BY <1>3
<1> QED
  BY <1>1, <1>2, <1>4, PTL DEF Spec, IdentityKept

-----------------------------------------------------------------------------
(* Types *)

\* The object of a call that saves has a seed.
HasSeed(c, held) == c.op = "save" => held[c.model] \in Seeds

\* The types, and besides: what saves has something to save, and nothing is
\* encrypted or decrypted before the id is known.
TypeInv ==
    /\ cached \in Ids \cup {None}
    /\ stored \in Texts /\ disk \in Texts
    /\ seeds \in [Models -> Seeds \cup {None}]
    /\ persister \in Seq(Calls)
    /\ posted \in Seq([call : Calls, ok : BOOLEAN])
    /\ jobs \subseteq Jobs
    /\ backups \subseteq Texts
    /\ notice \in {"none", "restored", "failed"}
    /\ unavailable \in BOOLEAN
    /\ changes \in 0 .. MaxChanges
    /\ restarts \in 0 .. MaxRestarts
    /\ jobs # {} => cached # None
    /\ \A i \in DOMAIN persister : HasSeed(persister[i], seeds)
    /\ \A i \in DOMAIN posted : HasSeed(posted[i].call, seeds)
    /\ \A j \in jobs : j.step = "store" => seeds[j.call.model] \in Seeds

\* generateRandomSeed draws a seed that occurs nowhere.
SeedLeft == Random \ Drawn # {}

\* A text that a key decrypts holds a seed.
LEMMA DecryptedSeed ==
    ASSUME NEW text \in Texts, text.key \in Ids
    PROVE  text.seed \in Seeds
<1>1. Blank.key = None /\ Junk.key = "junk"
  BY DEF Blank, Junk, Cipher
<1>2. text \in [seed : Seeds, key : Ids]
  BY <1>1, IdentityAssumption DEF Texts
<1> QED
  BY <1>2

\* What is stored is a text, and so is what is encrypted for an id.
LEMMA TextTypes ==
    /\ Blank \in Texts /\ Junk \in Texts
    /\ \A s \in Seeds, k \in Ids : Cipher(s, k) \in Texts
  BY DEF Texts, Cipher

\* The elements of a queue.
LEMMA QueueElements ==
    ASSUME NEW S, NEW q \in Seq(S)
    PROVE  /\ \A i \in DOMAIN q : q[i] \in S
           /\ q # <<>> => Head(q) \in S /\ Tail(q) \in Seq(S)
  OBVIOUS

\* onComplete begins an encryption or a decryption.
LEMMA BegunTyped ==
    ASSUME NEW c \in Calls, NEW key \in Ids, NEW seed \in Seeds \cup {None}, NEW text \in Texts,
           c.op = "save" => seed \in Seeds
    PROVE  /\ Begin(c, key, seed, text) \subseteq Jobs
           /\ \A j \in Begin(c, key, seed, text) : j.step # "store"
<1>1. c.op \in {"populate", "restore", "save"} /\ c.text \in Texts
  BY DEF Calls
<1>2. CASE c.op = "populate"
  BY <1>2 DEF Begin, Job, Jobs
<1>3. CASE c.op = "restore"
  BY <1>1, <1>3 DEF Begin, Job, Jobs
<1>4. CASE c.op = "save"
  <2>1. Cipher(seed, key) \in Texts
    BY <1>4, TextTypes
  <2> QED
    BY <1>4, <2>1 DEF Begin, Job, Jobs
<1> QED
  BY <1>1, <1>2, <1>3, <1>4

\* updateAdId of calls whose objects have what they are to save.
LEMMA UpdateAdIdTyped ==
    ASSUME TypeInv, NEW calls \in Seq(Calls), NEW held \in [Models -> Seeds \cup {None}],
           NEW text \in Texts,
           \A i \in DOMAIN calls : HasSeed(calls[i], held),
           \A m \in Models : seeds[m] \in Seeds => held[m] \in Seeds,
           UpdateAdId(calls, held, text)
    PROVE  /\ persister' \in Seq(Calls)
           /\ \A i \in DOMAIN persister' : HasSeed(persister'[i], held)
           /\ jobs' \subseteq Jobs
           /\ jobs' # {} => cached # None
           /\ \A j \in jobs' : j.step = "store" => held[j.call.model] \in Seeds
<1>1. \A i \in DOMAIN persister : HasSeed(persister[i], held)
  <2> TAKE i \in DOMAIN persister
  <2>1. persister[i] \in Calls
    BY DEF TypeInv
  <2>2. persister[i].model \in Models
    BY <2>1 DEF Calls
  <2> QED
    BY <2>2 DEF TypeInv, HasSeed
<1>2. \A j \in jobs : j.step = "store" => held[j.call.model] \in Seeds
  <2> TAKE j \in jobs
  <2>1. j.call.model \in Models
    BY DEF TypeInv, Jobs, Calls
  <2> QED
    BY <2>1 DEF TypeInv
<1>3. CASE cached = None
  <2>1. persister' = persister \o calls /\ jobs' = jobs
    BY <1>3 DEF UpdateAdId
  <2>2. persister \in Seq(Calls)
    BY DEF TypeInv
  <2>3. persister' \in Seq(Calls)
    BY <2>1, <2>2
  <2>4. ASSUME NEW i \in DOMAIN persister' PROVE HasSeed(persister'[i], held)
    <3>1. Listed(persister) /\ Listed(calls)
      BY <2>2 DEF Listed
    <3>2. From(persister \o calls, persister, calls)
      BY <3>1, ListedConcat, Zenon
    <3>3. From(persister', persister, calls)
      BY <2>1, <3>2, Zenon
    <3> QED
      BY <1>1, <3>3, Zenon DEF From
  <2> QED
    BY <1>2, <2>1, <2>3, <2>4 DEF TypeInv
<1>4. CASE cached # None
  <2>1. /\ persister' = persister
        /\ jobs' = jobs \cup UNION {Begin(c, cached, held[c.model], text) : c \in Range(calls)}
    BY <1>4 DEF UpdateAdId
  <2>2. ASSUME NEW j \in jobs', j \notin jobs PROVE j \in Jobs /\ j.step # "store"
    <3>1. PICK k \in DOMAIN calls : j \in Begin(calls[k], cached, held[calls[k].model], text)
      BY <2>1, <2>2 DEF Range
    <3>2. calls[k] \in Calls /\ calls[k].model \in Models
      <4>1. calls[k] \in Calls
        BY <3>1
      <4> QED
        BY <4>1 DEF Calls
    <3>3. held[calls[k].model] \in Seeds \cup {None} /\ cached \in Ids
      BY <1>4, <3>2 DEF TypeInv
    <3> QED
      BY <3>1, <3>2, <3>3, BegunTyped DEF HasSeed
  <2> QED
    BY <1>1, <1>2, <1>4, <2>1, <2>2 DEF TypeInv
<1> QED
  BY <1>3, <1>4

\* A step that leaves calls and jobs as they are, or takes some away.
LEMMA FewerTyped ==
    ASSUME TypeInv,
           cached' = cached \/ cached' \in Ids,
           seeds' \in [Models -> Seeds \cup {None}],
           \A m \in Models : seeds[m] \in Seeds => seeds'[m] \in Seeds,
           stored' \in Texts, disk' \in Texts, backups' \subseteq Texts,
           persister' \in Seq(Calls), \A i \in DOMAIN persister' : HasSeed(persister'[i], seeds'),
           posted' \in Seq([call : Calls, ok : BOOLEAN]),
           \A i \in DOMAIN posted' : HasSeed(posted'[i].call, seeds'),
           jobs' \subseteq Jobs, jobs' # {} => cached # None,
           \A j \in jobs' : j.step = "store" => seeds'[j.call.model] \in Seeds,
           notice' \in {"none", "restored", "failed"}, unavailable' \in BOOLEAN,
           changes' \in 0 .. MaxChanges, restarts' \in 0 .. MaxRestarts
    PROVE  TypeInv'
  BY IdentityAssumption DEF TypeInv

\* Objects only get seeds: what waits keeps what it is to save.
LEMMA SeedsKept ==
    ASSUME TypeInv, NEW held, \A m \in Models : seeds[m] \in Seeds => held[m] \in Seeds
    PROVE  /\ \A i \in DOMAIN persister : HasSeed(persister[i], held)
           /\ \A i \in DOMAIN posted : HasSeed(posted[i].call, held)
           /\ \A j \in jobs : j.step = "store" => held[j.call.model] \in Seeds
<1>1. \A i \in DOMAIN persister : persister[i].model \in Models
  <2>1. \A i \in DOMAIN persister : persister[i] \in Calls
    BY DEF TypeInv
  <2> QED
    BY <2>1 DEF Calls
<1>2. \A i \in DOMAIN posted : posted[i].call.model \in Models
  <2> DEFINE A == [call : Calls, ok : BOOLEAN]
  <2>1. \A i \in DOMAIN posted : posted[i] \in A
    <3>1. posted \in Seq(A)
      BY DEF TypeInv
    <3> HIDE DEF A
    <3> QED
      BY <3>1, QueueElements
  <2> QED
    BY <2>1 DEF Calls
<1>3. \A j \in jobs : j.call.model \in Models
  BY DEF TypeInv, Jobs, Calls
<1> QED
  BY <1>1, <1>2, <1>3 DEF TypeInv, HasSeed

\* The executor answers the next call.
LEMMA FetchTyped ==
    ASSUME TypeInv, Pending, FetchId \/ FetchIdFails
    PROVE  TypeInv'
<1>1. PICK ok \in BOOLEAN :
        /\ persister # <<>>
        /\ persister' = Tail(persister)
        /\ posted' = Append(posted, [call |-> Head(persister), ok |-> ok])
  BY DEF FetchId, FetchIdFails
<1>2. Listed(persister) /\ Listed(posted)
  BY DEF Pending
<1>3. persister \in Seq(Calls) /\ posted \in Seq([call : Calls, ok : BOOLEAN])
  BY DEF TypeInv
<1>4. Head(persister) \in Calls /\ persister' \in Seq(Calls)
  BY <1>1, <1>3
<1>5. posted' \in Seq([call : Calls, ok : BOOLEAN])
  <2>1. [call |-> Head(persister), ok |-> ok] \in [call : Calls, ok : BOOLEAN]
    BY <1>4
  <2> QED
    BY <1>1, <1>3, <2>1
<1>6. HasSeed(Head(persister), seeds)
  BY <1>1, <1>2, ListedTail DEF TypeInv
<1>7. \A i \in DOMAIN persister' : HasSeed(persister'[i], seeds)
  BY <1>1, <1>2, ListedTail DEF TypeInv
<1>8. ASSUME NEW i \in DOMAIN posted' PROVE HasSeed(posted'[i].call, seeds)
  <2>1. \/ posted'[i] = [call |-> Head(persister), ok |-> ok]
        \/ \E k \in DOMAIN posted : posted'[i] = posted[k]
    BY <1>1, <1>2, ListedAppend
  <2> QED
    BY <1>6, <2>1 DEF TypeInv
<1>9. /\ cached' = cached \/ cached' \in Ids
      /\ UNCHANGED <<stored, disk, seeds, jobs, backups, notice, unavailable, changes, restarts>>
  BY DEF FetchId, FetchIdFails, Pending
<1> QED
  BY <1>4, <1>5, <1>7, <1>8, <1>9, FewerTyped DEF TypeInv

\* The main thread takes the next answer.
LEMMA AnsweredTyped ==
    ASSUME TypeInv, Pending, IdKnown \/ IdUnknown
    PROVE  TypeInv'
<1>1. posted # <<>> /\ posted' = Tail(posted) /\ Listed(posted)
  BY DEF IdKnown, IdUnknown, Pending
<1>2. posted \in Seq([call : Calls, ok : BOOLEAN])
  BY DEF TypeInv
<1>3. posted' \in Seq([call : Calls, ok : BOOLEAN]) /\ Head(posted).call \in Calls
  <2> DEFINE A == [call : Calls, ok : BOOLEAN]
  <2>1. Head(posted) \in A /\ Tail(posted) \in Seq(A)
    <3> HIDE DEF A
    <3> QED
      BY <1>1, <1>2, QueueElements DEF A
  <2> QED
    BY <1>1, <2>1
<1>4. /\ HasSeed(Head(posted).call, seeds)
      /\ \A i \in DOMAIN posted' : HasSeed(posted'[i].call, seeds)
  BY <1>1, ListedTail DEF TypeInv
<1>5. CASE IdKnown
  <2> DEFINE c == Head(posted).call
  <2>1. cached \in Ids
    BY <1>1, <1>5, ListedTail DEF IdKnown, Pending, TypeInv
  <2>2. c.model \in Models
    BY <1>3 DEF Calls
  <2>3. seeds[c.model] \in Seeds \cup {None} /\ stored \in Texts
    BY <2>2 DEF TypeInv
  <2>4. /\ Begin(c, cached, seeds[c.model], stored) \subseteq Jobs
        /\ \A j \in Begin(c, cached, seeds[c.model], stored) : j.step # "store"
    BY <1>3, <1>4, <2>1, <2>3, BegunTyped DEF HasSeed
  <2>5. /\ jobs' = jobs \cup Begin(c, cached, seeds[c.model], stored)
        /\ UNCHANGED <<cached, stored, disk, seeds, persister, backups, notice, unavailable,
                       changes, restarts>>
    BY <1>5 DEF IdKnown
  <2> HIDE DEF c
  <2> QED
    BY <1>3, <1>4, <2>1, <2>4, <2>5, IdentityAssumption, FewerTyped DEF TypeInv
<1>6. CASE IdUnknown
  <2>1. /\ unavailable' \in BOOLEAN /\ notice' \in {"none", "restored", "failed"}
        /\ UNCHANGED <<cached, stored, disk, seeds, persister, jobs, backups, changes, restarts>>
    BY <1>6 DEF IdUnknown, TypeInv
  <2> QED
    BY <1>3, <1>4, <2>1, FewerTyped DEF TypeInv
<1> QED
  BY <1>5, <1>6

\* Encryption and decryption.
LEMMA JobTyped ==
    ASSUME TypeInv, SeedLeft, NEW j \in jobs,
           \/ Decrypted(j) \/ NotDecrypted(j) \/ DecryptionError(j)
           \/ Store(j) \/ Encrypted(j) \/ NotEncrypted(j)
    PROVE  TypeInv'
<1>1. /\ j \in Jobs /\ j.call \in Calls /\ j.call.model \in Models /\ j.text \in Texts
      /\ j.key \in Ids /\ cached \in Ids
  BY IdentityAssumption DEF TypeInv, Jobs, Calls
<1>2. /\ UNCHANGED <<cached, disk, persister, posted, backups, restarts>>
      /\ changes' \in 0 .. MaxChanges
      /\ persister \in Seq(Calls) /\ posted \in Seq([call : Calls, ok : BOOLEAN])
      /\ seeds \in [Models -> Seeds \cup {None}]
  BY IdentityAssumption
  DEF TypeInv, Decrypted, NotDecrypted, DecryptionError, DecryptFails, Store, Encrypted,
      NotEncrypted
<1>3. RandomSeed \in Seeds
  <2>1. \E s \in Random : s \notin Drawn
    BY DEF SeedLeft
  <2> QED
    BY <2>1 DEF RandomSeed, Seeds
<1>4. /\ seeds' \in [Models -> Seeds \cup {None}]
      /\ \A m \in Models : seeds[m] \in Seeds => seeds'[m] \in Seeds
      /\ DecryptFails(j) /\ j.call.op = "populate" => seeds'[j.call.model] \in Seeds
  <2>1. CASE Decrypted(j)
    <3>1. j.text.seed \in Seeds
      BY <1>1, <2>1, DecryptedSeed DEF Decrypted
    <3> QED
      BY <1>1, <1>2, <2>1, <3>1 DEF Decrypted, DecryptFails
  <2>2. CASE NotDecrypted(j) \/ DecryptionError(j)
    BY <1>1, <1>2, <1>3, <2>2 DEF NotDecrypted, DecryptionError, DecryptFails
  <2>3. CASE Store(j) \/ Encrypted(j) \/ NotEncrypted(j)
    BY <1>2, <2>3 DEF Store, Encrypted, NotEncrypted, DecryptFails
  <2> QED
    BY <2>1, <2>2, <2>3
<1>5. /\ \A i \in DOMAIN persister : HasSeed(persister[i], seeds')
      /\ \A i \in DOMAIN posted : HasSeed(posted[i].call, seeds')
      /\ \A k \in jobs : k.step = "store" => seeds'[k.call.model] \in Seeds
  BY <1>4, SeedsKept
<1>6. /\ jobs' \subseteq Jobs
      /\ \A k \in jobs' : k.step = "store" => seeds'[k.call.model] \in Seeds
  <2>1. CASE DecryptFails(j) /\ j.call.op = "populate"
    <3>1. jobs' = (jobs \ {j}) \cup {Job("store", j.call, Blank, j.key)}
      BY <2>1 DEF DecryptFails
    <3>2. Job("store", j.call, Blank, j.key) \in Jobs
      BY <1>1, TextTypes DEF Job, Jobs
    <3>3. Job("store", j.call, Blank, j.key).call = j.call
      BY DEF Job
    <3> QED
      BY <1>4, <1>5, <2>1, <3>1, <3>2, <3>3 DEF TypeInv
  <2>2. CASE Store(j)
    <3> DEFINE next == Job("encrypt", j.call, Cipher(seeds[j.call.model], cached), cached)
    <3>1. jobs' = (jobs \ {j}) \cup {next}
      BY <2>2 DEF Store
    <3>2. seeds[j.call.model] \in Seeds
      BY <2>2 DEF Store, TypeInv
    <3>3. Cipher(seeds[j.call.model], cached) \in Texts
      BY <1>1, <3>2, TextTypes
    <3>4. next \in Jobs /\ next.step = "encrypt"
      BY <1>1, <3>3 DEF Job, Jobs
    <3> HIDE DEF next
    <3> QED
      BY <1>5, <3>1, <3>4 DEF TypeInv
  <2>3. CASE \/ Decrypted(j) \/ Encrypted(j) \/ NotEncrypted(j)
             \/ DecryptFails(j) /\ j.call.op # "populate"
    <3>1. jobs' = jobs \ {j}
      BY <2>3 DEF Decrypted, Encrypted, NotEncrypted, DecryptFails
    <3> QED
      BY <1>5, <3>1 DEF TypeInv
  <2> QED
    BY <2>1, <2>2, <2>3 DEF NotDecrypted, DecryptionError
<1>7. /\ stored' \in Texts
      /\ notice' \in {"none", "restored", "failed"} /\ unavailable' \in BOOLEAN
  BY <1>1
  DEF TypeInv, Decrypted, NotDecrypted, DecryptionError, DecryptFails, Store, Encrypted,
      NotEncrypted
<1>8. cached # None
  BY <1>1, IdentityAssumption
<1> QED
  BY <1>2, <1>4, <1>5, <1>6, <1>7, <1>8, FewerTyped DEF TypeInv

\* A call for an object that there is, or for the next one.
LEMMA CallTyped ==
    ASSUME NEW op \in {"populate", "restore", "save"}, NEW m \in Models, NEW text \in Texts,
           NEW by \in Nat
    PROVE  /\ Call(op, m, text, by) \in Calls
           /\ Call(op, m, text, by).op = op
           /\ Call(op, m, text, by).model = m
  BY DEF Call, Calls

\* Calls of updateAdId by the user, or by an activity that is opened.
LEMMA CalledTyped ==
    ASSUME TypeInv, NEW calls \in Seq(Calls), NEW text \in Texts,
           seeds' \in [Models -> Seeds \cup {None}],
           \A m \in Models : seeds[m] \in Seeds => seeds'[m] \in Seeds,
           \A i \in DOMAIN calls : HasSeed(calls[i], seeds'),
           UpdateAdId(calls, seeds', text),
           stored' \in Texts, changes' \in 0 .. MaxChanges, unavailable' \in BOOLEAN,
           UNCHANGED <<cached, disk, posted, backups, notice, restarts>>
    PROVE  TypeInv'
<1>1. /\ persister' \in Seq(Calls)
      /\ \A i \in DOMAIN persister' : HasSeed(persister'[i], seeds')
      /\ jobs' \subseteq Jobs
      /\ jobs' # {} => cached # None
      /\ \A j \in jobs' : j.step = "store" => seeds'[j.call.model] \in Seeds
  BY UpdateAdIdTyped
<1>2. \A i \in DOMAIN posted : HasSeed(posted[i].call, seeds')
  BY SeedsKept
<1>3. /\ cached' = cached /\ disk' = disk /\ posted' = posted /\ backups' = backups
      /\ notice' = notice /\ restarts' = restarts
      /\ posted \in Seq([call : Calls, ok : BOOLEAN]) /\ disk \in Texts /\ backups \subseteq Texts
      /\ notice \in {"none", "restored", "failed"} /\ restarts \in 0 .. MaxRestarts
  BY DEF TypeInv
<1> QED
  BY <1>1, <1>2, <1>3, FewerTyped

\* The populates of an object.
LEMMA PopulatesTyped ==
    ASSUME NEW m \in Models, NEW held
    PROVE  /\ Populates(m) \in Seq(Calls)
           /\ \A i \in DOMAIN Populates(m) : HasSeed(Populates(m)[i], held)
<1>1. Call("populate", m, Blank, 0) \in Calls /\ Call("populate", m, Blank, 1) \in Calls
  BY CallTyped, TextTypes
<1>2. Populates(m) \in Seq(Calls)
  BY <1>1 DEF Populates
<1> QED
  BY <1>2, PopulateCalls DEF HasSeed

\* One call.
LEMMA OneCallTyped ==
    ASSUME NEW op \in {"populate", "restore", "save"}, NEW m \in Models, NEW text \in Texts,
           NEW by \in Nat, NEW held, op = "save" => held[m] \in Seeds
    PROVE  /\ <<Call(op, m, text, by)>> \in Seq(Calls)
           /\ \A i \in DOMAIN <<Call(op, m, text, by)>> :
                HasSeed(<<Call(op, m, text, by)>>[i], held)
<1>1. Call(op, m, text, by) \in Calls
  BY CallTyped
<1>2. <<Call(op, m, text, by)>> \in Seq(Calls)
  BY <1>1
<1> QED
  BY <1>2, OneCall DEF HasSeed

\* Every step keeps the types, while there is a seed to draw.
LEMMA TypeStep ==
    ASSUME IInv, TypeInv, SeedLeft, [Next]_vars
    PROVE  TypeInv'
<1>0. /\ keyData \in Models /\ changes \in Nat
      /\ seeds \in [Models -> Seeds \cup {None}] /\ stored \in Texts
      /\ changes \in 0 .. MaxChanges /\ unavailable \in BOOLEAN
  BY DEF IInv, Objects, TypeInv
<1>1. CASE FetchId \/ FetchIdFails
  BY <1>1, FetchTyped DEF IInv
<1>2. CASE IdKnown \/ IdUnknown
  BY <1>2, AnsweredTyped DEF IInv
<1>3. ASSUME NEW j \in jobs,
             \/ Decrypted(j) \/ NotDecrypted(j) \/ DecryptionError(j)
             \/ Store(j) \/ Encrypted(j) \/ NotEncrypted(j)
      PROVE  TypeInv'
  BY <1>3, JobTyped
<1>4. CASE Open
  <2>1. /\ keyData + 1 \in Models /\ seeds' = seeds
        /\ UpdateAdId(Populates(keyData + 1), seeds, stored)
        /\ UNCHANGED <<cached, stored, disk, posted, backups, notice, changes, restarts>>
        /\ unavailable' \in BOOLEAN
    <3>1. keyData' = keyData + 1 /\ UpdateAdId(Populates(keyData'), seeds, stored)
      BY <1>4 DEF Open
    <3>2. keyData + 1 \in Models
      BY <1>0, <1>4, IdentityAssumption DEF Open, Models
    <3>3. UpdateAdId(Populates(keyData + 1), seeds, stored)
      BY <3>1, Zenon
    <3> QED
      BY <1>4, <3>2, <3>3 DEF Open
  <2> QED
    BY <1>0, <2>1, PopulatesTyped, CalledTyped
<1>5. CASE NewIntent
  <2>1. /\ seeds' = seeds
        /\ UpdateAdId(<<Call("populate", keyData, Blank, 1)>>, seeds, stored)
        /\ UNCHANGED <<cached, stored, disk, posted, backups, notice, changes, restarts,
                       unavailable>>
    BY <1>5 DEF NewIntent
  <2>2. /\ <<Call("populate", keyData, Blank, 1)>> \in Seq(Calls)
        /\ \A i \in DOMAIN <<Call("populate", keyData, Blank, 1)>> :
             HasSeed(<<Call("populate", keyData, Blank, 1)>>[i], seeds)
    BY <1>0, TextTypes, OneCallTyped
  <2> QED
    BY <1>0, <2>1, <2>2, CalledTyped
<1>6. CASE Flush \/ Backup
  BY <1>6 DEF Flush, Backup, TypeInv
<1>7. ASSUME NEW text \in backups \cup {Junk}, Restore(text) PROVE TypeInv'
  <2> DEFINE calls == <<Call("restore", keyData, text, 2 + changes)>>
  <2>1. /\ seeds' = seeds /\ stored' = text
        /\ UpdateAdId(calls, seeds, text)
        /\ UNCHANGED <<cached, disk, posted, backups, notice, restarts, unavailable>>
        /\ changes' \in 0 .. MaxChanges
    BY <1>0, <1>7, IdentityAssumption DEF Restore
  <2>2. text \in Texts
    BY TextTypes DEF TypeInv
  <2>3. /\ calls \in Seq(Calls)
        /\ \A i \in DOMAIN calls : HasSeed(calls[i], seeds)
    BY <1>0, <2>2, OneCallTyped
  <2> HIDE DEF calls
  <2> QED
    BY <1>0, <2>1, <2>2, <2>3, CalledTyped
<1>8. ASSUME NEW s \in Phrases, EnterPhrase(s) PROVE TypeInv'
  <2> DEFINE m == keyData + 1
             by == 2 + changes
             calls == <<Call("save", m, Blank, by)>>
  <2>1. /\ keyData + 1 \in Models /\ s \in Seeds
        /\ seeds' = [seeds EXCEPT ![keyData + 1] = s]
        /\ UpdateAdId(calls, seeds', stored)
        /\ UNCHANGED <<cached, stored, disk, posted, backups, notice, restarts, unavailable>>
        /\ changes' \in 0 .. MaxChanges
    BY <1>0, <1>8, IdentityAssumption DEF EnterPhrase, Models, Seeds
  <2>2. /\ seeds' \in [Models -> Seeds \cup {None}]
        /\ \A k \in Models : seeds[k] \in Seeds => seeds'[k] \in Seeds
        /\ seeds'[keyData + 1] \in Seeds
    BY <1>0, <2>1
  <2>3. /\ calls \in Seq(Calls)
        /\ \A i \in DOMAIN calls : HasSeed(calls[i], seeds')
    <3>1. m \in Models /\ by \in Nat /\ seeds'[m] \in Seeds
      BY <1>0, <2>1, <2>2
    <3> HIDE DEF m, by
    <3> QED
      BY <3>1, TextTypes, OneCallTyped
  <2> HIDE DEF calls
  <2> QED
    BY <1>0, <2>1, <2>2, <2>3, CalledTyped
<1>9. ASSUME NEW id \in Ids, ResetId(id) PROVE TypeInv'
  BY <1>0, <1>9, IdentityAssumption DEF ResetId, TypeInv
<1>10. CASE Restart
  <2>1. persister' = Populates(1) /\ posted' = <<>> /\ jobs' = {} /\ 1 \in Models
    BY <1>10, FirstObject DEF Restart
  <2>2. /\ persister' \in Seq(Calls)
        /\ \A i \in DOMAIN persister' : HasSeed(persister'[i], seeds')
    BY <2>1, PopulatesTyped
  <2>3. posted' \in Seq([call : Calls, ok : BOOLEAN]) /\ DOMAIN posted' = {}
    BY <2>1
  <2>4. /\ cached' = None /\ stored' = disk /\ disk' = disk /\ backups' = backups
        /\ seeds' = [m \in Models |-> None] /\ notice' = "none" /\ unavailable' = FALSE
        /\ changes' = changes /\ restarts' \in 0 .. MaxRestarts
    BY <1>10, IdentityAssumption DEF Restart, TypeInv
  <2> QED
    BY <2>1, <2>2, <2>3, <2>4 DEF TypeInv
<1>11. CASE CreateService
  <2>1. /\ seeds' = seeds /\ Service \in Models
        /\ UpdateAdId(<<Call("populate", Service, Blank, 0)>>, seeds, stored)
        /\ UNCHANGED <<cached, stored, disk, posted, backups, notice, changes, restarts,
                       unavailable>>
    BY <1>11, IdentityAssumption DEF CreateService, Service, Models
  <2>2. /\ <<Call("populate", Service, Blank, 0)>> \in Seq(Calls)
        /\ \A i \in DOMAIN <<Call("populate", Service, Blank, 0)>> :
             HasSeed(<<Call("populate", Service, Blank, 0)>>[i], seeds)
    BY <2>1, TextTypes, OneCallTyped
  <2> QED
    BY <1>0, <2>1, <2>2, CalledTyped
<1>12. CASE UNCHANGED vars
  BY <1>12 DEF vars, TypeInv
<1> QED
  BY <1>1, <1>2, <1>3, <1>4, <1>5, <1>6, <1>7, <1>8, <1>9, <1>10, <1>11, <1>12 DEF Next, Background

\* The types at the first start.
LEMMA TypeInit == Init => TypeInv
<1> SUFFICES ASSUME Init PROVE TypeInv
  OBVIOUS
<1>1. 1 \in Models
  BY FirstObject
<1>2. /\ persister \in Seq(Calls)
      /\ \A i \in DOMAIN persister : HasSeed(persister[i], seeds)
  BY <1>1, PopulatesTyped DEF Init
<1>3. posted \in Seq([call : Calls, ok : BOOLEAN]) /\ DOMAIN posted = {}
  BY DEF Init
<1>4. /\ cached \in Ids \cup {None} /\ jobs = {} /\ backups = {}
      /\ notice \in {"none", "restored", "failed"} /\ unavailable \in BOOLEAN
  BY DEF Init
<1>5. seeds \in [Models -> Seeds \cup {None}]
  BY DEF Init
<1>6. stored \in Texts /\ disk \in Texts
  BY TextTypes DEF Init
<1>7. changes \in 0 .. MaxChanges /\ restarts \in 0 .. MaxRestarts
  BY IdentityAssumption DEF Init
<1> QED
  BY <1>2, <1>3, <1>4, <1>5, <1>6, <1>7 DEF TypeInv

\* As long as a seed can be drawn that occurs nowhere yet, all variables keep
\* their types: what is saved is always a seed under an id of the device.
THEOREM IdentityTyped == Spec /\ []SeedLeft => []TypeOK
<1>1. Init => TypeInv
  BY TypeInit
<1>2. IInv /\ TypeInv /\ SeedLeft /\ [Next]_vars => TypeInv'
  BY TypeStep
<1>3. IInv /\ TypeInv => TypeOK
  BY DEF IInv, Objects, Pending, TypeInv, TypeOK
<1> QED
  BY <1>1, <1>2, <1>3, IInvAlways, PTL DEF Spec

=============================================================================
