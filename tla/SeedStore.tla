----------------------------- MODULE SeedStore ------------------------------
(***************************************************************************)
(* The identity of the DigiID app: the seed phrase in memory, its          *)
(* encryption in the shared preferences under the device's advertising id, *)
(* and the ways it gets there: the populates of every start and of the     *)
(* password service, a restore from a backup, a phrase that the user types.*)
(*                                                                         *)
(* The id comes from a background thread and its answer through the main   *)
(* thread; encryption and decryption answer on threads of their own.       *)
(* Between those steps the user goes on, the activity may be opened again  *)
(* and the process may die.                                                *)
(***************************************************************************)
EXTENDS Naturals, Sequences, FiniteSets, SequencesExt

CONSTANTS
    Ids,            \* advertising ids of the device
    Random,         \* seeds that generateRandomSeed may draw
    Phrases,        \* seeds the user may type
    MaxModels,      \* bound: MainActivityDataModel objects of the activity
    MaxPending,     \* bound: calls of the activity in flight when the user does
                    \* something more
    MaxChanges,     \* bound: restores, phrases, resets of the id, failures of
                    \* a decryption that has the right key
    MaxRestarts     \* bound

None == "none"      \* an empty seed, an id that is not cached
Seeds == Random \cup Phrases
Service == 0        \* the model object of PasswordViewService
Models == 0 .. MaxModels

ASSUME IdentityAssumption ==
    /\ Ids # {}
    /\ {None, "junk"} \cap Ids = {}
    /\ None \notin Seeds
    /\ MaxModels \in Nat \ {0}
    /\ MaxPending \in Nat
    /\ MaxChanges \in Nat
    /\ MaxRestarts \in Nat

\* Texts: what is stored, and what a backup holds.
Cipher(s, k) == [seed |-> s, key |-> k]
Blank == Cipher(None, None)             \* no such preference
Junk == Cipher(None, "junk")            \* a QR code of something else

VARIABLES
    device,         \* the advertising id, which the user may reset
    cached,         \* FireBaseUtils.advertisingId
    stored, disk,   \* preference "seed", in memory and written
    keyData,        \* the activity's model object, the last one it created
    seeds,          \* seed of each model object
    persister,      \* updateAdId calls that wait for the executor
    posted,         \* and those that wait for the main thread
    jobs,           \* encryptions and decryptions in flight
    backups,        \* saved QR codes
    notice,         \* last answer to a restore or a phrase
    unavailable,    \* the "identity unavailable" toast since the last start
    changes, restarts

vars == <<device, cached, stored, disk, keyData, seeds, persister, posted, jobs,
          backups, notice, unavailable, changes, restarts>>

-----------------------------------------------------------------------------
(* Calls of updateAdId, and the work that they go on to *)

Call(op, m, text, by) == [op |-> op, model |-> m, text |-> text, by |-> by]
Job(step, c, text, key) == [step |-> step, call |-> c, text |-> text, key |-> key]

\* onCreate populates for itself and for the intent that it was started with.
Populates(m) == <<Call("populate", m, Blank, 0), Call("populate", m, Blank, 1)>>

\* onComplete of a call, with the id, the object's seed and the preference.
Begin(c, key, seed, text) ==
    CASE c.op = "populate" /\ seed = None -> {Job("decrypt", c, text, key)}
      [] c.op = "populate" /\ seed # None -> {}
      [] c.op = "restore" -> {Job("decrypt", c, c.text, key)}
      [] c.op = "save" -> {Job("encrypt", c, Cipher(seed, key), key)}

\* updateAdId: at once when the id is cached, by way of the executor if not.
UpdateAdId(calls, held, text) ==
    IF cached = None
    THEN persister' = persister \o calls /\ UNCHANGED jobs
    ELSE /\ jobs' = jobs \cup UNION {Begin(c, cached, held[c.model], text) : c \in Range(calls)}
         /\ UNCHANGED persister

\* A populate that fails shows a toast, unless it is the service's.
Toasts(c) == c.op = "populate" /\ c.model # Service

\* No call for the object is in flight.
Idle(m) ==
    /\ \A i \in DOMAIN persister : persister[i].model # m
    /\ \A i \in DOMAIN posted : posted[i].call.model # m
    /\ \A j \in jobs : j.call.model # m

FewPending ==
    Cardinality({i \in DOMAIN persister : persister[i].model # Service})
    + Cardinality({i \in DOMAIN posted : posted[i].call.model # Service})
    + Cardinality({j \in jobs : j.call.model # Service}) <= MaxPending

\* A seed that occurs nowhere yet.
Drawn ==
    {seeds[m] : m \in Models} \cup {stored.seed, disk.seed}
    \cup {j.text.seed : j \in jobs} \cup {b.seed : b \in backups}
    \cup {persister[i].text.seed : i \in DOMAIN persister}
    \cup {posted[i].call.text.seed : i \in DOMAIN posted}
RandomSeed == CHOOSE s \in Random : s \notin Drawn

-----------------------------------------------------------------------------
(* Process and activity *)

Init ==
    /\ device = CHOOSE id \in Ids : TRUE    \* any of them
    /\ cached = None
    /\ stored = Blank /\ disk = Blank
    /\ keyData = 1
    /\ seeds = [m \in Models |-> None]
    /\ persister = Populates(1)
    /\ posted = <<>>
    /\ jobs = {}
    /\ backups = {}
    /\ notice = "none"
    /\ unavailable = FALSE
    /\ changes = 0 /\ restarts = 0

\* The process dies and is started again with what reached the disk.
Restart ==
    /\ restarts < MaxRestarts
    /\ restarts' = restarts + 1
    /\ cached' = None
    /\ stored' = disk
    /\ keyData' = 1
    /\ seeds' = [m \in Models |-> None]
    /\ persister' = Populates(1)
    /\ posted' = <<>>
    /\ jobs' = {}
    /\ notice' = "none"
    /\ unavailable' = FALSE
    /\ UNCHANGED <<device, disk, backups, changes>>

\* The activity is destroyed and opened again: a new object, the same process.
\* Not while the service's object is populated (a bound).
Open ==
    /\ FewPending
    /\ Idle(Service)
    /\ keyData < MaxModels
    /\ keyData' = keyData + 1
    /\ UpdateAdId(Populates(keyData'), seeds, stored)
    /\ unavailable' = FALSE
    /\ UNCHANGED <<device, cached, stored, disk, seeds, posted, backups, notice, changes,
                   restarts>>

\* The password service is created and populates an object of its own; nobody
\* listens for the answer. The code never stops the service, so that it is
\* created again only where its first object got no seed (a bound).
CreateService ==
    /\ seeds[Service] = None
    /\ Idle(Service)
    /\ UpdateAdId(<<Call("populate", Service, Blank, 0)>>, seeds, stored)
    /\ UNCHANGED <<device, cached, stored, disk, keyData, seeds, posted, backups, notice,
                   unavailable, changes, restarts>>

\* onNewIntent, when the calls of the object before it are answered (a bound).
NewIntent ==
    /\ Idle(keyData)
    /\ UpdateAdId(<<Call("populate", keyData, Blank, 1)>>, seeds, stored)
    /\ UNCHANGED <<device, cached, stored, disk, keyData, seeds, posted, backups, notice,
                   unavailable, changes, restarts>>

\* SharedPreferences.apply() writes later.
Flush ==
    /\ disk # stored
    /\ disk' = stored
    /\ UNCHANGED <<device, cached, stored, keyData, seeds, persister, posted, jobs, backups,
                   notice, unavailable, changes, restarts>>

-----------------------------------------------------------------------------
(* The advertising id *)

\* Mutant: the answer is posted, the id not kept.
FetchIdUncached ==
    /\ persister # <<>>
    /\ persister' = Tail(persister)
    /\ posted' = Append(posted, [call |-> Head(persister), ok |-> TRUE])
    /\ UNCHANGED <<device, cached, stored, disk, keyData, seeds, jobs, backups, notice,
                   unavailable, changes, restarts>>

\* The executor asks for the id and posts the call.
FetchId ==
    /\ persister # <<>>
    /\ persister' = Tail(persister)
    /\ cached' = device
    /\ posted' = Append(posted, [call |-> Head(persister), ok |-> TRUE])
    /\ UNCHANGED <<device, stored, disk, keyData, seeds, jobs, backups, notice,
                   unavailable, changes, restarts>>

FetchIdFails ==
    /\ persister # <<>>
    /\ persister' = Tail(persister)
    /\ posted' = Append(posted, [call |-> Head(persister), ok |-> FALSE])
    /\ UNCHANGED <<device, cached, stored, disk, keyData, seeds, jobs, backups, notice,
                   unavailable, changes, restarts>>

\* onComplete on the main thread.
IdKnown ==
    /\ posted # <<>>
    /\ Head(posted).ok
    /\ posted' = Tail(posted)
    /\ LET c == Head(posted).call
       IN  jobs' = jobs \cup Begin(c, cached, seeds[c.model], stored)
    /\ UNCHANGED <<device, cached, stored, disk, keyData, seeds, persister, backups, notice,
                   unavailable, changes, restarts>>

\* Mutant: a populate without the id starts with a new identity.
IdUnknownGenerates ==
    /\ posted # <<>>
    /\ ~Head(posted).ok
    /\ posted' = Tail(posted)
    /\ seeds' = [seeds EXCEPT ![Head(posted).call.model] = RandomSeed]
    /\ UNCHANGED <<device, cached, stored, disk, keyData, persister, jobs, backups, notice,
                   unavailable, changes, restarts>>

\* Mutant: nothing is shown.
IdUnknownSilent ==
    /\ posted # <<>>
    /\ ~Head(posted).ok
    /\ posted' = Tail(posted)
    /\ UNCHANGED <<device, cached, stored, disk, keyData, seeds, persister, jobs, backups,
                   notice, unavailable, changes, restarts>>

\* onFailure on the main thread: a toast, or "Restore Failed".
IdUnknown ==
    /\ posted # <<>>
    /\ ~Head(posted).ok
    /\ posted' = Tail(posted)
    /\ LET c == Head(posted).call
       IN  /\ unavailable' = (unavailable \/ Toasts(c))
           /\ notice' = IF c.op = "populate" THEN notice ELSE "failed"
    /\ UNCHANGED <<device, cached, stored, disk, keyData, seeds, persister, jobs, backups,
                   changes, restarts>>

-----------------------------------------------------------------------------
(* Encryption and decryption, in whatever order they end *)

\* The text was encrypted with this key.
Decrypted(j) ==
    /\ j.step = "decrypt"
    /\ j.text.key = j.key
    /\ seeds' = [seeds EXCEPT ![j.call.model] = j.text.seed]
    /\ jobs' = jobs \ {j}
    /\ notice' = IF j.call.op = "restore" THEN "restored" ELSE notice
    /\ UNCHANGED <<device, cached, stored, disk, keyData, persister, posted, backups,
                   unavailable, changes, restarts>>

\* onFailure: a populate takes a new identity, a restore fails.
DecryptFails(j) ==
    /\ j.step = "decrypt"
    /\ IF j.call.op = "populate"
       THEN /\ seeds' = [seeds EXCEPT ![j.call.model] = RandomSeed]
            /\ jobs' = (jobs \ {j}) \cup {Job("store", j.call, Blank, j.key)}
            /\ UNCHANGED notice
       ELSE /\ jobs' = jobs \ {j}
            /\ notice' = "failed"
            /\ UNCHANGED seeds
    /\ UNCHANGED <<device, cached, stored, disk, keyData, persister, posted, backups,
                   unavailable, restarts>>

\* Nothing was stored, or it is not a text of this key.
NotDecrypted(j) ==
    /\ j.text.key # j.key
    /\ DecryptFails(j)
    /\ UNCHANGED changes

\* Any other error of the library, with the right text and key.
DecryptionError(j) ==
    /\ j.text.key = j.key
    /\ changes < MaxChanges
    /\ changes' = changes + 1
    /\ DecryptFails(j)

\* save() of the new identity reads the seed and the id again.
Store(j) ==
    /\ j.step = "store"
    /\ jobs' = (jobs \ {j})
                \cup {Job("encrypt", j.call, Cipher(seeds[j.call.model], cached), cached)}
    /\ UNCHANGED <<device, cached, stored, disk, keyData, seeds, persister, posted, backups,
                   notice, unavailable, changes, restarts>>

Encrypted(j) ==
    /\ j.step = "encrypt"
    /\ stored' = j.text
    /\ jobs' = jobs \ {j}
    /\ notice' = IF j.call.op = "save" THEN "restored" ELSE notice
    /\ UNCHANGED <<device, cached, disk, keyData, seeds, persister, posted, backups,
                   unavailable, changes, restarts>>

NotEncrypted(j) ==
    /\ j.step = "encrypt"
    /\ jobs' = jobs \ {j}
    /\ unavailable' = (unavailable \/ Toasts(j.call))
    /\ notice' = IF j.call.op = "save" THEN "failed" ELSE notice
    /\ UNCHANGED <<device, cached, stored, disk, keyData, seeds, persister, posted, backups,
                   changes, restarts>>

-----------------------------------------------------------------------------
(* The user *)

\* The stored text as a QR code, while there is a restore to come (a bound).
Backup ==
    /\ changes < MaxChanges
    /\ stored # Blank
    /\ backups' = backups \cup {stored}
    /\ UNCHANGED <<device, cached, stored, disk, keyData, seeds, persister, posted, jobs,
                   notice, unavailable, changes, restarts>>

\* restore(): the text replaces the preference before it is decrypted.
Restore(text) ==
    /\ FewPending
    /\ changes < MaxChanges
    /\ changes' = changes + 1
    /\ stored' = text
    /\ UpdateAdId(<<Call("restore", keyData, text, 2 + changes)>>, seeds, text)
    /\ UNCHANGED <<device, cached, disk, keyData, seeds, posted, backups, notice,
                   unavailable, restarts>>

\* processSeed: the new object is used, then saved.
EnterPhrase(s) ==
    /\ FewPending
    /\ changes < MaxChanges
    /\ changes' = changes + 1
    /\ keyData < MaxModels
    /\ keyData' = keyData + 1
    /\ seeds' = [seeds EXCEPT ![keyData'] = s]
    /\ UpdateAdId(<<Call("save", keyData', Blank, 2 + changes)>>, seeds', stored)
    /\ UNCHANGED <<device, cached, stored, disk, posted, backups, notice, unavailable,
                   restarts>>

\* The user resets the advertising id in the settings of the device.
ResetId(id) ==
    /\ changes < MaxChanges
    /\ changes' = changes + 1
    /\ id # device
    /\ device' = id
    /\ UNCHANGED <<cached, stored, disk, keyData, seeds, persister, posted, jobs, backups,
                   notice, unavailable, restarts>>

-----------------------------------------------------------------------------

\* The executor, the main thread and the threads of the cryptography.
Background ==
    \/ FetchId
    \/ FetchIdFails
    \/ IdKnown
    \/ IdUnknown
    \/ \E j \in jobs : \/ Decrypted(j)
                       \/ NotDecrypted(j)
                       \/ DecryptionError(j)
                       \/ Store(j)
                       \/ Encrypted(j)
                       \/ NotEncrypted(j)

Next ==
    \/ Background
    \/ Open
    \/ NewIntent
    \/ CreateService
    \/ Flush
    \/ Backup
    \/ \E text \in backups \cup {Junk} : Restore(text)
    \/ \E s \in Phrases : EnterPhrase(s)
    \/ \E id \in Ids : ResetId(id)
    \/ Restart

Spec == Init /\ [][Next]_vars /\ WF_vars(Background)

-----------------------------------------------------------------------------
(* Properties *)

Texts == [seed : Seeds, key : Ids] \cup {Blank, Junk}
Calls == [op : {"populate", "restore", "save"}, model : Models, text : Texts, by : Nat]
Jobs == [step : {"decrypt", "store", "encrypt"}, call : Calls, text : Texts, key : Ids]

\* Types; objects that do not exist have no seed, and what waits for an id that
\* is known never runs without one.
TypeOK ==
    /\ device \in Ids
    /\ cached \in Ids \cup {None}
    /\ stored \in Texts /\ disk \in Texts
    /\ keyData \in Models \ {Service}
    /\ seeds \in [Models -> Seeds \cup {None}]
    /\ \A m \in Models : m > keyData => seeds[m] = None
    /\ persister \in Seq(Calls)
    /\ posted \in Seq([call : Calls, ok : BOOLEAN])
    /\ \A i \in DOMAIN posted : posted[i].ok => cached # None
    /\ jobs \subseteq Jobs
    /\ backups \subseteq Texts
    /\ notice \in {"none", "restored", "failed"}
    /\ unavailable \in BOOLEAN
    /\ changes \in 0 .. MaxChanges
    /\ restarts \in 0 .. MaxRestarts

Quiet == persister = <<>> /\ posted = <<>> /\ jobs = {}

\* The identity s is stored for the next start, and all that is under way can
\* only read it.
Kept(s) ==
    /\ stored = Cipher(s, device) /\ disk = Cipher(s, device)
    /\ cached \in {None, device}
    /\ seeds[keyData] \in {None, s}
    /\ \A i \in DOMAIN persister : persister[i].op = "populate"
    /\ \A i \in DOMAIN posted : posted[i].call.op = "populate"
    /\ \A j \in jobs : /\ j.step = "decrypt"
                       /\ j.call.op = "populate"
                       /\ j.text = Cipher(s, device)
                       /\ j.key = device

\* An identity that is stored stays the identity, through crashes, starts whose
\* populates overlap with each other and with the service's, and ids that cannot
\* be had, until the user restores, types a phrase or resets the id, or until a
\* decryption with the right key fails: the code takes that for a first start.
IdentityKept ==
    [][\A s \in Seeds : Kept(s) => Kept(s)' \/ changes' # changes]_vars

\* Every start ends with an identity in memory or with the message that it is
\* unavailable.
EventuallyIdentity == []<>(seeds[keyData] # None \/ unavailable)

-----------------------------------------------------------------------------
(* What the messages promise and the code does not keep *)

\* strings.xml:20 "Resore Failed": after it the identity in use is still the
\* one that the next start finds.
FailedRestoreKeeps ==
    notice = "failed" /\ Quiet /\ seeds[keyData] # None =>
        stored = Cipher(seeds[keyData], device)

=============================================================================
