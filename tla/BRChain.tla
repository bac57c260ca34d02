------------------------------ MODULE BRChain -------------------------------
(***************************************************************************)
(* The block tree of BRPeerManager.c: the blocks peer threads relay, the   *)
(* orphans, the tip, reorganisations and rescans, the heights they give    *)
(* the wallet's transactions, the memory that is cleared behind the tip,   *)
(* and the rows saved for the next start.                                  *)
(*                                                                         *)
(* _peerRelayedBlock holds the manager lock while it handles one block,    *)
(* then saves blocks and goes on to a waiting orphan without it: "thread"  *)
(* is where each peer's thread stands between two handlings.               *)
(***************************************************************************)
EXTENDS Integers, FiniteSets

CONSTANTS
    Peers,
    Blocks,             \* hashes of the blocks that peers relay and of the checkpoints
    Prev,               \* hash of the block before it
    Height,
    Checkpoints,        \* blocks known in advance, without their prevBlock
    Start,              \* last checkpoint a week older than earliestKeyTime
    Old,                \* relayed more than one week after their timestamp
    Txs,                \* the wallet's transactions
    Matched,            \* Matched[b]: those of the merkle block b
    Trigger, Walk,      \* CLEAR_MEM_BLOCKS_COUNT_TRIGGER, and how much of it is no tail
    SaveInterval, SaveCount,
    Unconfirmed,        \* TX_UNCONFIRMED
    PeerHeights,        \* last blocks that peers report
    MaxRescans, MaxRestarts     \* bounds

None == "none"
Heights == {Height[b] : b \in Blocks}

ASSUME BlockAssumption ==
    /\ None \notin Blocks
    /\ Prev \in [Blocks -> Blocks \cup {None}]
    /\ Height \in [Blocks -> Nat]
    /\ \A b \in Blocks : Prev[b] # None => Height[b] = Height[Prev[b]] + 1
ASSUME CheckpointAssumption ==
    /\ Checkpoints \subseteq Blocks
    /\ \A b, c \in Checkpoints : Height[b] = Height[c] => b = c
    /\ \A b \in Checkpoints : Prev[b] \notin Checkpoints
    /\ Start \in Checkpoints
ASSUME WalletAssumption ==
    /\ Matched \in [Blocks -> SUBSET Txs]
    /\ Unconfirmed \in Nat
    /\ \A h \in Heights : h < Unconfirmed
ASSUME BoundAssumption ==
    /\ Trigger \in Nat /\ Walk \in Nat
    /\ SaveInterval \in Nat \ {0} /\ SaveCount \in Nat \ {0}
    /\ PeerHeights \subseteq Nat
    /\ MaxRescans \in Nat
    /\ MaxRestarts \in Nat

VARIABLES
    blocks,             \* hashes in manager->blocks
    bare,               \* those of them that are checkpoint objects, prevBlock zero
    freed,              \* checkpoints freed while manager->checkpoints has them
    orphans,            \* manager->orphans, one at most for each prevBlock
    lastBlock, estimatedHeight,
    filter,             \* manager->bloomFilter is set
    thread,             \* of each peer's thread: the orphan in hand, the blocks it saves,
                        \* and those of them that another thread has freed
    txHeight,           \* the wallet's heights
    saved,              \* rows of the application
    broken,             \* "null" or "freed": a block that is not there was used
    rescans, restarts

vars == <<blocks, bare, freed, orphans, lastBlock, estimatedHeight, filter,
          thread, txHeight, saved, broken, rescans, restarts>>

-----------------------------------------------------------------------------
(* Walking back through manager->blocks *)

\* BRSetGet(manager->blocks, &b->prevBlock)
Back(b, stored, bareOnes) ==
    IF b \notin bareOnes /\ Prev[b] \in stored THEN Prev[b] ELSE None

\* A block and everything the walk back from it reaches.
ChainOf(b, stored, bareOnes) ==
    LET chain[x \in Blocks] ==
            {x} \cup (IF Back(x, stored, bareOnes) = None THEN {}
                      ELSE chain[Back(x, stored, bareOnes)])
    IN  chain[b]

MainChain == ChainOf(lastBlock, blocks, bare)

\* The n-th block before b, None beyond the last.
Before(b, n, stored, bareOnes) ==
    LET found == {x \in ChainOf(b, stored, bareOnes) : Height[x] = Height[b] - n}
    IN  IF found = {} THEN None ELSE CHOOSE x \in found : TRUE

\* One step of the walks back from a new block and from the tip, which waits
\* for the other to be below it.
StepBack(at, stored, bareOnes) ==
    LET x == Back(at[1], stored, bareOnes)
    IN  <<x, IF x # None /\ Height[x] < Height[at[2]]
             THEN Back(at[2], stored, bareOnes) ELSE at[2]>>

WalkPlaces == (Blocks \cup {None}) \X (Blocks \cup {None})
Stops(at) == None \in {at[1], at[2]} \/ at[1] = at[2]

\* Where the walk back from a new block b and from the tip stops: the join
\* point twice, or None on the side whose blocks ran out.
Join(b, tip, stored, bareOnes) ==
    LET walk[at \in WalkPlaces] == IF Stops(at) THEN at ELSE walk[StepBack(at, stored, bareOnes)]
    IN  walk[<<b, tip>>]

-----------------------------------------------------------------------------
(* BRPeerManagerNewEx with the saved rows *)

Running == broken = "no"
Idle == [next |-> None, saving |-> {}, stale |-> {}]

\* The highest row becomes the tip; the others stay with the orphans.
TopRow(rows) ==
    IF rows = {} THEN Start
    ELSE CHOOSE b \in rows : \A c \in rows : Height[c] <= Height[b]

Init ==
    /\ blocks = Checkpoints
    /\ bare = Checkpoints
    /\ freed = {}
    /\ orphans = {}
    /\ lastBlock = Start
    /\ estimatedHeight = 0
    /\ filter = FALSE
    /\ thread = [p \in Peers |-> Idle]
    /\ txHeight = [t \in Txs |-> Unconfirmed]
    /\ saved = {}
    /\ broken = "no"
    /\ rescans = 0 /\ restarts = 0

\* The process ends, at any point, and starts again.
Restart ==
    /\ restarts < MaxRestarts
    /\ restarts' = restarts + 1
    /\ lastBlock' = TopRow(saved)
    /\ blocks' = Checkpoints \cup {TopRow(saved)}
    /\ bare' = IF saved = {} THEN Checkpoints ELSE Checkpoints \ {TopRow(saved)}
    /\ freed' = {}
    /\ orphans' = saved \ {TopRow(saved)}
    /\ estimatedHeight' = 0
    /\ filter' = FALSE
    /\ thread' = [p \in Peers |-> Idle]
    /\ broken' = "no"
    /\ UNCHANGED <<txHeight, saved, rescans>>

-----------------------------------------------------------------------------
(* Peers connecting, and the bloom filter *)

\* _BRPeerManagerLoadBloomFilter drops orphans that came on an old filter.
LoadFilter ==
    /\ filter' = TRUE
    /\ orphans' = {}
    /\ UNCHANGED <<blocks, bare, freed, lastBlock, thread, txHeight, saved, broken,
                   rescans, restarts>>

\* _peerConnected: a new download peer sets the height to reach, another peer
\* only gets the filter, once the sync is done.
PeerConnected(h) ==
    /\ Running
    /\ h + 10 >= Height[lastBlock]
    /\ LoadFilter
    /\ \/ estimatedHeight' = h
       \/ Height[lastBlock] >= h /\ UNCHANGED estimatedHeight

\* _updateFilterPingDone, with a peer to load the new filter to or without.
UpdateFilter ==
    /\ Running
    /\ estimatedHeight # 0          \* a download peer has connected
    /\ \/ LoadFilter
       \/ /\ filter' = FALSE
          /\ UNCHANGED <<blocks, bare, freed, orphans, lastBlock, thread, txHeight, saved,
                         broken, rescans, restarts>>
    /\ UNCHANGED estimatedHeight

-----------------------------------------------------------------------------
(* Parts of _peerRelayedBlock *)

\* The thread takes a block off the network, or the orphan it has in hand.
Handling(p, b) ==
    /\ Running
    /\ thread[p].saving = {}
    /\ thread[p].next \in {None, b}

\* What a thread of the others saves is freed under it.
Freeing(threads, gone) ==
    [q \in Peers |-> [threads[q] EXCEPT !.stale = @ \cup (threads[q].saving \cap gone)]]

\* Mutant: orphans indexed by their own hash.
WithOrphanBeside(b) == orphans \cup {b}

\* BRSetAdd(manager->orphans, b): one for each prevBlock.
WithOrphan(b) == {x \in orphans : Prev[x] # Prev[b]} \cup {b}

\* After the unlock: blocks to save, and the orphan that waited for b.
Waiting(b, waits) ==
    IF \E x \in waits : Prev[x] = b THEN CHOOSE x \in waits : Prev[x] = b ELSE None

\* Mutant: the orphan that waited stays where it is.
ContinueKeep(p, b, waits, rows, gone) ==
    /\ thread' = [Freeing(thread, gone) EXCEPT
                    ![p] = [next |-> None, saving |-> rows, stale |-> {}]]
    /\ orphans' = waits

Continue(p, b, waits, rows, gone) ==
    /\ thread' = [Freeing(thread, gone) EXCEPT
                    ![p] = [next |-> Waiting(b, waits), saving |-> rows, stale |-> {}]]
    /\ orphans' = {x \in waits : Prev[x] # b}

\* _BRPeerManagerVerifyBlock: a freed checkpoint may compare in any way.
Verified(b) ==
    \A c \in Checkpoints : Height[c] = Height[b] => c = b

MayVerify(b) == Verified(b) \/ \E c \in freed : Height[c] = Height[b]
MayReject(b) == ~Verified(b) \/ \E c \in freed : Height[c] = Height[b]

\* Mutant: one block fewer is kept.
TailSooner(tip, stored, bareOnes) ==
    IF Cardinality(stored) < Trigger THEN {}
    ELSE LET last == Before(tip, Walk, stored, bareOnes)
         IN  IF last = None THEN {} ELSE ChainOf(last, stored, bareOnes) \ {last}

\* The blocks that _BRPeerManagerClearMemory frees behind the tip.
Tail(tip, stored, bareOnes) ==
    IF Cardinality(stored) < Trigger THEN {}
    ELSE LET last == Before(tip, Walk + 1, stored, bareOnes)
         IN  IF last = None THEN {} ELSE ChainOf(last, stored, bareOnes) \ {last}

Max2(m, n) == IF m > n THEN m ELSE n
Raised(b) == Max2(Height[b], estimatedHeight)

\* The block and those before it, as many as are saved.
Rows(b, stored, bareOnes) ==
    {x \in stored : x \in ChainOf(b, stored, bareOnes) /\ Height[x] > Height[b] - SaveCount}

Confirm(heights, b) ==
    [t \in Txs |-> IF t \in Matched[b] THEN Height[b] ELSE heights[t]]

\* The peer may have reported a height above the tip, or may not.
MaybeAhead(b) == Height[b] > Height[lastBlock] + 1 /\ \E h \in PeerHeights : Height[lastBlock] < h
SurelyAhead(b) == Height[b] > Height[lastBlock] + 1 /\ \A h \in PeerHeights : Height[lastBlock] < h

-----------------------------------------------------------------------------
(* _peerRelayedBlock, one action for each branch *)

\* No filter, an old orphan, an invalid block or a fork before the last
\* checkpoint: the block is freed.
Ignore(p, b) ==
    /\ Handling(p, b)
    /\ \/ ~filter
       \/ Prev[b] \notin blocks /\ b \in Old
       \/ Prev[b] \in blocks /\ MayReject(b)
       \/ /\ Prev[b] \in blocks \ {lastBlock}
          /\ b \notin blocks
          /\ ~SurelyAhead(b)
          /\ \E c \in Checkpoints : Height[b] <= Height[c]
    /\ thread' = [thread EXCEPT ![p].next = None]
    /\ UNCHANGED <<blocks, bare, freed, orphans, lastBlock, estimatedHeight, filter,
                   txHeight, saved, broken, rescans, restarts>>

\* The block before is not known: an orphan replaces one with the same.
AddOrphan(p, b) ==
    /\ Handling(p, b)
    /\ filter
    /\ Prev[b] \notin blocks
    /\ b \notin Old
    /\ orphans' = WithOrphan(b)
    /\ thread' = [thread EXCEPT ![p].next = None]
    /\ UNCHANGED <<blocks, bare, freed, lastBlock, estimatedHeight, filter,
                   txHeight, saved, broken, rescans, restarts>>

Linked(p, b) ==
    /\ Handling(p, b)
    /\ filter
    /\ Prev[b] \in blocks
    /\ MayVerify(b)

\* "new block extends main chain"
Extend(p, b) ==
    /\ Linked(p, b)
    /\ Prev[b] = lastBlock
    /\ lastBlock' = b
    /\ LET stored == blocks \cup {b}
           bareOnes == bare \ {b}
           gone == Tail(b, stored, bareOnes)
           complete == Height[b] = estimatedHeight
           rows == IF complete \/ Height[b] % SaveInterval = 0
                   THEN Rows(b, stored \ gone, bareOnes \ gone) ELSE {}
       IN  /\ blocks' = stored \ gone
           /\ bare' = bareOnes \ gone
           /\ freed' = freed \cup (gone \cap bareOnes)
           /\ \/ Continue(p, b, orphans, rows, gone)
              \/ complete /\ Continue(p, b, {}, rows, gone)
    /\ txHeight' = Confirm(txHeight, b)
    /\ estimatedHeight' = Raised(b)
    /\ UNCHANGED <<filter, saved, broken, rescans, restarts>>

\* "we already have the block": the old object is freed.
Replace(p, b) ==
    /\ Linked(p, b)
    /\ Prev[b] # lastBlock
    /\ b \in blocks
    /\ IF \A x \in MainChain : Height[x] > Height[b]
       THEN broken' = "null" /\ UNCHANGED txHeight
       ELSE /\ txHeight' = IF b \in MainChain THEN Confirm(txHeight, b) ELSE txHeight
            /\ UNCHANGED broken
    /\ bare' = bare \ {b}
    /\ freed' = freed \cup ({b} \cap bare)
    /\ Continue(p, b, orphans, {}, {b})
    /\ estimatedHeight' = Raised(b)
    /\ UNCHANGED <<blocks, lastBlock, filter, saved, rescans, restarts>>

\* "new block mined durring rescan": kept as an orphan although it is linked.
AddAhead(p, b) ==
    /\ Linked(p, b)
    /\ Prev[b] # lastBlock
    /\ b \notin blocks
    /\ MaybeAhead(b)
    /\ Continue(p, b, WithOrphan(b), {}, {})
    /\ estimatedHeight' = Raised(b)
    /\ UNCHANGED <<blocks, bare, freed, lastBlock, filter, txHeight, saved, broken,
                   rescans, restarts>>

\* Mutant: off by one.
LongerLate(b) == Height[b] > Height[lastBlock] + 1
\* "check if fork is now longer than main chain"
Longer(b) == Height[b] > Height[lastBlock]

OnFork(p, b) ==
    /\ Linked(p, b)
    /\ Prev[b] # lastBlock
    /\ b \notin blocks
    /\ ~SurelyAhead(b)
    /\ \A c \in Checkpoints : Height[b] > Height[c]

\* "new block is on a fork", not longer than the main chain.
AddFork(p, b) ==
    /\ OnFork(p, b)
    /\ ~Longer(b)
    /\ blocks' = blocks \cup {b}
    /\ Continue(p, b, orphans, {}, {})
    /\ estimatedHeight' = Raised(b)
    /\ UNCHANGED <<bare, freed, lastBlock, filter, txHeight, saved, broken, rescans, restarts>>

\* Mutant: without BRWalletSetTxUnconfirmedAfter.
RejoinedKept(b, x, y, stored) ==
    LET chain == IF y = None THEN {}
                 ELSE {c \in ChainOf(b, stored, bare) : Height[c] > Height[y]}
    IN  [t \in Txs |->
            IF \E c \in chain : t \in Matched[c]
            THEN Height[CHOOSE c \in chain : t \in Matched[c]]
            ELSE txHeight[t]]

\* The heights after a reorganisation: unconfirmed after the join point, then
\* those of the new main chain.
Rejoined(b, x, y, stored) ==
    LET chain == IF y = None THEN {}
                 ELSE {c \in ChainOf(b, stored, bare) : Height[c] > Height[y]}
    IN  [t \in Txs |->
            IF \E c \in chain : t \in Matched[c]
            THEN Height[CHOOSE c \in chain : t \in Matched[c]]
            ELSE IF txHeight[t] > Height[x] THEN Unconfirmed ELSE txHeight[t]]

\* "fork is now longer than main chain"
Reorganise(p, b) ==
    /\ OnFork(p, b)
    /\ Longer(b)
    /\ LET stored == blocks \cup {b}
           join == Join(b, lastBlock, stored, bare)
           complete == Height[b] = estimatedHeight
           rows == IF complete THEN Rows(b, stored, bare) ELSE {}
       IN  /\ blocks' = stored
           /\ IF join[1] = None
              THEN broken' = "null" /\ UNCHANGED txHeight
              ELSE /\ txHeight' = Rejoined(b, join[1], join[2], stored)
                   /\ UNCHANGED broken
           /\ \/ Continue(p, b, orphans, rows, {})
              \/ complete /\ Continue(p, b, {}, rows, {})
    /\ lastBlock' = b
    /\ estimatedHeight' = Raised(b)
    /\ UNCHANGED <<bare, freed, filter, saved, rescans, restarts>>

\* saveBlocks serialises the blocks without the lock and replaces all rows. Of
\* one that was freed meanwhile the memory may still hold it, or make a row that
\* is no block any more, or end the program.
SaveBlocks(p) ==
    /\ Running
    /\ thread[p].saving # {}
    /\ \/ /\ \E garbled \in SUBSET thread[p].stale : saved' = thread[p].saving \ garbled
          /\ UNCHANGED broken
       \/ /\ thread[p].stale # {}
          /\ broken' = "freed"
          /\ UNCHANGED saved
    /\ thread' = [thread EXCEPT ![p].saving = {}, ![p].stale = {}]
    /\ UNCHANGED <<blocks, bare, freed, orphans, lastBlock, estimatedHeight, filter,
                   txHeight, rescans, restarts>>

\* Mutant: the checkpoint becomes the tip, stored or not.
RescanAnyway == Start
\* BRPeerManagerRescan: the tip goes back to the checkpoint, if it is there.
RescanFrom == IF Start \in blocks THEN Start ELSE lastBlock

Rescan ==
    /\ Running
    /\ rescans < MaxRescans
    /\ rescans' = rescans + 1
    /\ lastBlock' = RescanFrom
    /\ UNCHANGED <<blocks, bare, freed, orphans, estimatedHeight, filter, thread,
                   txHeight, saved, broken, restarts>>

-----------------------------------------------------------------------------
(* The threads and the peers they serve *)

Relay(p, b) ==
    \/ Ignore(p, b)
    \/ AddOrphan(p, b)
    \/ Extend(p, b)
    \/ Replace(p, b)
    \/ AddAhead(p, b)
    \/ AddFork(p, b)
    \/ Reorganise(p, b)

\* Blocks that peers send; a checkpoint with nothing before it never comes.
Relayed == {b \in Blocks : Prev[b] # None}

Next ==
    \/ \E p \in Peers, b \in Relayed : Relay(p, b)
    \/ \E p \in Peers : SaveBlocks(p)
    \/ \E h \in PeerHeights : PeerConnected(h)
    \/ UpdateFilter
    \/ Rescan
    \/ Restart

\* A peer that serves the chain relays each block of it again and again while
\* it is asked to; threads run; a filter that is missing is loaded.
Fairness ==
    /\ \A b \in Relayed : SF_vars(\E p \in Peers : Relay(p, b))
    /\ \A p \in Peers : WF_vars(SaveBlocks(p))
    /\ WF_vars(\E h \in PeerHeights : ~filter /\ PeerConnected(h))

Spec == Init /\ [][Next]_vars /\ Fairness

-----------------------------------------------------------------------------
(* Properties *)

Threads == [next : Blocks \cup {None}, saving : SUBSET Blocks, stale : SUBSET Blocks]

\* Types, and that the tip, the orphans and the tree are what NewEx and
\* _peerRelayedBlock may store: the tip is stored, one orphan for each prevBlock.
TypeOK ==
    /\ blocks \subseteq Blocks
    /\ lastBlock \in blocks
    /\ bare \subseteq Checkpoints \cap blocks
    /\ freed \subseteq Checkpoints
    /\ orphans \subseteq Blocks
    /\ \A x, y \in orphans : Prev[x] = Prev[y] => x = y
    /\ estimatedHeight \in Nat
    /\ filter \in BOOLEAN
    /\ thread \in [Peers -> Threads]
    /\ txHeight \in [Txs -> Heights \cup {Unconfirmed}]
    /\ saved \subseteq Blocks
    /\ broken \in {"no", "null", "freed"}
    /\ rescans \in 0 .. MaxRescans
    /\ restarts \in 0 .. MaxRestarts

\* The chain that really leads to a block, stored or not.
Line(b) == ChainOf(b, Blocks, {})
Ancestry == Line(lastBlock)

\* A chain holds a transaction once, and none of the wallet's is older than its
\* first key.
ASSUME HolderAssumption ==
    /\ \A b \in Blocks : \A x, y \in Line(b) : Matched[x] \cap Matched[y] # {} => x = y
    /\ \A x \in Line(Start) : Matched[x] = {}

\* The height of the block of that chain that holds the transaction.
HeightOn(t, b) ==
    LET holding == {x \in Line(b) : t \in Matched[x]}
    IN  IF holding = {} THEN Unconfirmed ELSE Height[CHOOSE x \in holding : TRUE]

\* Through forks, reorganisations, orphans and cleared memory, the wallet's
\* transactions have the heights of the chain that leads to the tip, and those
\* that it does not hold are unconfirmed. A restart keeps the tip only, and the
\* walks back stop there; a rescan takes the tip back and leaves the heights.
ConfirmedOnChain ==
    rescans = 0 /\ restarts = 0 => \A t \in Txs : txHeight[t] = HeightOn(t, lastBlock)

\* The tip is the highest block that peers have relayed and that is stored: a
\* longer fork never waits beside it. A rescan gives that up.
HighestTip ==
    rescans = 0 => \A b \in blocks \ bare : Height[b] <= Height[lastBlock]

\* A block that came before its parent, or ahead of the tip, is not forgotten
\* once the chain has reached its parent: it is handled, or in the hands of a
\* thread. Only a checkpoint above the tip may have a child that waits. After a
\* rescan so may a block that was on a fork.
OrphansDetached ==
    Running /\ filter /\ rescans = 0 =>
        \A x \in orphans : Prev[x] \in blocks => Height[Prev[x]] > Height[lastBlock]

\* The block leaves the chain of the tip within the memory that is kept.
Kept(b) == \E j \in Line(b) \cap Ancestry : Height[lastBlock] <= Height[j] + Walk + 1

\* However the memory behind the tip was cleared, the walks back from a longer
\* fork and from a block that is relayed again find the blocks they use if the
\* block leaves the chain where the memory is kept. From further back, after a
\* rescan, and after a restart that kept the tip only, they do meet NULL.
WalksFindBlocks ==
    [][rescans = 0 /\ restarts = 0 /\ broken # "null" /\ broken' = "null" =>
        \A p \in Peers, b \in Relayed : Relay(p, b) => ~Kept(b)]_vars

\* The chain that peers serve is reached, also after a rescan.
EventuallySynced == <>[](\A b \in Blocks : Height[b] <= Height[lastBlock])

=============================================================================
