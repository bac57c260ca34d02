--------------------------- MODULE BRChainProofs ----------------------------
(***************************************************************************)
(* The block tree, for every tree of blocks, every set of checkpoints that *)
(* are not neighbours, and every number of peers: the tip is its highest   *)
(* block until the user asks for a rescan; orphans wait for what is not    *)
(* reached; and the wallet's transactions have the heights of the chain    *)
(* that leads to the tip. The last sections say when the walks back find   *)
(* the blocks they need.                                                   *)
(***************************************************************************)
EXTENDS BRChain, WellFoundedInduction, TLAPS

-----------------------------------------------------------------------------
(* The highest of the saved rows *)

\* A set of blocks that is not empty has a highest one: heights are bounded.
LEMMA HighestExists ==
    ASSUME NEW rows \in SUBSET Blocks, rows # {}
    PROVE  \E b \in rows : \A c \in rows : Height[c] <= Height[b]
<1> DEFINE depths == {Unconfirmed - Height[b] : b \in rows}
<1>1. \A b \in rows : Height[b] \in Nat /\ Height[b] < Unconfirmed
  BY BlockAssumption, WalletAssumption DEF Heights
<1>2. depths \in SUBSET Nat /\ depths # {}
  BY <1>1, WalletAssumption
<1>3. PICK d \in depths : \A e \in depths : ~(<<e, d>> \in OpToRel(<, Nat))
  <2> HIDE DEF depths
  <2> QED
    BY <1>2, NatLessThanWellFounded, WFMin
<1>4. PICK b \in rows : d = Unconfirmed - Height[b]
  OBVIOUS
<1>5. ASSUME NEW c \in rows PROVE Height[c] <= Height[b]
  <2> DEFINE e == Unconfirmed - Height[c]
  <2>1. e \in depths
    OBVIOUS
  <2>2. e \in Nat /\ d \in Nat
    BY <2>1, <1>2
  <2>3. ~(e < d)
    BY <2>1, <2>2, <1>3 DEF OpToRel
  <2> QED
    BY <2>2, <2>3, <1>1, <1>4, WalletAssumption
<1> QED
  BY <1>5

LEMMA TopRowIsBlock ==
    ASSUME NEW rows \in SUBSET Blocks
    PROVE  /\ TopRow(rows) \in Blocks
           /\ rows = {} => TopRow(rows) = Start
<1>1. CASE rows = {}
  BY <1>1, CheckpointAssumption DEF TopRow
<1>2. CASE rows # {}
  BY <1>2, HighestExists DEF TopRow
<1> QED
  BY <1>1, <1>2

-----------------------------------------------------------------------------
(* The invariant *)

\* Where the parts of the state lie.
Places ==
    /\ lastBlock \in Blocks
    /\ blocks \subseteq Blocks
    /\ bare \subseteq Checkpoints
    /\ saved \subseteq Blocks
    /\ orphans \subseteq Blocks
    /\ thread \in [Peers -> Threads]
    /\ rescans \in Nat /\ restarts \in Nat

\* A checkpoint above the tip has no stored parent but the tip: when a peer
\* relays its block, the block is an orphan or extends the main chain.
CheckpointWaits ==
    rescans = 0 => \A c \in bare :
        Prev[c] \in blocks => Height[c] <= Height[lastBlock] \/ Prev[c] = lastBlock

IInv == Places /\ CheckpointWaits /\ HighestTip

\* A block whose parent is known is one higher than it.
LEMMA ChildHeight ==
    ASSUME NEW b \in Blocks, Prev[b] \in Blocks
    PROVE  /\ Height[b] \in Nat
           /\ Height[Prev[b]] \in Nat
           /\ Height[b] = Height[Prev[b]] + 1
  BY BlockAssumption

\* What a thread goes on with, and what is left of the others' state.
LEMMA AfterContinue ==
    ASSUME Places, NEW p \in Peers, NEW b \in Blocks, NEW waits \in SUBSET Blocks,
           NEW rows \in SUBSET Blocks, NEW gone, Continue(p, b, waits, rows, gone)
    PROVE  /\ thread' \in [Peers -> Threads]
           /\ orphans' \subseteq Blocks
<1>1. Freeing(thread, gone) \in [Peers -> Threads]
  BY DEF Freeing, Places, Threads
<1>2. Waiting(b, waits) \in Blocks \cup {None}
  BY DEF Waiting
<1>3. thread' \in [Peers -> Threads]
  BY <1>1, <1>2 DEF Continue, Threads
<1> QED
  BY <1>3 DEF Continue

LEMMA RowsAreBlocks ==
    ASSUME NEW b, NEW stored \in SUBSET Blocks, NEW bareOnes
    PROVE  Rows(b, stored, bareOnes) \in SUBSET Blocks
  BY DEF Rows

\* A thread that drops its block keeps its type.
LEMMA NextIsNone ==
    ASSUME Places, NEW p \in Peers, thread' = [thread EXCEPT ![p].next = None]
    PROVE  thread' \in [Peers -> Threads]
  BY DEF Places, Threads

-----------------------------------------------------------------------------
(* One lemma for each kind of step *)

LEMMA InitInv == Init => IInv
<1> SUFFICES ASSUME Init PROVE IInv
  OBVIOUS
<1>1. Places
  BY CheckpointAssumption DEF Init, Places, Threads, Idle
<1>2. CheckpointWaits
  BY CheckpointAssumption DEF Init, CheckpointWaits
<1>3. HighestTip
  BY DEF Init, HighestTip
<1> QED
  BY <1>1, <1>2, <1>3 DEF IInv

\* Steps that leave the tree, the tip and the rows alone.
LEMMA QuietInv ==
    ASSUME IInv,
           UNCHANGED <<lastBlock, blocks, bare, saved, rescans, restarts>>,
           orphans' \subseteq Blocks,
           thread' \in [Peers -> Threads]
    PROVE  IInv'
  BY DEF IInv, Places, CheckpointWaits, HighestTip

LEMMA ExtendInv ==
    ASSUME IInv, NEW p \in Peers, NEW b \in Relayed, Extend(p, b)
    PROVE  IInv'
<1> DEFINE stored == blocks \cup {b}
           bareOnes == bare \ {b}
           gone == Tail(b, stored, bareOnes)
           rows == IF Height[b] = estimatedHeight \/ Height[b] % SaveInterval = 0
                   THEN Rows(b, stored \ gone, bareOnes \ gone) ELSE {}
<1>1. b \in Blocks /\ Prev[b] = lastBlock /\ lastBlock' = b
  BY DEF Relayed, Extend
<1>2. Height[b] = Height[lastBlock] + 1 /\ Height[b] \in Nat /\ Height[lastBlock] \in Nat
  BY <1>1, ChildHeight DEF IInv, Places
<1>3. blocks' = stored \ gone /\ bare' = bareOnes \ gone
  BY DEF Extend
<1>4. Places'
  <2>1. rows \in SUBSET Blocks
    <3> HIDE DEF gone
    <3> QED BY <1>1, RowsAreBlocks DEF IInv, Places
  <2>2. \/ Continue(p, b, orphans, rows, gone)
        \/ Continue(p, b, {}, rows, gone)
    BY DEF Extend
  <2>3. thread' \in [Peers -> Threads] /\ orphans' \subseteq Blocks
    <3> HIDE DEF gone, rows
    <3> QED BY <1>1, <2>1, <2>2, AfterContinue DEF IInv, Places
  <2>4. saved' = saved /\ rescans' = rescans /\ restarts' = restarts
    BY DEF Extend
  <2> HIDE DEF gone
  <2> QED
    BY <1>1, <1>3, <2>3, <2>4 DEF IInv, Places
<1> HIDE DEF gone
<1>5. rescans' = rescans
  BY DEF Extend
<1>6. CheckpointWaits'
  <2> SUFFICES ASSUME rescans = 0, NEW c \in bare', Prev[c] \in blocks', Prev[c] # b
               PROVE  Height[c] <= Height[b]
    BY <1>1, <1>5 DEF CheckpointWaits
  <2>1. c \in bare /\ Prev[c] \in blocks /\ c \in Blocks
    BY <1>3, CheckpointAssumption DEF IInv, Places
  <2>2. Height[c] \in Nat
    BY <2>1, BlockAssumption
  <2>3. Height[c] <= Height[lastBlock] \/ Prev[c] = lastBlock
    BY <2>1 DEF IInv, CheckpointWaits
  <2>4. CASE Prev[c] = lastBlock
    BY <2>1, <2>4, <1>2, ChildHeight DEF IInv, Places
  <2> QED
    BY <2>2, <2>3, <2>4, <1>2
<1>7. HighestTip'
  <2> SUFFICES ASSUME rescans = 0, NEW c \in blocks' \ bare'
               PROVE  Height[c] <= Height[b]
    BY <1>1, <1>5 DEF HighestTip
  <2>1. c = b \/ c \in blocks \ bare
    BY <1>3
  <2>2. CASE c \in blocks \ bare
    <3>1. Height[c] <= Height[lastBlock]
      BY <2>2 DEF IInv, HighestTip
    <3> QED
      BY <3>1, <2>2, <1>2, BlockAssumption DEF IInv, Places
  <2> QED
    BY <2>1, <2>2, <1>2
<1> QED
  BY <1>4, <1>6, <1>7 DEF IInv
LEMMA ReplaceInv ==
    ASSUME IInv, NEW p \in Peers, NEW b \in Relayed, Replace(p, b)
    PROVE  IInv'
<1>1. b \in Blocks /\ Prev[b] \in blocks /\ Prev[b] # lastBlock
  BY DEF Relayed, Replace, Linked
<1>2. /\ UNCHANGED <<lastBlock, blocks, saved, rescans, restarts>>
      /\ bare' = bare \ {b}
      /\ Continue(p, b, orphans, {}, {b})
  BY DEF Replace
<1>3. Places'
  BY <1>1, <1>2, AfterContinue DEF IInv, Places
<1>4. CheckpointWaits'
  BY <1>2 DEF IInv, CheckpointWaits
<1>5. HighestTip'
  <2> SUFFICES ASSUME rescans = 0, NEW c \in blocks \ (bare \ {b})
               PROVE  Height[c] <= Height[lastBlock]
    BY <1>2 DEF HighestTip
  <2>1. CASE c \in blocks \ bare
    BY <2>1 DEF IInv, HighestTip
  <2>2. CASE c = b /\ b \in bare
    BY <2>2, <1>1 DEF IInv, CheckpointWaits
  <2> QED
    BY <2>1, <2>2
<1> QED
  BY <1>3, <1>4, <1>5 DEF IInv

\* A fork is above every checkpoint, so that none of them is its child.
LEMMA ForkIsNoParent ==
    ASSUME Places, NEW b \in Relayed, NEW p, OnFork(p, b), NEW c \in bare
    PROVE  Prev[c] # b
<1>1. b \in Blocks /\ c \in Checkpoints /\ c \in Blocks
  BY CheckpointAssumption DEF Relayed, Places
<1>2. Height[b] > Height[c]
  BY <1>1 DEF OnFork
<1> QED
  BY <1>1, <1>2, ChildHeight

LEMMA AddForkInv ==
    ASSUME IInv, NEW p \in Peers, NEW b \in Relayed, AddFork(p, b)
    PROVE  IInv'
<1>1. b \in Blocks /\ OnFork(p, b) /\ ~(Height[b] > Height[lastBlock])
  BY DEF Relayed, AddFork, Longer
<1>2. /\ UNCHANGED <<lastBlock, bare, saved, rescans, restarts>>
      /\ blocks' = blocks \cup {b}
      /\ Continue(p, b, orphans, {}, {})
  BY DEF AddFork
<1>3. Height[b] <= Height[lastBlock]
  BY <1>1, BlockAssumption DEF IInv, Places
<1>4. Places'
  BY <1>1, <1>2, AfterContinue DEF IInv, Places
<1>5. CheckpointWaits'
  BY <1>1, <1>2, ForkIsNoParent DEF IInv, CheckpointWaits
<1>6. HighestTip'
  BY <1>2, <1>3 DEF IInv, HighestTip
<1> QED
  BY <1>4, <1>5, <1>6 DEF IInv

LEMMA ReorganiseInv ==
    ASSUME IInv, NEW p \in Peers, NEW b \in Relayed, Reorganise(p, b)
    PROVE  IInv'
<1> DEFINE rows == IF Height[b] = estimatedHeight THEN Rows(b, blocks \cup {b}, bare) ELSE {}
<1>1. b \in Blocks /\ OnFork(p, b) /\ Height[b] > Height[lastBlock]
  BY DEF Relayed, Reorganise, Longer
<1>2. /\ UNCHANGED <<bare, saved, rescans, restarts>>
      /\ lastBlock' = b
      /\ blocks' = blocks \cup {b}
      /\ \/ Continue(p, b, orphans, rows, {})
         \/ Continue(p, b, {}, rows, {})
  BY DEF Reorganise
<1>3. Height[b] \in Nat /\ Height[lastBlock] \in Nat
  BY <1>1, BlockAssumption DEF IInv, Places
<1>4. Places'
  <2>1. rows \in SUBSET Blocks
    BY <1>1, RowsAreBlocks DEF IInv, Places
  <2>2. thread' \in [Peers -> Threads] /\ orphans' \subseteq Blocks
    <3> HIDE DEF rows
    <3> QED BY <1>1, <1>2, <2>1, AfterContinue DEF IInv, Places
  <2> QED
    BY <1>1, <1>2, <2>2 DEF IInv, Places
<1>5. CheckpointWaits'
  <2> SUFFICES ASSUME rescans = 0, NEW c \in bare, Prev[c] \in blocks
               PROVE  Height[c] <= Height[b]
    BY <1>1, <1>2, ForkIsNoParent DEF IInv, CheckpointWaits
  <2>1. c \in Blocks /\ Height[c] \in Nat
    BY CheckpointAssumption, BlockAssumption DEF IInv, Places
  <2>2. Height[c] <= Height[lastBlock] \/ Prev[c] = lastBlock
    BY DEF IInv, CheckpointWaits
  <2>3. CASE Prev[c] = lastBlock
    BY <2>1, <2>3, <1>1, <1>3, ChildHeight DEF IInv, Places
  <2> QED
    BY <2>1, <2>2, <2>3, <1>1, <1>3
<1>6. HighestTip'
  <2> SUFFICES ASSUME rescans = 0, NEW c \in (blocks \cup {b}) \ bare
               PROVE  Height[c] <= Height[b]
    BY <1>2 DEF HighestTip
  <2>1. CASE c \in blocks
    <3>1. Height[c] <= Height[lastBlock] /\ Height[c] \in Nat
      BY <2>1, BlockAssumption DEF IInv, Places, HighestTip
    <3> QED
      BY <3>1, <1>1, <1>3
  <2> QED
    BY <2>1, <1>3
<1> QED
  BY <1>4, <1>5, <1>6 DEF IInv

LEMMA SaveBlocksInv ==
    ASSUME IInv, NEW p \in Peers, SaveBlocks(p)
    PROVE  IInv'
<1>1. /\ UNCHANGED <<lastBlock, blocks, bare, orphans, rescans, restarts>>
      /\ saved' = saved \/ saved' \subseteq thread[p].saving
      /\ thread' = [thread EXCEPT ![p].saving = {}, ![p].stale = {}]
  BY DEF SaveBlocks
<1>2. thread' \in [Peers -> Threads] /\ saved' \subseteq Blocks
  BY <1>1 DEF IInv, Places, Threads
<1> QED
  BY <1>1, <1>2 DEF IInv, Places, CheckpointWaits, HighestTip

LEMMA RescanInv == IInv /\ Rescan => IInv'
<1> SUFFICES ASSUME IInv, Rescan PROVE IInv'
  OBVIOUS
<1>1. /\ UNCHANGED <<blocks, bare, saved, orphans, thread, restarts>>
      /\ rescans' = rescans + 1
      /\ lastBlock' \in {lastBlock, Start}
  BY DEF Rescan, RescanFrom
<1>2. Places'
  BY <1>1, CheckpointAssumption DEF IInv, Places
<1>3. rescans' # 0
  BY <1>1 DEF IInv, Places
<1> QED
  BY <1>2, <1>3 DEF IInv, CheckpointWaits, HighestTip

\* After a restart only the tip and the checkpoints are stored, and the child
\* of a checkpoint is none.
LEMMA RestartInv == IInv /\ Restart => IInv'
<1> SUFFICES ASSUME IInv, Restart PROVE IInv'
  OBVIOUS
<1> DEFINE top == TopRow(saved)
<1>1. /\ lastBlock' = top
      /\ blocks' = Checkpoints \cup {top}
      /\ bare' = IF saved = {} THEN Checkpoints ELSE Checkpoints \ {top}
      /\ orphans' = saved \ {top}
      /\ thread' = [p \in Peers |-> Idle]
      /\ saved' = saved /\ rescans' = rescans
      /\ restarts' = restarts + 1
  BY DEF Restart
<1>2. top \in Blocks /\ (saved = {} => top = Start)
  BY TopRowIsBlock DEF IInv, Places
<1> HIDE DEF top
<1>3. Places'
  BY <1>1, <1>2, CheckpointAssumption DEF IInv, Places, Threads, Idle
<1>4. CheckpointWaits'
  <2> SUFFICES ASSUME NEW c \in bare', Prev[c] \in blocks' PROVE Prev[c] = top
    BY <1>1 DEF CheckpointWaits
  <2>1. c \in Checkpoints
    BY <1>1
  <2> QED
    BY <1>1, <2>1, CheckpointAssumption
<1>5. HighestTip'
  <2> SUFFICES ASSUME NEW c \in blocks' \ bare' PROVE Height[c] <= Height[top]
    BY <1>1 DEF HighestTip
  <2>1. c = top
    BY <1>1, <1>2, CheckpointAssumption
  <2> QED
    BY <2>1, <1>2, BlockAssumption
<1> QED
  BY <1>3, <1>4, <1>5 DEF IInv

-----------------------------------------------------------------------------
(* The theorems *)

\* Every step keeps the invariant.
LEMMA StepInv == IInv /\ [Next]_vars => IInv'
<1> SUFFICES ASSUME IInv, [Next]_vars PROVE IInv'
  OBVIOUS
<1>1. ASSUME NEW p \in Peers, NEW b \in Relayed, Relay(p, b) PROVE IInv'
  <2>1. CASE Ignore(p, b)
    <3>1. /\ thread' = [thread EXCEPT ![p].next = None]
          /\ UNCHANGED <<lastBlock, blocks, bare, saved, rescans, restarts, orphans>>
      BY <2>1 DEF Ignore
    <3>2. thread' \in [Peers -> Threads]
      BY <3>1, NextIsNone DEF IInv
    <3> QED
      BY <3>1, <3>2, QuietInv DEF IInv, Places
  <2>2. CASE AddOrphan(p, b)
    <3>1. /\ thread' = [thread EXCEPT ![p].next = None]
          /\ UNCHANGED <<lastBlock, blocks, bare, saved, rescans, restarts>>
          /\ orphans' = WithOrphan(b)
      BY <2>2 DEF AddOrphan
    <3>2. thread' \in [Peers -> Threads]
      BY <3>1, NextIsNone DEF IInv
    <3>3. orphans' \subseteq Blocks
      BY <3>1 DEF WithOrphan, Relayed, IInv, Places
    <3> QED
      BY <3>1, <3>2, <3>3, QuietInv
  <2>3. CASE Extend(p, b)
    BY <2>3, ExtendInv
  <2>4. CASE Replace(p, b)
    BY <2>4, ReplaceInv
  <2>5. CASE AddAhead(p, b)
    <3>1. /\ Continue(p, b, WithOrphan(b), {}, {})
          /\ UNCHANGED <<lastBlock, blocks, bare, saved, rescans, restarts>>
      BY <2>5 DEF AddAhead
    <3>2. WithOrphan(b) \in SUBSET Blocks /\ b \in Blocks
      BY DEF WithOrphan, Relayed, IInv, Places
    <3>3. thread' \in [Peers -> Threads] /\ orphans' \subseteq Blocks
      BY <3>1, <3>2, AfterContinue DEF IInv
    <3> QED
      BY <3>1, <3>3, QuietInv
  <2>6. CASE AddFork(p, b)
    BY <2>6, AddForkInv
  <2>7. CASE Reorganise(p, b)
    BY <2>7, ReorganiseInv
  <2> QED
    BY <1>1, <2>1, <2>2, <2>3, <2>4, <2>5, <2>6, <2>7 DEF Relay
<1>2. ASSUME NEW p \in Peers, SaveBlocks(p) PROVE IInv'
  BY <1>2, SaveBlocksInv
<1>3. ASSUME LoadFilter PROVE IInv'
  BY <1>3, QuietInv DEF LoadFilter, IInv, Places
<1>4. ASSUME NEW h, PeerConnected(h) PROVE IInv'
  BY <1>3, <1>4 DEF PeerConnected
<1>5. ASSUME UpdateFilter PROVE IInv'
  <2>1. CASE LoadFilter
    BY <2>1, <1>3
  <2>2. CASE UNCHANGED <<lastBlock, blocks, bare, saved, rescans, restarts, orphans, thread>>
    BY <2>2, QuietInv DEF IInv, Places
  <2> QED
    BY <1>5, <2>1, <2>2 DEF UpdateFilter
<1>6. ASSUME Rescan PROVE IInv'
  BY <1>6, RescanInv
<1>7. ASSUME Restart PROVE IInv'
  BY <1>7, RestartInv
<1>8. ASSUME UNCHANGED vars PROVE IInv'
  BY <1>8, QuietInv DEF vars, IInv, Places
<1> QED
  BY <1>1, <1>2, <1>4, <1>5, <1>6, <1>7, <1>8 DEF Next

\* The invariant of the block tree holds always.
THEOREM IInvAlways == Spec => []IInv
<1>1. Init => IInv
  BY InitInv
<1>2. IInv /\ [Next]_vars => IInv'
  BY StepInv
<1> QED
  BY <1>1, <1>2, PTL DEF Spec

\* Until a rescan the tip is the highest block that peers have relayed and that
\* is stored.
THEOREM HighestTipAlways == Spec => []HighestTip
<1>1. IInv => HighestTip
  BY DEF IInv
<1> QED
  BY <1>1, IInvAlways, PTL

-----------------------------------------------------------------------------
(* Walks back through the stored blocks *)

\* A set of blocks that is not empty has a lowest one.
LEMMA LowestExists ==
    ASSUME NEW S \in SUBSET Blocks, S # {}
    PROVE  \E b \in S : \A c \in S : ~(Height[c] < Height[b])
<1> DEFINE heights == {Height[b] : b \in S}
<1>1. \A b \in S : Height[b] \in Nat
  BY BlockAssumption
<1>2. heights \in SUBSET Nat /\ heights # {}
  BY <1>1
<1>3. PICK h \in heights : \A e \in heights : ~(<<e, h>> \in OpToRel(<, Nat))
  <2> HIDE DEF heights
  <2> QED
    BY <1>2, NatLessThanWellFounded, WFMin
<1>4. \A e \in heights : ~(e < h)
  <2> HIDE DEF heights
  <2> QED
    BY <1>2, <1>3 DEF OpToRel
<1> QED
  BY <1>4

\* A set of blocks that has a lower one for each is empty.
LEMMA NoneIsLowest ==
    ASSUME NEW S \in SUBSET Blocks, \A b \in S : \E c \in S : Height[c] < Height[b]
    PROVE  S = {}
  BY LowestExists

\* What the walk back from x finds.
ChainEqn(f, stored, bareOnes) ==
    f = [x \in Blocks |-> {x} \cup (IF Back(x, stored, bareOnes) = None THEN {}
                                    ELSE f[Back(x, stored, bareOnes)])]

\* The blocks of S are followed by those before them.
ClosedBack(S, stored, bareOnes) ==
    \A x \in S : Back(x, stored, bareOnes) # None => Back(x, stored, bareOnes) \in S

\* A step back leads to the stored block before, one lower.
LEMMA BackIsBlock ==
    ASSUME NEW b \in Blocks, NEW stored \in SUBSET Blocks, NEW bareOnes,
           Back(b, stored, bareOnes) # None
    PROVE  /\ Back(b, stored, bareOnes) = Prev[b]
           /\ b \notin bareOnes
           /\ Prev[b] \in stored /\ Prev[b] \in Blocks
           /\ Height[b] = Height[Prev[b]] + 1
  BY ChildHeight DEF Back

\* The walk back is defined: for each block the smallest set that it closes.
LEMMA ChainExists ==
    ASSUME NEW stored \in SUBSET Blocks, NEW bareOnes
    PROVE  \E f : ChainEqn(f, stored, bareOnes)
<1> DEFINE back(x) == Back(x, stored, bareOnes)
           Holds(S, b) == b \in S /\ ClosedBack(S, stored, bareOnes)
           reach(b) == {x \in Blocks : \A S \in SUBSET Blocks : Holds(S, b) => x \in S}
           f == [b \in Blocks |-> reach(b)]
<1>1. ASSUME NEW b \in Blocks
      PROVE  reach(b) = {b} \cup (IF back(b) = None THEN {} ELSE f[back(b)])
  <2>1. b \in reach(b)
    OBVIOUS
  <2>2. CASE back(b) = None
    <3>1. Holds({b}, b)
      BY <2>2 DEF ClosedBack
    <3>2. {b} \in SUBSET Blocks
      OBVIOUS
    <3>3. reach(b) \subseteq {b}
      BY <3>1, <3>2
    <3> QED
      BY <2>1, <2>2, <3>3
  <2>3. CASE back(b) # None
    <3>0. back(b) \in Blocks
      BY <2>3, BackIsBlock
    <3>1. f[back(b)] = reach(back(b))
      BY <3>0
    <3>2. \A S \in SUBSET Blocks : Holds(S, b) => Holds(S, back(b))
      BY <2>3 DEF ClosedBack
    <3>3. reach(back(b)) \subseteq reach(b)
      BY <3>2
    <3>4. ASSUME NEW x \in reach(b), x # b PROVE x \in reach(back(b))
      <4> SUFFICES ASSUME NEW S \in SUBSET Blocks, Holds(S, back(b)) PROVE x \in S
        OBVIOUS
      <4>1. Holds(S \cup {b}, b)
        BY DEF ClosedBack
      <4>2. S \cup {b} \in SUBSET Blocks
        OBVIOUS
      <4> QED
        BY <3>4, <4>1, <4>2
    <3> QED
      BY <2>1, <2>3, <3>1, <3>3, <3>4
  <2> QED
    BY <2>2, <2>3
<1>2. f = [x \in Blocks |-> {x} \cup (IF back(x) = None THEN {} ELSE f[back(x)])]
  <2> HIDE DEF reach, back
  <2>1. \A b \in Blocks : f[b] = {b} \cup (IF back(b) = None THEN {} ELSE f[back(b)])
    BY <1>1
  <2> DEFINE g == [x \in Blocks |-> {x} \cup (IF back(x) = None THEN {} ELSE f[back(x)])]
  <2>2. f = [x \in Blocks |-> f[x]]
    OBVIOUS
  <2>3. g = [x \in Blocks |-> g[x]]
    OBVIOUS
  <2>4. \A x \in Blocks : f[x] = g[x]
    BY <2>1
  <2> QED
    BY <2>4
<1>3. ChainEqn(f, stored, bareOnes)
  <2> HIDE DEF reach
  <2> QED BY <1>2 DEF ChainEqn
<1> QED
  BY <1>3

\* The definition of ChainOf, one step of it.
LEMMA ChainUnfolds ==
    ASSUME NEW b \in Blocks, NEW stored \in SUBSET Blocks, NEW bareOnes
    PROVE  ChainOf(b, stored, bareOnes) =
               {b} \cup (IF Back(b, stored, bareOnes) = None THEN {}
                         ELSE ChainOf(Back(b, stored, bareOnes), stored, bareOnes))
<1> DEFINE c == CHOOSE f : ChainEqn(f, stored, bareOnes)
<1>1. ChainEqn(c, stored, bareOnes)
  BY ChainExists
<1>2. \A x : ChainOf(x, stored, bareOnes) = c[x]
  BY DEF ChainOf, ChainEqn
<1>3. c[b] = {b} \cup (IF Back(b, stored, bareOnes) = None THEN {}
                       ELSE c[Back(b, stored, bareOnes)])
  <2> HIDE DEF c
  <2> QED BY <1>1 DEF ChainEqn
<1> HIDE DEF c
<1> QED
  BY <1>2, <1>3

\* A chain has one block of each height, one child of each block, and every
\* block but the first is stored, lower, and has its child there.
IsChain(C, b, stored) ==
    /\ C \subseteq Blocks /\ b \in C
    /\ \A x \in C \ {b} : x \in stored /\ Height[x] < Height[b]
    /\ \A x \in C \ {b} : \E c \in C : Prev[c] = x /\ Height[c] = Height[x] + 1
    /\ \A x, y \in C : Height[x] = Height[y] => x = y
    /\ \A x, y \in C : Prev[x] = Prev[y] => x = y

\* What a walk back finds is a chain: a lowest block of which it were not would
\* have a lower one before it.
LEMMA WalkIsChain ==
    ASSUME NEW stored \in SUBSET Blocks, NEW bareOnes, NEW b \in Blocks
    PROVE  IsChain(ChainOf(b, stored, bareOnes), b, stored)
<1> DEFINE chain(x) == ChainOf(x, stored, bareOnes)
           back(x) == Back(x, stored, bareOnes)
           bad == {x \in Blocks : ~IsChain(chain(x), x, stored)}
<1>1. ASSUME NEW x \in Blocks, \A y \in bad : ~(Height[y] < Height[x])
      PROVE  IsChain(chain(x), x, stored)
  <2>1. chain(x) = {x} \cup (IF back(x) = None THEN {} ELSE chain(back(x)))
    BY ChainUnfolds
  <2>2. CASE back(x) = None
    <3>1. chain(x) = {x}
      BY <2>1, <2>2
    <3> QED
      BY <3>1 DEF IsChain
  <2>3. CASE back(x) # None
    <3> DEFINE q == back(x)
    <3>1. /\ q = Prev[x] /\ q \in stored /\ q \in Blocks
          /\ Height[x] = Height[q] + 1 /\ Height[q] \in Nat
      BY <2>3, BackIsBlock, BlockAssumption
    <3>2. IsChain(chain(q), q, stored)
      BY <1>1, <3>1
    <3>3. chain(x) = {x} \cup chain(q)
      BY <2>1, <2>3
    <3> HIDE DEF q, chain, bad
    <3>4. \A y \in chain(q) : y \in Blocks /\ Height[y] \in Nat /\ Height[y] < Height[x] /\ y \in stored
      <4>1. \A y \in chain(q) : y \in Blocks /\ Height[y] \in Nat
        BY <3>2, BlockAssumption DEF IsChain
      <4>2. \A y \in chain(q) : y \in stored /\ (y = q \/ Height[y] < Height[q])
        BY <3>1, <3>2 DEF IsChain
      <4> QED
        BY <4>1, <4>2, <3>1
    <3>5. \A y \in chain(x) \ {x} : \E c \in chain(x) : Prev[c] = y /\ Height[c] = Height[y] + 1
      <4> SUFFICES ASSUME NEW y \in chain(q)
                   PROVE  \E c \in chain(x) : Prev[c] = y /\ Height[c] = Height[y] + 1
        BY <3>3
      <4>1. CASE y = q
        BY <4>1, <3>1, <3>3
      <4>2. CASE y # q
        BY <4>2, <3>2, <3>3 DEF IsChain
      <4> QED
        BY <4>1, <4>2
    <3>6. \A y, z \in chain(x) : Height[y] = Height[z] => y = z
      <4>1. \A y \in chain(q) : Height[y] # Height[x]
        BY <3>4, <3>1
      <4> QED
        BY <4>1, <3>2, <3>3 DEF IsChain
    <3>7. \A y, z \in chain(x) : Prev[y] = Prev[z] => y = z
      <4>1. ASSUME NEW y \in chain(q) PROVE Prev[y] # Prev[x]
        <5> SUFFICES ASSUME Prev[y] = Prev[x] PROVE FALSE
          OBVIOUS
        <5>1. y \in Blocks /\ Prev[y] = q /\ Height[y] < Height[x]
          BY <3>1, <3>4
        <5>2. Height[y] = Height[q] + 1
          BY <5>1, <3>1, ChildHeight
        <5> QED
          BY <5>1, <5>2, <3>1
      <4> QED
        BY <4>1, <3>2, <3>3 DEF IsChain
    <3>8. chain(x) \subseteq Blocks /\ x \in chain(x)
      BY <3>3, <3>4
    <3>9. \A y \in chain(x) \ {x} : y \in stored /\ Height[y] < Height[x]
      BY <3>3, <3>4
    <3> QED
      BY <3>5, <3>6, <3>7, <3>8, <3>9 DEF IsChain
  <2> QED
    BY <2>2, <2>3
<1>2. bad \in SUBSET Blocks /\ \A x \in bad : \E y \in bad : Height[y] < Height[x]
  BY <1>1
<1>3. bad = {}
  <2> HIDE DEF bad
  <2> QED
    BY <1>2, NoneIsLowest
<1> QED
  BY <1>3

\* The memory that is cleared is behind the tip.
LEMMA TailIsBelow ==
    ASSUME NEW tip \in Blocks, NEW stored \in SUBSET Blocks, NEW bareOnes
    PROVE  \A x \in Tail(tip, stored, bareOnes) : x \in Blocks /\ Height[x] < Height[tip]
<1> DEFINE last == Before(tip, Walk + 1, stored, bareOnes)
<1> SUFFICES ASSUME NEW x \in Tail(tip, stored, bareOnes)
             PROVE  x \in Blocks /\ Height[x] < Height[tip]
  OBVIOUS
<1>1. last # None /\ x \in ChainOf(last, stored, bareOnes) \ {last}
  BY DEF Tail
<1>2. ChainOf(tip, stored, bareOnes) \subseteq Blocks
  BY WalkIsChain DEF IsChain
<1>3. last \in Blocks /\ Height[last] = Height[tip] - (Walk + 1)
  BY <1>1, <1>2 DEF Before
<1> HIDE DEF last
<1>4. x \in Blocks /\ Height[x] < Height[last]
  BY <1>1, <1>3, WalkIsChain DEF IsChain
<1>5. Height[x] \in Nat /\ Height[tip] \in Nat /\ Walk \in Nat
  BY <1>4, BlockAssumption, BoundAssumption
<1> QED
  BY <1>3, <1>4, <1>5

\* Rows of which no two have the same parent.
OneRowEach(rows) == \A b, c \in rows : Prev[b] = Prev[c] => b = c

LEMMA NoRows == OneRowEach({})
  BY DEF OneRowEach

\* The rows of a stored block lie on one walk back from it.
LEMMA RowsAreApart ==
    ASSUME NEW stored \in SUBSET Blocks, NEW b \in stored, NEW bareOnes
    PROVE  OneRowEach(Rows(b, stored, bareOnes))
<1>1. IsChain(ChainOf(b, stored, bareOnes), b, stored)
  BY WalkIsChain
<1> QED
  BY <1>1 DEF Rows, OneRowEach, IsChain

-----------------------------------------------------------------------------
(* The two walks of a reorganisation *)

\* A walk that goes on by "step" until it is in "stops" has a result for each
\* place it may start from.
LEMMA WalkHasResult ==
    ASSUME NEW S, NEW stops \in SUBSET S, NEW step \in [S -> S]
    PROVE  \E f : f = [r \in S |-> IF r \in stops THEN r ELSE f[step[r]]]
<1> DEFINE Closed(T) == \A r \in T : r \notin stops => step[r] \in T
           reach(r) == {e \in S : \A T \in SUBSET S : r \in T /\ Closed(T) => e \in T}
           f == [r \in S |-> CHOOSE e : e \in reach(r) \cap stops]
           g == [r \in S |-> IF r \in stops THEN r ELSE f[step[r]]]
<1>1. ASSUME NEW r \in S PROVE f[r] = g[r]
  <2>1. CASE r \in stops
    <3>1. {r} \in SUBSET S /\ Closed({r}) /\ r \in {r}
      BY <2>1
    <3>2. reach(r) \cap stops = {r}
      BY <2>1, <3>1
    <3> QED
      BY <2>1, <3>2
  <2>2. CASE r \notin stops
    <3>1. step[r] \in S
      OBVIOUS
    <3>2. \A T \in SUBSET S : r \in T /\ Closed(T) => step[r] \in T
      BY <2>2
    <3>3. reach(step[r]) \subseteq reach(r)
      BY <3>2
    <3>4. ASSUME NEW e \in reach(r), e # r PROVE e \in reach(step[r])
      <4> SUFFICES ASSUME NEW T \in SUBSET S, step[r] \in T, Closed(T) PROVE e \in T
        OBVIOUS
      <4>1. Closed(T \cup {r}) /\ T \cup {r} \in SUBSET S
        OBVIOUS
      <4> QED
        BY <3>4, <4>1
    <3>5. reach(r) \cap stops = reach(step[r]) \cap stops
      <4> HIDE DEF reach
      <4> QED
        BY <2>2, <3>3, <3>4
    <3> HIDE DEF reach
    <3>6. f[r] = f[step[r]]
      BY <3>1, <3>5
    <3> HIDE DEF f
    <3> QED
      BY <2>2, <3>6
  <2> QED
    BY <2>1, <2>2
<1>2. f = g
  <2>1. f = [r \in S |-> f[r]] /\ g = [r \in S |-> g[r]]
    <3> HIDE DEF reach
    <3> QED
      OBVIOUS
  <2> HIDE DEF f, g
  <2> QED
    BY <1>1, <2>1
<1> HIDE DEF f
<1> QED
  BY <1>2


\* A step back leads to a block or ends.
LEMMA BackType ==
    ASSUME NEW b \in Blocks, NEW stored \in SUBSET Blocks, NEW bareOnes
    PROVE  Back(b, stored, bareOnes) \in Blocks \cup {None}
  BY BackIsBlock

\* What the two walks of Join do.
JoinEqn(f, stored, bareOnes) ==
    f = [at \in WalkPlaces |-> IF Stops(at) THEN at ELSE f[StepBack(at, stored, bareOnes)]]

\* So does a step of the two walks.
LEMMA StepBackType ==
    ASSUME NEW stored \in SUBSET Blocks, NEW bareOnes, NEW at \in WalkPlaces, ~Stops(at)
    PROVE  StepBack(at, stored, bareOnes) \in WalkPlaces
<1>1. at[1] \in Blocks /\ at[2] \in Blocks
  BY DEF WalkPlaces, Stops
<1>2. Back(at[1], stored, bareOnes) \in Blocks \cup {None} /\ Back(at[2], stored, bareOnes) \in Blocks \cup {None}
  BY <1>1, BackType
<1> QED
  BY <1>1, <1>2 DEF StepBack, WalkPlaces

\* The two walks are defined.
LEMMA JoinExists ==
    ASSUME NEW stored \in SUBSET Blocks, NEW bareOnes
    PROVE  \E f : JoinEqn(f, stored, bareOnes)
<1> DEFINE stops == {at \in WalkPlaces : Stops(at)}
           step == [at \in WalkPlaces |-> IF Stops(at) THEN at ELSE StepBack(at, stored, bareOnes)]
<1>1. step \in [WalkPlaces -> WalkPlaces]
  BY StepBackType
<1>2. stops \in SUBSET WalkPlaces
  OBVIOUS
<1>3. PICK f : f = [r \in WalkPlaces |-> IF r \in stops THEN r ELSE f[step[r]]]
  <2> HIDE DEF stops, step
  <2> QED
    BY <1>1, <1>2, WalkHasResult
<1> DEFINE g == [at \in WalkPlaces |-> IF Stops(at) THEN at ELSE f[StepBack(at, stored, bareOnes)]]
<1>4. ASSUME NEW r \in WalkPlaces PROVE f[r] = g[r]
  <2>1. f[r] = IF r \in stops THEN r ELSE f[step[r]]
    <3> HIDE DEF stops, step
    <3> QED BY <1>3
  <2>2. (r \in stops <=> Stops(r)) /\ (~Stops(r) => step[r] = StepBack(r, stored, bareOnes))
    OBVIOUS
  <2>3. g[r] = IF Stops(r) THEN r ELSE f[StepBack(r, stored, bareOnes)]
    OBVIOUS
  <2> HIDE DEF stops, step, g
  <2> QED
    BY <2>1, <2>2, <2>3
<1>5. f = g
  <2>1. f = [r \in WalkPlaces |-> f[r]] /\ g = [r \in WalkPlaces |-> g[r]]
    <3> HIDE DEF stops, step
    <3> QED BY <1>3
  <2> HIDE DEF g
  <2> QED
    BY <1>4, <2>1
<1> QED
  BY <1>5 DEF JoinEqn

\* The definition of Join, one step of it.
LEMMA JoinUnfolds ==
    ASSUME NEW stored \in SUBSET Blocks, NEW bareOnes,
           NEW x \in Blocks \cup {None}, NEW y \in Blocks \cup {None}
    PROVE  Join(x, y, stored, bareOnes) =
               IF Stops(<<x, y>>) THEN <<x, y>>
               ELSE LET next == StepBack(<<x, y>>, stored, bareOnes)
                    IN  Join(next[1], next[2], stored, bareOnes)
<1> DEFINE w == CHOOSE f : JoinEqn(f, stored, bareOnes)
           at == <<x, y>>
           next == StepBack(at, stored, bareOnes)
<1>1. JoinEqn(w, stored, bareOnes)
  BY JoinExists
<1>2. \A u, v : Join(u, v, stored, bareOnes) = w[<<u, v>>]
  BY DEF Join, JoinEqn
<1>3. at \in WalkPlaces
  BY DEF WalkPlaces
<1>4. w[at] = IF Stops(at) THEN at ELSE w[next]
  <2> HIDE DEF w, at
  <2> QED BY <1>1, <1>3 DEF JoinEqn
<1>5. next = <<next[1], next[2]>>
  BY DEF StepBack
<1> HIDE DEF w
<1> QED
  BY <1>2, <1>4, <1>5

-----------------------------------------------------------------------------
(* Types, and the rows that are saved *)

\* The tip is stored, and a checkpoint that is an object is not one that was
\* freed.
Stored ==
    /\ lastBlock \in blocks
    /\ bare \subseteq blocks
    /\ freed \subseteq Checkpoints
    /\ bare \cap freed = {}

OneOrphanEach == \A x, y \in orphans : Prev[x] = Prev[y] => x = y

\* Of what is saved, or waits to be, no two blocks have the same parent.
RowsApart ==
    /\ OneRowEach(saved)
    /\ \A p \in Peers : OneRowEach(thread[p].saving)

Scalars ==
    /\ estimatedHeight \in Nat
    /\ filter \in BOOLEAN
    /\ txHeight \in [Txs -> Heights \cup {Unconfirmed}]
    /\ broken \in {"no", "null", "freed"}
    /\ rescans \in 0 .. MaxRescans
    /\ restarts \in 0 .. MaxRestarts

TreeInv == Stored /\ OneOrphanEach /\ RowsApart /\ Scalars

\* The first state.
LEMMA TreeInitially == Init => TreeInv
<1> SUFFICES ASSUME Init PROVE TreeInv
  OBVIOUS
<1>1. Stored
  BY CheckpointAssumption DEF Init, Stored
<1>2. OneOrphanEach
  BY DEF Init, OneOrphanEach
<1>3. RowsApart
  BY DEF Init, Idle, RowsApart, OneRowEach
<1>4. Scalars
  <2>1. filter \in BOOLEAN /\ broken = "no"
    BY DEF Init
  <2>2. /\ estimatedHeight \in Nat /\ rescans \in 0 .. MaxRescans /\ restarts \in 0 .. MaxRestarts
        /\ txHeight \in [Txs -> Heights \cup {Unconfirmed}]
    BY BoundAssumption DEF Init
  <2> QED
    BY <2>1, <2>2 DEF Scalars
<1> QED
  BY <1>1, <1>2, <1>3, <1>4 DEF TreeInv

\* What Continue leaves in the threads and with the orphans.
LEMMA ContinueKeeps ==
    ASSUME Places, RowsApart, NEW p \in Peers, NEW b, NEW waits, NEW gone,
           NEW rows, OneRowEach(rows), saved' = saved,
           \A x, y \in waits : Prev[x] = Prev[y] => x = y,
           Continue(p, b, waits, rows, gone)
    PROVE  OneOrphanEach' /\ RowsApart'
<1>1. OneOrphanEach'
  BY DEF Continue, OneOrphanEach
<1>2. ASSUME NEW q \in Peers PROVE OneRowEach(thread'[q].saving)
  <2>1. CASE q = p
    <3>1. thread'[q].saving = rows
      BY <2>1 DEF Continue, Freeing
    <3> QED
      BY <3>1
  <2>2. CASE q # p
    <3>1. thread'[q].saving = thread[q].saving
      BY <2>2 DEF Continue, Freeing, Places, Threads
    <3> QED
      BY <3>1 DEF RowsApart
  <2> QED
    BY <2>1, <2>2
<1> QED
  BY <1>1, <1>2 DEF RowsApart

\* An orphan that is added replaces the one with its prevBlock.
LEMMA OneOrphanAdded ==
    ASSUME OneOrphanEach, NEW b
    PROVE  \A x, y \in WithOrphan(b) : Prev[x] = Prev[y] => x = y
  BY DEF OneOrphanEach, WithOrphan

\* The types of what the steps compute.
LEMMA RaisedIsNat ==
    ASSUME Scalars, NEW b \in Blocks
    PROVE  Raised(b) \in Nat
  BY BlockAssumption DEF Scalars, Raised, Max2

\* Heights of blocks, or unconfirmed: after a confirmation ...
LEMMA ConfirmType ==
    ASSUME Scalars, NEW b \in Blocks
    PROVE  Confirm(txHeight, b) \in [Txs -> Heights \cup {Unconfirmed}]
  BY DEF Scalars, Confirm, Heights

\* ... and after a reorganisation.
LEMMA RejoinedType ==
    ASSUME Scalars, NEW b \in Blocks, NEW x, NEW y, NEW stored \in SUBSET Blocks
    PROVE  Rejoined(b, x, y, stored) \in [Txs -> Heights \cup {Unconfirmed}]
<1> DEFINE chain == IF y = None THEN {}
                    ELSE {c \in ChainOf(b, stored, bare) : Height[c] > Height[y]}
<1>1. chain \subseteq Blocks
  BY WalkIsChain DEF IsChain
<1>2. Rejoined(b, x, y, stored) =
        [t \in Txs |->
            IF \E c \in chain : t \in Matched[c]
            THEN Height[CHOOSE c \in chain : t \in Matched[c]]
            ELSE IF txHeight[t] > Height[x] THEN Unconfirmed ELSE txHeight[t]]
  BY DEF Rejoined
<1> HIDE DEF chain
<1>3. ASSUME NEW t \in Txs, \E c \in chain : t \in Matched[c]
      PROVE  Height[CHOOSE c \in chain : t \in Matched[c]] \in Heights
  BY <1>1, <1>3 DEF Heights
<1> QED
  BY <1>2, <1>3 DEF Scalars

\* Extend: the memory that is cleared is below the new tip, which stays stored.
LEMMA ExtendTree ==
    ASSUME Places, TreeInv, NEW p \in Peers, NEW b \in Relayed, Extend(p, b)
    PROVE  TreeInv'
<1> DEFINE stored == blocks \cup {b}
           bareOnes == bare \ {b}
           gone == Tail(b, stored, bareOnes)
           rows == IF Height[b] = estimatedHeight \/ Height[b] % SaveInterval = 0
                   THEN Rows(b, stored \ gone, bareOnes \ gone) ELSE {}
<1>1. /\ b \in Blocks /\ lastBlock' = b
      /\ stored \in SUBSET Blocks /\ b \in stored
  BY DEF Relayed, Extend, Places
<1>2. /\ blocks' = stored \ gone /\ bare' = bareOnes \ gone
      /\ freed' = freed \cup (gone \cap bareOnes)
  BY DEF Extend
<1>3. /\ \/ Continue(p, b, orphans, rows, gone)
         \/ Continue(p, b, {}, rows, gone)
      /\ txHeight' = Confirm(txHeight, b)
      /\ estimatedHeight' = Raised(b)
      /\ UNCHANGED <<filter, saved, broken, rescans, restarts>>
  BY DEF Extend
<1>4. b \notin gone
  <2> HIDE DEF stored, bareOnes
  <2> QED BY <1>1, TailIsBelow, BlockAssumption
<1> HIDE DEF gone
<1>5. Stored'
  BY <1>1, <1>2, <1>4 DEF TreeInv, Stored, Places
<1>6. OneRowEach(rows)
  <2>1. stored \ gone \in SUBSET Blocks /\ b \in stored \ gone
    BY <1>1, <1>4
  <2> HIDE DEF stored, bareOnes
  <2> QED
    BY <2>1, RowsAreApart, NoRows
<1>7. OneOrphanEach' /\ RowsApart'
  <2> HIDE DEF stored, bareOnes, rows
  <2> QED
    BY <1>3, <1>6, ContinueKeeps DEF TreeInv, OneOrphanEach
<1>8. Scalars'
  BY <1>1, <1>3, RaisedIsNat, ConfirmType DEF TreeInv, Scalars
<1> QED
  BY <1>5, <1>7, <1>8 DEF TreeInv

\* Replace: a checkpoint that is replaced is freed.
LEMMA ReplaceTree ==
    ASSUME Places, TreeInv, NEW p \in Peers, NEW b \in Relayed, Replace(p, b)
    PROVE  TreeInv'
<1>1. /\ b \in Blocks
      /\ bare' = bare \ {b} /\ freed' = freed \cup ({b} \cap bare)
      /\ Continue(p, b, orphans, {}, {b})
      /\ estimatedHeight' = Raised(b)
      /\ UNCHANGED <<blocks, lastBlock, filter, saved, rescans, restarts>>
  BY DEF Relayed, Replace
<1>2. txHeight' \in {txHeight, Confirm(txHeight, b)} /\ broken' \in {"null", broken}
  BY DEF Replace
<1>3. Stored'
  BY <1>1 DEF TreeInv, Stored, Places
<1>4. OneOrphanEach' /\ RowsApart'
  BY <1>1, NoRows, ContinueKeeps DEF TreeInv, OneOrphanEach
<1>5. Scalars'
  BY <1>1, <1>2, RaisedIsNat, ConfirmType DEF TreeInv, Scalars
<1> QED
  BY <1>3, <1>4, <1>5 DEF TreeInv

\* AddAhead.
LEMMA AddAheadTree ==
    ASSUME Places, TreeInv, NEW p \in Peers, NEW b \in Relayed, AddAhead(p, b)
    PROVE  TreeInv'
<1>1. /\ b \in Blocks
      /\ Continue(p, b, WithOrphan(b), {}, {})
      /\ estimatedHeight' = Raised(b)
      /\ UNCHANGED <<blocks, bare, freed, lastBlock, filter, txHeight, saved, broken,
                     rescans, restarts>>
  BY DEF Relayed, AddAhead
<1>2. OneOrphanEach' /\ RowsApart'
  BY <1>1, NoRows, OneOrphanAdded, ContinueKeeps DEF TreeInv
<1>3. Scalars'
  BY <1>1, RaisedIsNat DEF TreeInv, Scalars
<1> QED
  BY <1>1, <1>2, <1>3 DEF TreeInv, Stored

\* AddFork.
LEMMA AddForkTree ==
    ASSUME Places, TreeInv, NEW p \in Peers, NEW b \in Relayed, AddFork(p, b)
    PROVE  TreeInv'
<1>1. /\ b \in Blocks
      /\ blocks' = blocks \cup {b}
      /\ Continue(p, b, orphans, {}, {})
      /\ estimatedHeight' = Raised(b)
      /\ UNCHANGED <<bare, freed, lastBlock, filter, txHeight, saved, broken, rescans, restarts>>
  BY DEF Relayed, AddFork
<1>2. OneOrphanEach' /\ RowsApart'
  BY <1>1, NoRows, ContinueKeeps DEF TreeInv, OneOrphanEach
<1>3. Scalars'
  BY <1>1, RaisedIsNat DEF TreeInv, Scalars
<1> QED
  BY <1>1, <1>2, <1>3 DEF TreeInv, Stored

\* Reorganise.
LEMMA ReorganiseTree ==
    ASSUME Places, TreeInv, NEW p \in Peers, NEW b \in Relayed, Reorganise(p, b)
    PROVE  TreeInv'
<1> DEFINE stored == blocks \cup {b}
           join == Join(b, lastBlock, stored, bare)
           rows == IF Height[b] = estimatedHeight THEN Rows(b, stored, bare) ELSE {}
<1>1. b \in Blocks /\ stored \in SUBSET Blocks /\ b \in stored
  BY DEF Relayed, Places
<1>2. /\ blocks' = stored /\ lastBlock' = b
      /\ \/ Continue(p, b, orphans, rows, {})
         \/ Continue(p, b, {}, rows, {})
      /\ estimatedHeight' = Raised(b)
      /\ UNCHANGED <<bare, freed, filter, saved, rescans, restarts>>
  BY DEF Reorganise
<1>3. /\ txHeight' \in {txHeight, Rejoined(b, join[1], join[2], stored)}
      /\ broken' \in {"null", broken}
  BY DEF Reorganise
<1>4. Stored'
  BY <1>2 DEF TreeInv, Stored
<1> HIDE DEF stored, join
<1>5. OneRowEach(rows)
  BY <1>1, RowsAreApart, NoRows
<1>6. OneOrphanEach' /\ RowsApart'
  <2> HIDE DEF rows
  <2> QED
    BY <1>2, <1>5, ContinueKeeps DEF TreeInv, OneOrphanEach
<1>7. Scalars'
  BY <1>1, <1>2, <1>3, RaisedIsNat, RejoinedType DEF TreeInv, Scalars
<1> QED
  BY <1>4, <1>6, <1>7 DEF TreeInv

\* A thread that drops its block has the rows it had.
LEMMA NextIsNoneTree ==
    ASSUME Places, TreeInv, NEW p \in Peers, thread' = [thread EXCEPT ![p].next = None],
           \A x, y \in orphans' : Prev[x] = Prev[y] => x = y,
           UNCHANGED <<blocks, bare, freed, lastBlock, estimatedHeight, filter,
                       txHeight, saved, broken, rescans, restarts>>
    PROVE  TreeInv'
<1>1. \A q \in Peers : thread'[q].saving = thread[q].saving
  BY DEF Places, Threads
<1>2. RowsApart'
  BY <1>1 DEF TreeInv, RowsApart
<1> QED
  BY <1>2 DEF TreeInv, Stored, OneOrphanEach, Scalars

\* SaveBlocks: the rows become those that the thread had to save.
LEMMA SaveBlocksTree ==
    ASSUME Places, TreeInv, NEW p \in Peers, SaveBlocks(p)
    PROVE  TreeInv'
<1>1. /\ saved' = saved \/ saved' \subseteq thread[p].saving
      /\ broken' \in {"freed", broken}
      /\ thread' = [thread EXCEPT ![p].saving = {}, ![p].stale = {}]
      /\ UNCHANGED <<blocks, bare, freed, orphans, lastBlock, estimatedHeight, filter,
                     txHeight, rescans, restarts>>
  BY DEF SaveBlocks
<1>2. \A q \in Peers : thread'[q].saving \in {{}, thread[q].saving}
  BY <1>1 DEF Places, Threads
<1>3. RowsApart'
  BY <1>1, <1>2 DEF TreeInv, RowsApart, OneRowEach
<1> QED
  BY <1>1, <1>3 DEF TreeInv, Stored, OneOrphanEach, Scalars

\* Rescan: the checkpoint becomes the tip only if it is stored.
LEMMA RescanTree ==
    ASSUME Places, TreeInv, Rescan
    PROVE  TreeInv'
<1>1. /\ UNCHANGED <<blocks, bare, freed, orphans, estimatedHeight, filter, thread,
                     txHeight, saved, broken, restarts>>
      /\ rescans' = rescans + 1 /\ rescans < MaxRescans
      /\ lastBlock' \in {lastBlock, Start} /\ (lastBlock' = lastBlock \/ Start \in blocks)
  BY DEF Rescan, RescanFrom
<1>2. Stored'
  BY <1>1 DEF TreeInv, Stored
<1>3. Scalars'
  BY <1>1, BoundAssumption DEF TreeInv, Scalars
<1> QED
  BY <1>1, <1>2, <1>3 DEF TreeInv, OneOrphanEach, RowsApart

\* Restart: the orphans are rows of one chain, with one child for each block.
LEMMA RestartTree ==
    ASSUME Places, TreeInv, Restart
    PROVE  TreeInv'
<1> DEFINE top == TopRow(saved)
<1>1. /\ lastBlock' = top
      /\ blocks' = Checkpoints \cup {top}
      /\ bare' = IF saved = {} THEN Checkpoints ELSE Checkpoints \ {top}
      /\ freed' = {}
      /\ orphans' = saved \ {top}
      /\ estimatedHeight' = 0 /\ filter' = FALSE /\ broken' = "no"
      /\ thread' = [p \in Peers |-> Idle]
      /\ UNCHANGED <<txHeight, saved, rescans>>
      /\ restarts' = restarts + 1 /\ restarts < MaxRestarts
  BY DEF Restart
<1> HIDE DEF top
<1>2. Stored'
  BY <1>1 DEF Stored
<1>3. OneOrphanEach'
  BY <1>1 DEF TreeInv, RowsApart, OneRowEach, OneOrphanEach
<1>4. RowsApart'
  BY <1>1, NoRows DEF TreeInv, RowsApart, Idle
<1>5. Scalars'
  <2>1. filter' \in BOOLEAN /\ broken' = "no"
    BY <1>1
  <2>2. /\ estimatedHeight' \in Nat /\ rescans' \in 0 .. MaxRescans /\ restarts' \in 0 .. MaxRestarts
        /\ txHeight' \in [Txs -> Heights \cup {Unconfirmed}]
    BY <1>1, BoundAssumption DEF TreeInv, Scalars
  <2> QED
    BY <2>1, <2>2 DEF Scalars
<1> QED
  BY <1>2, <1>3, <1>4, <1>5 DEF TreeInv

\* Every step keeps the types and the shape of the rows.
LEMMA StepTree == Places /\ TreeInv /\ [Next]_vars => TreeInv'
<1> SUFFICES ASSUME Places, TreeInv, [Next]_vars PROVE TreeInv'
  OBVIOUS
<1>1. ASSUME NEW p \in Peers, NEW b \in Relayed, Relay(p, b) PROVE TreeInv'
  <2>1. CASE Ignore(p, b)
    BY <2>1, NextIsNoneTree DEF Ignore, TreeInv, OneOrphanEach
  <2>2. CASE AddOrphan(p, b)
    BY <2>2, NextIsNoneTree, OneOrphanAdded DEF AddOrphan, TreeInv
  <2>3. CASE Extend(p, b)
    BY <2>3, ExtendTree
  <2>4. CASE Replace(p, b)
    BY <2>4, ReplaceTree
  <2>5. CASE AddAhead(p, b)
    BY <2>5, AddAheadTree
  <2>6. CASE AddFork(p, b)
    BY <2>6, AddForkTree
  <2>7. CASE Reorganise(p, b)
    BY <2>7, ReorganiseTree
  <2> QED
    BY <1>1, <2>1, <2>2, <2>3, <2>4, <2>5, <2>6, <2>7 DEF Relay
<1>2. ASSUME NEW p \in Peers, SaveBlocks(p) PROVE TreeInv'
  BY <1>2, SaveBlocksTree
<1>3. ASSUME LoadFilter, estimatedHeight' \in Nat PROVE TreeInv'
  BY <1>3 DEF LoadFilter, TreeInv, Stored, OneOrphanEach, RowsApart, Scalars
<1>4. ASSUME NEW h \in PeerHeights, PeerConnected(h) PROVE TreeInv'
  BY <1>3, <1>4, BoundAssumption DEF PeerConnected, TreeInv, Scalars
<1>5. ASSUME UpdateFilter PROVE TreeInv'
  <2>1. CASE LoadFilter
    BY <2>1, <1>3, <1>5 DEF UpdateFilter, TreeInv, Scalars
  <2>2. CASE /\ filter' = FALSE
             /\ UNCHANGED <<blocks, bare, freed, orphans, lastBlock, thread, txHeight, saved,
                            broken, rescans, restarts>>
             /\ UNCHANGED estimatedHeight
    BY <2>2 DEF TreeInv, Stored, OneOrphanEach, RowsApart, Scalars
  <2> QED
    BY <1>5, <2>1, <2>2 DEF UpdateFilter
<1>6. ASSUME Rescan PROVE TreeInv'
  BY <1>6, RescanTree
<1>7. ASSUME Restart PROVE TreeInv'
  BY <1>7, RestartTree
<1>8. ASSUME UNCHANGED vars PROVE TreeInv'
  BY <1>8 DEF vars, TreeInv, Stored, OneOrphanEach, RowsApart, Scalars
<1> QED
  BY <1>1, <1>2, <1>4, <1>5, <1>6, <1>7, <1>8 DEF Next

\* What is stored, waits and is saved has its shape always.
THEOREM TreeInvAlways == Spec => []TreeInv
<1>1. IInv => Places
  BY DEF IInv
<1> QED
  BY <1>1, IInvAlways, TreeInitially, StepTree, PTL DEF Spec

\* The type invariant: the tip is stored, one orphan waits for each prevBlock.
THEOREM ChainTyped == Spec => []TypeOK
<1>1. Places /\ TreeInv => TypeOK
  BY DEF Places, TreeInv, Stored, OneOrphanEach, Scalars, TypeOK
<1>2. IInv => Places
  BY DEF IInv
<1> QED
  BY <1>1, <1>2, IInvAlways, TreeInvAlways, PTL

-----------------------------------------------------------------------------
(* Orphans *)

\* An orphan that is left did not wait for the block that was handled.
LEMMA WaitsForAnother ==
    ASSUME NEW p, NEW b, NEW waits, NEW rows, NEW gone, Continue(p, b, waits, rows, gone)
    PROVE  \A x \in orphans' : x \in waits /\ Prev[x] # b
  BY DEF Continue

\* What a new block at the height of a waiting checkpoint is.
LEMMA CheckpointVerified ==
    ASSUME Places, Stored, NEW b \in Blocks, MayVerify(b), NEW c \in bare,
           Height[c] = Height[b]
    PROVE  c = b
<1>1. CASE Verified(b)
  BY <1>1 DEF Verified, Places
<1>2. CASE \E f \in freed : Height[f] = Height[b]
  BY <1>2, CheckpointAssumption DEF Stored, Places
<1> QED
  BY <1>1, <1>2 DEF MayVerify

\* Extend: what waits for a stored block waits for a checkpoint above the tip,
\* and the new tip is no other block of that height.
LEMMA ExtendDetached ==
    ASSUME IInv, Stored, OrphansDetached, NEW p \in Peers, NEW b \in Relayed, Extend(p, b)
    PROVE  OrphansDetached'
<1> DEFINE gone == Tail(b, blocks \cup {b}, bare \ {b})
<1>1. /\ b \in Blocks /\ lastBlock' = b /\ Prev[b] = lastBlock /\ lastBlock \in Blocks
      /\ MayVerify(b)
      /\ blocks' = (blocks \cup {b}) \ gone
      /\ UNCHANGED <<filter, broken, rescans>>
  BY DEF Extend, Linked, Relayed, IInv, Places
<1>2. \A x \in orphans' : x \in orphans /\ Prev[x] # b
  BY WaitsForAnother DEF Extend
<1>3. Height[b] = Height[lastBlock] + 1 /\ Height[lastBlock] \in Nat
  BY <1>1, ChildHeight
<1> HIDE DEF gone
<1> SUFFICES ASSUME Running, filter, rescans = 0, NEW x \in orphans', Prev[x] \in blocks'
             PROVE  Height[Prev[x]] > Height[b]
  BY <1>1 DEF OrphansDetached, Running
<1> DEFINE f == Prev[x]
<1>4. f \in blocks /\ f # b /\ Height[f] > Height[lastBlock]
  BY <1>1, <1>2 DEF OrphansDetached
<1> HIDE DEF f
<1>5. Height[f] \in Nat
  BY <1>4, BlockAssumption DEF IInv, Places
<1>6. f \in bare
  BY <1>3, <1>4, <1>5 DEF IInv, HighestTip
<1>7. Height[f] # Height[b]
  BY <1>1, <1>4, <1>6, CheckpointVerified DEF IInv
<1> QED
  BY <1>3, <1>4, <1>5, <1>7 DEF f

\* AddAhead: the block that waits is more than one above the tip.
LEMMA AddAheadDetached ==
    ASSUME IInv, OrphansDetached, NEW p \in Peers, NEW b \in Relayed, AddAhead(p, b)
    PROVE  OrphansDetached'
<1>1. /\ b \in Blocks /\ lastBlock \in Blocks /\ Prev[b] \in blocks /\ blocks \subseteq Blocks
      /\ Height[b] > Height[lastBlock] + 1
      /\ UNCHANGED <<blocks, lastBlock, filter, broken, rescans>>
  BY DEF AddAhead, Linked, MaybeAhead, Relayed, IInv, Places
<1>2. \A x \in orphans' : x \in orphans \/ x = b
  BY WaitsForAnother DEF AddAhead, WithOrphan
<1>3. Height[Prev[b]] > Height[lastBlock]
  <2>1. Height[b] = Height[Prev[b]] + 1 /\ Height[Prev[b]] \in Nat /\ Height[lastBlock] \in Nat
    BY <1>1, ChildHeight, BlockAssumption
  <2> QED
    BY <1>1, <2>1
<1> QED
  BY <1>1, <1>2, <1>3 DEF OrphansDetached, Running

\* A longer fork does not grow from a checkpoint above the tip: there is no
\* block where it would join the main chain.
LEMMA NoJoin ==
    ASSUME Places, Stored, NEW b \in Blocks, b \notin blocks, Prev[b] \in bare,
           Height[Prev[b]] > Height[lastBlock]
    PROVE  Join(b, lastBlock, blocks \cup {b}, bare)[1] = None
<1> DEFINE stored == blocks \cup {b}
           c == Prev[b]
           tip == lastBlock
<1>1. /\ c \in Blocks /\ c \in stored /\ tip \in Blocks /\ c # None /\ tip # None /\ b # None
      /\ b # tip /\ c # tip /\ b \notin bare /\ c \in bare /\ stored \in SUBSET Blocks
      /\ Height[c] > Height[tip] /\ Height[c] \in Nat /\ Height[tip] \in Nat
  BY BlockAssumption DEF Places, Stored
<1>2. Back(b, stored, bare) = c /\ Back(c, stored, bare) = None
  BY <1>1 DEF Back
<1> HIDE DEF stored, c, tip
<1>3. StepBack(<<b, tip>>, stored, bare) = <<c, tip>> /\ ~Stops(<<b, tip>>)
  BY <1>1, <1>2 DEF StepBack, Stops
<1>4. StepBack(<<c, tip>>, stored, bare) = <<None, tip>> /\ ~Stops(<<c, tip>>)
  BY <1>1, <1>2 DEF StepBack, Stops
<1>5. Stops(<<None, tip>>)
  BY DEF Stops
<1>6. Join(b, tip, stored, bare) = Join(c, tip, stored, bare)
  BY <1>1, <1>3, JoinUnfolds
<1>7. Join(c, tip, stored, bare) = Join(None, tip, stored, bare)
  BY <1>1, <1>4, JoinUnfolds
<1>8. Join(None, tip, stored, bare) = <<None, tip>>
  BY <1>1, <1>5, JoinUnfolds
<1> QED
  BY <1>6, <1>7, <1>8 DEF stored, tip

\* Reorganise: the new tip is above every checkpoint; it would have to grow from
\* one that is above the old tip.
LEMMA ReorganiseDetached ==
    ASSUME IInv, Stored, OrphansDetached, NEW p \in Peers, NEW b \in Relayed, Reorganise(p, b)
    PROVE  OrphansDetached'
<1>1. /\ b \in Blocks /\ lastBlock \in Blocks /\ blocks \subseteq Blocks
      /\ lastBlock' = b /\ blocks' = blocks \cup {b}
      /\ Prev[b] \in blocks /\ b \notin blocks
      /\ \A c \in Checkpoints : Height[b] > Height[c]
      /\ Height[b] > Height[lastBlock]
      /\ UNCHANGED <<filter, rescans>>
  BY DEF Reorganise, OnFork, Linked, Longer, Relayed, IInv, Places
<1>2. /\ Join(b, lastBlock, blocks \cup {b}, bare)[1] = None => broken' = "null"
      /\ broken' \in {"null", broken}
  BY DEF Reorganise
<1>3. \A x \in orphans' : x \in orphans /\ Prev[x] # b
  BY WaitsForAnother DEF Reorganise
<1>4. /\ Height[b] = Height[Prev[b]] + 1
      /\ Height[Prev[b]] \in Nat /\ Height[lastBlock] \in Nat
  BY <1>1, ChildHeight, BlockAssumption
<1> SUFFICES ASSUME Running', filter, rescans = 0, NEW x \in orphans', Prev[x] \in blocks'
             PROVE  FALSE
  BY <1>1 DEF OrphansDetached
<1> DEFINE f == Prev[x]
<1>5. Running
  BY <1>2 DEF Running
<1>6. f \in blocks /\ Height[f] > Height[lastBlock]
  BY <1>1, <1>3, <1>5 DEF OrphansDetached
<1> HIDE DEF f
<1>7. f \in bare /\ f \in Checkpoints /\ Height[f] \in Nat
  BY <1>1, <1>4, <1>6, BlockAssumption DEF IInv, Places, HighestTip
<1>8. Height[Prev[b]] > Height[lastBlock]
  BY <1>1, <1>4, <1>6, <1>7
<1>9. Prev[b] \in bare
  BY <1>1, <1>4, <1>8 DEF IInv, HighestTip
<1>10. broken' = "null"
  BY <1>1, <1>2, <1>8, <1>9, NoJoin DEF IInv
<1> QED
  BY <1>10 DEF Running

\* The other steps leave orphans, blocks and tip alone, or take from them.
LEMMA FewerDetached ==
    ASSUME OrphansDetached, filter' => filter, orphans' \subseteq orphans,
           UNCHANGED <<blocks, lastBlock, rescans>>, Running' => Running
    PROVE  OrphansDetached'
  BY DEF OrphansDetached

\* Every step keeps that orphans wait for what is not reached.
LEMMA StepDetached == IInv /\ Stored /\ OrphansDetached /\ [Next]_vars => OrphansDetached'
<1> SUFFICES ASSUME IInv, Stored, OrphansDetached, [Next]_vars PROVE OrphansDetached'
  OBVIOUS
<1>1. ASSUME NEW p \in Peers, NEW b \in Relayed, Relay(p, b) PROVE OrphansDetached'
  <2>1. CASE Ignore(p, b)
    BY <2>1, FewerDetached DEF Ignore, Running
  <2>2. CASE AddOrphan(p, b)
    BY <2>2 DEF AddOrphan, WithOrphan, OrphansDetached, Running
  <2>3. CASE Extend(p, b)
    BY <2>3, ExtendDetached
  <2>4. CASE Replace(p, b)
    <3>1. \A x \in orphans' : x \in orphans
      BY <2>4, WaitsForAnother DEF Replace
    <3>2. UNCHANGED <<blocks, lastBlock, filter, rescans>> /\ broken' \in {"null", broken}
      BY <2>4 DEF Replace
    <3> QED
      BY <3>1, <3>2, FewerDetached DEF Running
  <2>5. CASE AddAhead(p, b)
    BY <2>5, AddAheadDetached
  <2>6. CASE AddFork(p, b)
    <3>1. \A x \in orphans' : x \in orphans /\ Prev[x] # b
      BY <2>6, WaitsForAnother DEF AddFork
    <3>2. UNCHANGED <<lastBlock, filter, rescans, broken>> /\ blocks' = blocks \cup {b}
      BY <2>6 DEF AddFork
    <3> QED
      BY <3>1, <3>2 DEF OrphansDetached, Running
  <2>7. CASE Reorganise(p, b)
    BY <2>7, ReorganiseDetached
  <2> QED
    BY <1>1, <2>1, <2>2, <2>3, <2>4, <2>5, <2>6, <2>7 DEF Relay
<1>2. ASSUME NEW p \in Peers, SaveBlocks(p) PROVE OrphansDetached'
  BY <1>2, FewerDetached DEF SaveBlocks, Running
<1>3. ASSUME LoadFilter PROVE OrphansDetached'
  BY <1>3 DEF LoadFilter, OrphansDetached
<1>4. ASSUME NEW h \in PeerHeights, PeerConnected(h) PROVE OrphansDetached'
  BY <1>3, <1>4 DEF PeerConnected
<1>5. ASSUME UpdateFilter PROVE OrphansDetached'
  BY <1>3, <1>5 DEF UpdateFilter, OrphansDetached
<1>6. ASSUME Rescan PROVE OrphansDetached'
  BY <1>6 DEF Rescan, IInv, Places, OrphansDetached
<1>7. ASSUME Restart PROVE OrphansDetached'
  BY <1>7 DEF Restart, OrphansDetached
<1>8. ASSUME UNCHANGED vars PROVE OrphansDetached'
  BY <1>8 DEF vars, OrphansDetached, Running
<1> QED
  BY <1>1, <1>2, <1>4, <1>5, <1>6, <1>7, <1>8 DEF Next

\* No orphan is forgotten once the chain has reached its parent, until a rescan.
THEOREM OrphansDetachedAlways == Spec => []OrphansDetached
<1>1. Init => OrphansDetached
  BY DEF Init, OrphansDetached
<1>2. TreeInv => Stored
  BY DEF TreeInv
<1> QED
  BY <1>1, <1>2, StepDetached, IInvAlways, TreeInvAlways, PTL DEF Spec

-----------------------------------------------------------------------------
(* The heights of the wallet's transactions *)

\* Every reorganisation finds, in memory, the block where the branches join.
Meets(b) ==
    LET join == Join(b, lastBlock, blocks \cup {b}, bare)
    IN  join[1] # None /\ join[2] # None

JoinsMeet == [][\A p \in Peers, b \in Relayed : Reorganise(p, b) => Meets(b)]_vars

\* The line of a block is that of the block before it and the block.
LEMMA LineUnfolds ==
    ASSUME NEW b \in Blocks
    PROVE  Line(b) = {b} \cup (IF Prev[b] = None THEN {} ELSE Line(Prev[b]))
<1>1. Back(b, Blocks, {}) = Prev[b]
  BY BlockAssumption DEF Back
<1> QED
  BY <1>1, ChainUnfolds DEF Line

\* A line is a chain.
LEMMA LineIsChain ==
    ASSUME NEW b \in Blocks
    PROVE  IsChain(Line(b), b, Blocks)
  BY WalkIsChain DEF Line

\* The walk back stays on the line.
WalkOnLine(b, stored, bareOnes) == ChainOf(b, stored, bareOnes) \subseteq Line(b)

\* Whatever is stored, a walk back stays on the line.
LEMMA WalkStaysOnLine ==
    ASSUME NEW stored \in SUBSET Blocks, NEW bareOnes, NEW b \in Blocks
    PROVE  WalkOnLine(b, stored, bareOnes)
<1> DEFINE bad == {x \in Blocks : ~WalkOnLine(x, stored, bareOnes)}
<1>1. ASSUME NEW x \in Blocks, \A y \in bad : ~(Height[y] < Height[x])
      PROVE  WalkOnLine(x, stored, bareOnes)
  <2> DEFINE q == Back(x, stored, bareOnes)
  <2>1. ChainOf(x, stored, bareOnes) = {x} \cup (IF q = None THEN {} ELSE ChainOf(q, stored, bareOnes))
    BY ChainUnfolds
  <2>2. x \in Line(x)
    BY LineIsChain DEF IsChain
  <2>3. CASE q = None
    BY <2>1, <2>2, <2>3 DEF WalkOnLine
  <2>4. CASE q # None
    <3>1. q = Prev[x] /\ q \in Blocks /\ Height[x] = Height[q] + 1 /\ Height[q] \in Nat
      BY <2>4, BackIsBlock, BlockAssumption
    <3>2. WalkOnLine(q, stored, bareOnes)
      BY <1>1, <3>1
    <3>3. Line(q) \subseteq Line(x)
      BY <3>1, LineUnfolds, BlockAssumption
    <3> HIDE DEF q
    <3> QED
      BY <2>1, <2>2, <2>4, <3>2, <3>3 DEF WalkOnLine
  <2> QED
    BY <2>3, <2>4
<1>2. bad \in SUBSET Blocks /\ \A x \in bad : \E y \in bad : Height[y] < Height[x]
  BY <1>1
<1>3. bad = {}
  <2> HIDE DEF bad
  <2> QED
    BY <1>2, NoneIsLowest
<1> QED
  BY <1>3

\* Below one of its blocks a line is that block's line.
LineSplits(b) ==
    \A j \in Line(b) :
        /\ Line(j) \subseteq Line(b)
        /\ \A x \in Line(b) : Height[x] <= Height[j] => x \in Line(j)

\* Every line splits so at each of its blocks.
LEMMA LineSplitsAtBlock ==
    ASSUME NEW b \in Blocks
    PROVE  LineSplits(b)
<1> DEFINE bad == {x \in Blocks : ~LineSplits(x)}
<1>1. ASSUME NEW x \in Blocks, \A y \in bad : ~(Height[y] < Height[x])
      PROVE  LineSplits(x)
  <2>1. Line(x) = {x} \cup (IF Prev[x] = None THEN {} ELSE Line(Prev[x]))
    BY LineUnfolds
  <2>2. CASE Prev[x] = None
    BY <2>1, <2>2 DEF LineSplits
  <2>3. CASE Prev[x] # None
    <3> DEFINE q == Prev[x]
    <3>1. q \in Blocks /\ Height[x] = Height[q] + 1 /\ Height[q] \in Nat
      BY <2>3, BlockAssumption
    <3>2. LineSplits(q)
      BY <1>1, <3>1
    <3>3. Line(x) = {x} \cup Line(q)
      BY <2>1, <2>3
    <3>4. \A y \in Line(q) : Height[y] < Height[x]
      <4>1. \A y \in Line(q) : y = q \/ Height[y] < Height[q]
        BY <3>1, LineIsChain DEF IsChain
      <4>2. \A y \in Line(q) : Height[y] \in Nat
        BY <3>1, LineIsChain, BlockAssumption DEF IsChain
      <4> HIDE DEF q
      <4> QED
        BY <3>1, <4>1, <4>2
    <3> HIDE DEF q
    <3>5. ASSUME NEW j \in Line(x)
          PROVE  /\ Line(j) \subseteq Line(x)
                 /\ \A y \in Line(x) : Height[y] <= Height[j] => y \in Line(j)
      <4>1. CASE j = x
        BY <4>1
      <4>2. CASE j # x
        <5>1. j \in Line(q) /\ Line(j) \subseteq Line(x)
          BY <4>2, <3>2, <3>3 DEF LineSplits
        <5>2. Height[j] < Height[x] /\ Height[j] \in Nat /\ Height[x] \in Nat
          BY <5>1, <3>1, <3>4, LineIsChain, BlockAssumption DEF IsChain
        <5>3. ~(Height[x] <= Height[j])
          BY <5>2
        <5> QED
          BY <5>1, <5>3, <3>2, <3>3 DEF LineSplits
      <4> QED
        BY <4>1, <4>2
    <3> QED
      BY <3>5 DEF LineSplits
  <2> QED
    BY <2>2, <2>3
<1>2. bad \in SUBSET Blocks /\ \A x \in bad : \E y \in bad : Height[y] < Height[x]
  BY <1>1
<1>3. bad = {}
  <2> HIDE DEF bad
  <2> QED
    BY <1>2, NoneIsLowest
<1> QED
  BY <1>3

\* The walk back from b meets every block of the line that is not below a
\* block it meets.
WalkIsWhole(b, stored, bareOnes) ==
    \A j \in ChainOf(b, stored, bareOnes), x \in Line(b) :
        Height[x] >= Height[j] => x \in ChainOf(b, stored, bareOnes)

\* A walk back leaves no block of the line out.
LEMMA WalkLeavesNoneOut ==
    ASSUME NEW stored \in SUBSET Blocks, NEW bareOnes, NEW b \in Blocks
    PROVE  WalkIsWhole(b, stored, bareOnes)
<1> DEFINE bad == {x \in Blocks : ~WalkIsWhole(x, stored, bareOnes)}
<1>1. ASSUME NEW x \in Blocks, \A y \in bad : ~(Height[y] < Height[x])
      PROVE  WalkIsWhole(x, stored, bareOnes)
  <2> DEFINE q == Back(x, stored, bareOnes)
             chain == ChainOf(x, stored, bareOnes)
  <2>1. chain = {x} \cup (IF q = None THEN {} ELSE ChainOf(q, stored, bareOnes))
    BY ChainUnfolds
  <2>2. /\ \A y \in Line(x) : Height[y] \in Nat /\ (y = x \/ Height[y] < Height[x])
        /\ Height[x] \in Nat
    BY LineIsChain, BlockAssumption DEF IsChain
  <2>3. CASE q = None
    <3>1. chain = {x}
      BY <2>1, <2>3
    <3>2. \A y \in Line(x) : Height[y] >= Height[x] => y = x
      BY <2>2
    <3> QED
      BY <3>1, <3>2 DEF WalkIsWhole
  <2>4. CASE q # None
    <3>1. q = Prev[x] /\ q \in Blocks /\ Height[x] = Height[q] + 1 /\ Height[q] \in Nat
      BY <2>4, BackIsBlock, BlockAssumption
    <3>2. WalkIsWhole(q, stored, bareOnes)
      BY <1>1, <3>1
    <3>3. Line(x) = {x} \cup Line(q)
      BY <3>1, LineUnfolds, BlockAssumption
    <3>4. chain = {x} \cup ChainOf(q, stored, bareOnes)
      BY <2>1, <2>4
    <3>5. q \in ChainOf(q, stored, bareOnes)
      BY <3>1, WalkIsChain DEF IsChain
    <3> HIDE DEF q, chain
    <3>6. ASSUME NEW j \in chain, NEW y \in Line(x), Height[y] >= Height[j]
          PROVE  y \in chain
      <4>1. CASE y = x
        BY <4>1, <3>4
      <4>2. CASE y # x
        <5>1. y \in Line(q) /\ Height[y] < Height[x]
          BY <4>2, <2>2, <3>3
        <5>2. j # x
          BY <5>1, <2>2, <3>6
        <5>3. j \in ChainOf(q, stored, bareOnes)
          BY <5>2, <3>4
        <5> QED
          BY <5>1, <5>3, <3>2, <3>4, <3>6 DEF WalkIsWhole
      <4> QED
        BY <4>1, <4>2
    <3> QED
      BY <3>6 DEF WalkIsWhole, chain
  <2> QED
    BY <2>3, <2>4
<1>2. bad \in SUBSET Blocks /\ \A x \in bad : \E y \in bad : Height[y] < Height[x]
  BY <1>1
<1>3. bad = {}
  <2> HIDE DEF bad
  <2> QED
    BY <1>2, NoneIsLowest
<1> QED
  BY <1>3

\* Where the two walks stop is on both chains, or one of them ran out.
JoinOnChains(x, y, stored, bareOnes) ==
    LET join == Join(x, y, stored, bareOnes)
    IN  /\ Stops(join)
        /\ join[1] \in ChainOf(x, stored, bareOnes) \cup {None}
        /\ join[2] \in ChainOf(y, stored, bareOnes) \cup {None}

\* The two walks stop so, by the height of the block the first one is at.
LEMMA JoinIsOnChains ==
    ASSUME NEW stored \in SUBSET Blocks, NEW bareOnes, NEW b \in Blocks, NEW tip \in Blocks
    PROVE  JoinOnChains(b, tip, stored, bareOnes)
<1> DEFINE chain(x) == ChainOf(x, stored, bareOnes)
           back(x) == Back(x, stored, bareOnes)
           bad == {x \in Blocks : \E y \in Blocks : ~JoinOnChains(x, y, stored, bareOnes)}
<1>b. \A x \in Blocks : x \in chain(x)
  BY WalkIsChain DEF IsChain
<1>a. ASSUME NEW x \in Blocks, back(x) # None
       PROVE  back(x) \in Blocks /\ chain(back(x)) \subseteq chain(x) /\ Height[back(x)] < Height[x]
  <2>1. back(x) = Prev[x] /\ Prev[x] \in Blocks /\ Height[x] = Height[Prev[x]] + 1
    BY <1>a, BackIsBlock
  <2>2. Height[Prev[x]] \in Nat
    BY <2>1, BlockAssumption
  <2>3. Height[back(x)] < Height[x]
    <3> HIDE DEF back
    <3> QED BY <2>1, <2>2
  <2> QED
    BY <1>a, <2>1, <2>3, ChainUnfolds
<1>1. ASSUME NEW x \in Blocks, NEW y \in Blocks, \A z \in bad : ~(Height[z] < Height[x])
      PROVE  JoinOnChains(x, y, stored, bareOnes)
  <2> DEFINE at == <<x, y>>
             next == StepBack(at, stored, bareOnes)
  <2>1. Join(x, y, stored, bareOnes) =
            IF Stops(at) THEN at ELSE Join(next[1], next[2], stored, bareOnes)
    BY JoinUnfolds
  <2>2. CASE Stops(at)
    BY <2>1, <2>2, <1>b DEF JoinOnChains
  <2>3. CASE ~Stops(at)
    <3>1. next[1] = back(x) /\ next[2] \in {y, back(y)}
      BY DEF StepBack
    <3>2. Join(x, y, stored, bareOnes) = Join(next[1], next[2], stored, bareOnes)
      BY <2>1, <2>3
    <3> DEFINE x2 == next[1]
               y2 == next[2]
    <3>3. /\ x2 \in Blocks \cup {None} /\ (x2 # None => chain(x2) \subseteq chain(x))
          /\ y2 \in Blocks \cup {None} /\ (y2 # None => chain(y2) \subseteq chain(y))
      BY <3>1, <1>a
    <3>4. CASE x2 # None /\ y2 # None
      <4>1. Height[x2] < Height[x]
        <5>1. x2 = back(x) /\ back(x) # None
          BY <3>1, <3>4
        <5>2. Height[back(x)] < Height[x]
          <6> HIDE DEF back, x2
          <6> QED BY <5>1, <1>a
        <5> HIDE DEF x2, back
        <5> QED BY <5>1, <5>2
      <4> HIDE DEF x2, y2
      <4>2. JoinOnChains(x2, y2, stored, bareOnes)
        BY <4>1, <3>3, <3>4, <1>1
      <4> HIDE DEF chain
      <4>3. Join(x, y, stored, bareOnes) = Join(x2, y2, stored, bareOnes)
        BY <3>2 DEF x2, y2
      <4> USE DEF chain
      <4> QED
        BY <4>2, <4>3, <3>3, <3>4 DEF JoinOnChains
    <3>5. CASE x2 = None \/ y2 = None
      <4> HIDE DEF x2, y2
      <4>1. Stops(<<x2, y2>>)
        BY <3>5 DEF Stops
      <4>2. Join(x2, y2, stored, bareOnes) = <<x2, y2>>
        BY <4>1, <3>3, JoinUnfolds
      <4>3. Join(x, y, stored, bareOnes) = <<x2, y2>>
        BY <4>2, <3>2 DEF x2, y2
      <4>4. x2 \in chain(x) \cup {None} /\ y2 \in chain(y) \cup {None}
        BY <3>3, <1>b
      <4> QED
        BY <4>1, <4>3, <4>4 DEF JoinOnChains
    <3> QED
      BY <3>4, <3>5
  <2> QED
    BY <2>2, <2>3
<1>2. bad \in SUBSET Blocks /\ \A x \in bad : \E y \in bad : Height[y] < Height[x]
  BY <1>1
<1>3. bad = {}
  <2> HIDE DEF bad
  <2> QED
    BY <1>2, NoneIsLowest
<1> QED
  BY <1>3

\* A transaction has the height of the one block of the line that holds it.
LEMMA HeightOfHolder ==
    ASSUME NEW b \in Blocks, NEW t, NEW x \in Line(b), t \in Matched[x]
    PROVE  HeightOn(t, b) = Height[x]
<1> DEFINE holding == {y \in Line(b) : t \in Matched[y]}
<1>1. holding = {x}
  BY HolderAssumption
<1> QED
  BY <1>1 DEF HeightOn

\* A transaction that no block of the line holds is unconfirmed.
LEMMA HeightOfNone ==
    ASSUME NEW b \in Blocks, NEW t, \A x \in Line(b) : t \notin Matched[x]
    PROVE  HeightOn(t, b) = Unconfirmed
<1> DEFINE holding == {y \in Line(b) : t \in Matched[y]}
<1>1. holding = {}
  OBVIOUS
<1> QED
  BY <1>1 DEF HeightOn

\* A line with one block more.
LEMMA HeightOnChild ==
    ASSUME NEW b \in Blocks, Prev[b] \in Blocks, NEW t
    PROVE  HeightOn(t, b) = IF t \in Matched[b] THEN Height[b] ELSE HeightOn(t, Prev[b])
<1>1. Line(b) = {b} \cup Line(Prev[b])
  BY LineUnfolds, BlockAssumption
<1>2. CASE t \in Matched[b]
  BY <1>1, <1>2, HeightOfHolder
<1>3. CASE t \notin Matched[b]
  <2> DEFINE holding(x) == {y \in Line(x) : t \in Matched[y]}
  <2>1. holding(b) = holding(Prev[b])
    BY <1>1, <1>3
  <2>2. \A x : HeightOn(t, x) = IF holding(x) = {} THEN Unconfirmed
                               ELSE Height[CHOOSE y \in holding(x) : TRUE]
    BY DEF HeightOn
  <2> HIDE DEF holding
  <2> QED
    BY <1>3, <2>1, <2>2
<1> QED
  BY <1>2, <1>3

\* What a block of the main chain confirms is confirmed there.
LEMMA ConfirmAgain ==
    ASSUME NEW b \in Blocks, NEW x \in Line(b), NEW heights,
           \A t \in Txs : heights[t] = HeightOn(t, b)
    PROVE  \A t \in Txs : Confirm(heights, x)[t] = HeightOn(t, b)
  BY HeightOfHolder DEF Confirm

\* The heights of the new main chain, from those of the old one and the block
\* where the two join.
LEMMA RejoinedHeights ==
    ASSUME Places, NEW b \in Blocks, NEW stored \in SUBSET Blocks, NEW j,
           j \in ChainOf(b, stored, bare), j \in ChainOf(lastBlock, stored, bare),
           NEW t \in Txs, txHeight[t] = HeightOn(t, lastBlock)
    PROVE  Rejoined(b, j, j, stored)[t] = HeightOn(t, b)
<1> DEFINE tip == lastBlock
           chain == {c \in ChainOf(b, stored, bare) : Height[c] > Height[j]}
<1>1. /\ tip \in Blocks /\ j \in Line(b) /\ j \in Line(tip)
      /\ ChainOf(b, stored, bare) \subseteq Line(b)
  BY WalkStaysOnLine DEF WalkOnLine, Places
<1>2. j \in Blocks /\ j # None /\ \A x \in Line(b) \cup Line(tip) : x \in Blocks /\ Height[x] \in Nat
  BY <1>1, LineIsChain, BlockAssumption DEF IsChain
<1>3. chain = {x \in Line(b) : Height[x] > Height[j]}
  BY <1>1, <1>2, WalkLeavesNoneOut DEF WalkIsWhole
<1>4. Rejoined(b, j, j, stored)[t] =
            IF \E c \in chain : t \in Matched[c]
            THEN Height[CHOOSE c \in chain : t \in Matched[c]]
            ELSE IF txHeight[t] > Height[j] THEN Unconfirmed ELSE txHeight[t]
  BY <1>2 DEF Rejoined
<1>5. \A x \in Line(tip) \cup Line(b) : Height[x] <= Height[j] => x \in Line(j)
  BY <1>1, LineSplitsAtBlock DEF LineSplits
<1>6. Line(j) \subseteq Line(tip) /\ Line(j) \subseteq Line(b)
  BY <1>1, LineSplitsAtBlock DEF LineSplits
<1>7. \A x \in Line(j) : Height[x] <= Height[j] /\ Height[x] \in Nat /\ Height[j] \in Nat
  <2>1. \A x \in Line(j) : x = j \/ Height[x] < Height[j]
    BY <1>2, LineIsChain DEF IsChain
  <2>2. Height[j] \in Nat /\ \A x \in Line(j) : Height[x] \in Nat
    BY <1>1, <1>2, <1>6
  <2> QED
    BY <2>1, <2>2
<1> HIDE DEF chain, tip
<1>8. CASE \E c \in chain : t \in Matched[c]
  <2>1. PICK c \in chain : c = CHOOSE d \in chain : t \in Matched[d]
    BY <1>8
  <2>2. t \in Matched[c] /\ c \in Line(b)
    BY <1>8, <2>1, <1>3
  <2> QED
    BY <1>4, <1>8, <2>1, <2>2, HeightOfHolder
<1>9. CASE /\ ~\E c \in chain : t \in Matched[c]
           /\ \E x \in Line(j) : t \in Matched[x]
  <2>1. PICK x \in Line(j) : t \in Matched[x]
    BY <1>9
  <2>2. HeightOn(t, b) = Height[x] /\ txHeight[t] = Height[x]
    BY <1>1, <1>6, <2>1, HeightOfHolder DEF tip
  <2>3. ~(txHeight[t] > Height[j])
    BY <2>1, <2>2, <1>7
  <2> QED
    BY <1>4, <1>9, <2>2, <2>3
<1>10. CASE /\ ~\E c \in chain : t \in Matched[c]
            /\ ~\E x \in Line(j) : t \in Matched[x]
  <2>1. \A x \in Line(b) : t \notin Matched[x]
    <3> SUFFICES ASSUME NEW x \in Line(b), t \in Matched[x] PROVE FALSE
      OBVIOUS
    <3>1. Height[x] <= Height[j] \/ Height[x] > Height[j]
      BY <1>1, <1>2
    <3> QED
      BY <3>1, <1>3, <1>5, <1>10
  <2>2. HeightOn(t, b) = Unconfirmed
    BY <2>1, HeightOfNone
  <2>3. txHeight[t] > Height[j]
    <3>1. CASE \E x \in Line(tip) : t \in Matched[x]
      <4>1. PICK x \in Line(tip) : t \in Matched[x]
        BY <3>1
      <4>2. txHeight[t] = Height[x]
        BY <1>1, <4>1, HeightOfHolder DEF tip
      <4>3. ~(Height[x] <= Height[j])
        BY <1>5, <1>10, <4>1
      <4> QED
        BY <4>1, <4>2, <4>3, <1>2, BlockAssumption
    <3>2. CASE \A x \in Line(tip) : t \notin Matched[x]
      <4>1. txHeight[t] = Unconfirmed
        BY <1>1, <3>2, HeightOfNone DEF tip
      <4>2. Height[j] < Unconfirmed /\ Height[j] \in Nat
        BY <1>2, BlockAssumption, WalletAssumption DEF Heights
      <4> QED
        BY <4>1, <4>2, WalletAssumption
    <3> QED
      BY <3>1, <3>2
  <2> QED
    BY <1>4, <1>10, <2>2, <2>3
<1> QED
  BY <1>8, <1>9, <1>10

\* Reorganise.
LEMMA ReorganiseConfirms ==
    ASSUME Places, Stored, ConfirmedOnChain, NEW p \in Peers, NEW b \in Relayed,
           Reorganise(p, b), Meets(b)
    PROVE  ConfirmedOnChain'
<1> SUFFICES ASSUME rescans = 0, restarts = 0, NEW t \in Txs
             PROVE  txHeight'[t] = HeightOn(t, b)
  BY DEF Reorganise, ConfirmedOnChain
<1> DEFINE stored == blocks \cup {b}
           join == Join(b, lastBlock, stored, bare)
<1>1. b \in Blocks /\ lastBlock \in Blocks /\ stored \in SUBSET Blocks
  BY DEF Places, Relayed
<1>2. join[1] # None /\ join[2] # None
  BY DEF Meets
<1>3. txHeight' = Rejoined(b, join[1], join[2], stored)
  BY <1>2 DEF Reorganise
<1>4. JoinOnChains(b, lastBlock, stored, bare)
  <2> HIDE DEF stored
  <2> QED BY <1>1, JoinIsOnChains
<1> HIDE DEF stored
<1>5. /\ Stops(join)
      /\ join[1] \in ChainOf(b, stored, bare) /\ join[2] \in ChainOf(lastBlock, stored, bare)
  BY <1>2, <1>4 DEF JoinOnChains
<1> HIDE DEF join
<1>6. join[1] = join[2]
  BY <1>2, <1>5 DEF Stops
<1>7. txHeight[t] = HeightOn(t, lastBlock)
  BY DEF ConfirmedOnChain
<1>8. Rejoined(b, join[1], join[1], stored)[t] = HeightOn(t, b)
  BY <1>1, <1>5, <1>6, <1>7, RejoinedHeights
<1> QED
  BY <1>3, <1>6, <1>8

\* Every step keeps the heights.
LEMMA StepConfirms ==
    ASSUME Places, Stored, ConfirmedOnChain, [Next]_vars,
           [\A p \in Peers, b \in Relayed : Reorganise(p, b) => Meets(b)]_vars
    PROVE  ConfirmedOnChain'
<1>1. ASSUME NEW p \in Peers, NEW b \in Relayed, Relay(p, b) PROVE ConfirmedOnChain'
  <2>1. CASE Ignore(p, b)
    BY <2>1 DEF Ignore, ConfirmedOnChain
  <2>2. CASE AddOrphan(p, b)
    BY <2>2 DEF AddOrphan, ConfirmedOnChain
  <2>3. CASE Extend(p, b)
    <3>1. /\ b \in Blocks /\ Prev[b] = lastBlock /\ lastBlock \in Blocks
          /\ lastBlock' = b /\ txHeight' = Confirm(txHeight, b)
          /\ UNCHANGED <<rescans, restarts>>
      BY <2>3 DEF Extend, Relayed, Places
    <3>2. \A t \in Txs : HeightOn(t, b) = IF t \in Matched[b] THEN Height[b] ELSE HeightOn(t, lastBlock)
      BY <3>1, HeightOnChild
    <3> QED
      BY <3>1, <3>2 DEF ConfirmedOnChain, Confirm
  <2>4. CASE Replace(p, b)
    <3>1. UNCHANGED <<lastBlock, rescans, restarts>> /\ lastBlock \in Blocks
      BY <2>4 DEF Replace, Places
    <3>2. CASE txHeight' = txHeight
      BY <3>1, <3>2 DEF ConfirmedOnChain
    <3>3. CASE b \in MainChain /\ txHeight' = Confirm(txHeight, b)
      <4>1. b \in Line(lastBlock)
        BY <3>1, <3>3, WalkStaysOnLine DEF MainChain, WalkOnLine, Places
      <4> QED
        BY <3>1, <3>3, <4>1, ConfirmAgain DEF ConfirmedOnChain
    <3> QED
      BY <2>4, <3>2, <3>3 DEF Replace
  <2>5. CASE AddAhead(p, b)
    BY <2>5 DEF AddAhead, ConfirmedOnChain
  <2>6. CASE AddFork(p, b)
    BY <2>6 DEF AddFork, ConfirmedOnChain
  <2>7. CASE Reorganise(p, b)
    <3>1. lastBlock' # lastBlock
      BY <2>7 DEF Reorganise, OnFork, Stored
    <3>2. Meets(b)
      BY <2>7, <3>1 DEF vars
    <3> QED
      BY <2>7, <3>2, ReorganiseConfirms
  <2> QED
    BY <1>1, <2>1, <2>2, <2>3, <2>4, <2>5, <2>6, <2>7 DEF Relay
<1>2. ASSUME NEW p \in Peers, SaveBlocks(p) PROVE ConfirmedOnChain'
  BY <1>2 DEF SaveBlocks, ConfirmedOnChain
<1>3. ASSUME NEW h \in PeerHeights, PeerConnected(h) PROVE ConfirmedOnChain'
  BY <1>3 DEF PeerConnected, LoadFilter, ConfirmedOnChain
<1>4. ASSUME UpdateFilter PROVE ConfirmedOnChain'
  BY <1>4 DEF UpdateFilter, LoadFilter, ConfirmedOnChain
<1>5. ASSUME Rescan PROVE ConfirmedOnChain'
  BY <1>5 DEF Rescan, Places, ConfirmedOnChain
<1>6. ASSUME Restart PROVE ConfirmedOnChain'
  BY <1>6 DEF Restart, Places, ConfirmedOnChain
<1>7. ASSUME UNCHANGED vars PROVE ConfirmedOnChain'
  BY <1>7 DEF vars, ConfirmedOnChain
<1> QED
  BY <1>1, <1>2, <1>3, <1>4, <1>5, <1>6, <1>7 DEF Next

\* The first state: nothing of the wallet's is older than its first key.
LEMMA ConfirmedInitially == Init => ConfirmedOnChain
<1> SUFFICES ASSUME Init, NEW t \in Txs PROVE txHeight[t] = HeightOn(t, lastBlock)
  BY DEF ConfirmedOnChain
<1>1. lastBlock = Start /\ txHeight[t] = Unconfirmed /\ Start \in Blocks
  BY CheckpointAssumption DEF Init
<1> QED
  BY <1>1, HeightOfNone, HolderAssumption

\* If every reorganisation finds in memory the block where the branches join,
\* the wallet's transactions have the heights of the chain that leads to the tip.
THEOREM ConfirmedOnChainAlways == Spec /\ JoinsMeet => []ConfirmedOnChain
<1>1. Init => ConfirmedOnChain
  BY ConfirmedInitially
<1>2. IInv /\ TreeInv => Places /\ Stored
  BY DEF IInv, TreeInv
<1>3. []IInv /\ []TreeInv => [](Places /\ Stored)
  BY <1>2, PTL
<1> DEFINE A == \A p \in Peers, b \in Relayed : Reorganise(p, b) => Meets(b)
<1>4. Places /\ Stored /\ ConfirmedOnChain /\ [Next]_vars /\ [A]_vars => ConfirmedOnChain'
  BY StepConfirms
<1> HIDE DEF A
<1>5. Init /\ [][Next]_vars /\ [][A]_vars /\ [](Places /\ Stored) => []ConfirmedOnChain
  BY <1>1, <1>4, PTL
<1> QED
  BY <1>3, <1>5, IInvAlways, TreeInvAlways, PTL DEF Spec, JoinsMeet, A

-----------------------------------------------------------------------------
(* The block that every walk back reaches *)

\* A walk back that may use more blocks meets the same ones and others.
LEMMA ChainGrows ==
    ASSUME NEW S \in SUBSET Blocks, NEW B, NEW S2 \in SUBSET Blocks, NEW B2,
           S \subseteq S2, B2 \subseteq B, NEW b \in Blocks
    PROVE  ChainOf(b, S, B) \subseteq ChainOf(b, S2, B2)
<1> DEFINE Grows(x) == ChainOf(x, S, B) \subseteq ChainOf(x, S2, B2)
           bad == {x \in Blocks : ~Grows(x)}
<1>1. ASSUME NEW x \in Blocks, \A y \in bad : ~(Height[y] < Height[x])
      PROVE  Grows(x)
  <2>1. x \in ChainOf(x, S2, B2)
    BY WalkIsChain DEF IsChain
  <2>2. ChainOf(x, S, B) = {x} \cup (IF Back(x, S, B) = None THEN {} ELSE ChainOf(Back(x, S, B), S, B))
    BY ChainUnfolds
  <2>3. CASE Back(x, S, B) = None
    BY <2>1, <2>2, <2>3
  <2>4. CASE Back(x, S, B) # None
    <3> DEFINE q == Prev[x]
    <3>1. /\ Back(x, S, B) = q /\ q \in S /\ q \in Blocks /\ x \notin B
          /\ Height[x] = Height[q] + 1 /\ Height[q] \in Nat
      BY <2>4, BackIsBlock, BlockAssumption
    <3>2. Back(x, S2, B2) = q /\ q # None
      BY <3>1, BlockAssumption DEF Back
    <3>3. ChainOf(x, S2, B2) = {x} \cup ChainOf(q, S2, B2)
      BY <3>2, ChainUnfolds
    <3>4. Grows(q)
      <4> HIDE DEF q, Grows
      <4> QED BY <1>1, <3>1
    <3> QED
      BY <2>2, <2>4, <3>1, <3>3, <3>4
  <2> QED
    BY <2>3, <2>4
<1>2. bad \in SUBSET Blocks /\ \A x \in bad : \E y \in bad : Height[y] < Height[x]
  BY <1>1
<1>3. bad = {}
  <2> HIDE DEF bad
  <2> QED
    BY <1>2, NoneIsLowest
<1> QED
  BY <1>3

\* Below one of its blocks a walk is that block's walk.
ChainSplits(b, S, B) ==
    \A j \in ChainOf(b, S, B) :
        /\ ChainOf(j, S, B) \subseteq ChainOf(b, S, B)
        /\ \A x \in ChainOf(b, S, B) : Height[x] <= Height[j] => x \in ChainOf(j, S, B)

\* Every walk splits so at each of its blocks.
LEMMA ChainSplitsAtBlock ==
    ASSUME NEW S \in SUBSET Blocks, NEW B, NEW b \in Blocks
    PROVE  ChainSplits(b, S, B)
<1> DEFINE chain(x) == ChainOf(x, S, B)
           bad == {x \in Blocks : ~ChainSplits(x, S, B)}
<1>1. ASSUME NEW x \in Blocks, \A y \in bad : ~(Height[y] < Height[x])
      PROVE  ChainSplits(x, S, B)
  <2>1. chain(x) = {x} \cup (IF Back(x, S, B) = None THEN {} ELSE chain(Back(x, S, B)))
    BY ChainUnfolds
  <2>2. CASE Back(x, S, B) = None
    BY <2>1, <2>2 DEF ChainSplits
  <2>3. CASE Back(x, S, B) # None
    <3> DEFINE q == Back(x, S, B)
    <3>1. q \in Blocks /\ Height[x] = Height[q] + 1 /\ Height[q] \in Nat
      <4>1. q = Prev[x] /\ Prev[x] \in Blocks /\ Height[x] = Height[Prev[x]] + 1
        BY <2>3, BackIsBlock
      <4> HIDE DEF q
      <4> QED BY <4>1, BlockAssumption
    <3>2. ChainSplits(q, S, B)
      BY <1>1, <3>1
    <3>3. chain(x) = {x} \cup chain(q)
      BY <2>1, <2>3
    <3> HIDE DEF q, bad
    <3>4. \A y \in chain(q) : Height[y] \in Nat /\ (y = q \/ Height[y] < Height[q])
      BY <3>1, WalkIsChain, BlockAssumption DEF IsChain
    <3> HIDE DEF chain
    <3>5. \A y \in chain(q) : ~(Height[x] <= Height[y])
      BY <3>1, <3>4
    <3>6. /\ \A j \in chain(q) : chain(j) \subseteq chain(q)
          /\ \A j, y \in chain(q) : Height[y] <= Height[j] => y \in chain(j)
      BY <3>2 DEF ChainSplits, chain
    <3>7. ASSUME NEW j \in chain(x)
          PROVE  /\ chain(j) \subseteq chain(x)
                 /\ \A y \in chain(x) : Height[y] <= Height[j] => y \in chain(j)
      <4>1. CASE j = x
        BY <4>1
      <4>2. CASE j # x
        BY <4>2, <3>3, <3>5, <3>6
      <4> QED
        BY <4>1, <4>2
    <3> QED
      BY <3>7 DEF ChainSplits, chain
  <2> QED
    BY <2>2, <2>3
<1>2. bad \in SUBSET Blocks /\ \A x \in bad : \E y \in bad : Height[y] < Height[x]
  BY <1>1
<1>3. bad = {}
  <2> HIDE DEF bad
  <2> QED
    BY <1>2, NoneIsLowest
<1> QED
  BY <1>3

\* A walk back ends at one block only: it is in the walk of each block it meets.
LEMMA OneBottom ==
    ASSUME NEW S \in SUBSET Blocks, NEW B, NEW b \in Blocks,
           NEW r \in ChainOf(b, S, B), Back(r, S, B) = None, NEW x \in ChainOf(b, S, B)
    PROVE  /\ r \in ChainOf(x, S, B)
           /\ Back(x, S, B) = None => x = r
<1>1. r \in Blocks /\ x \in Blocks
  BY WalkIsChain DEF IsChain
<1>2. Height[r] \in Nat /\ Height[x] \in Nat
  BY <1>1, BlockAssumption
<1>3. ChainSplits(b, S, B)
  BY ChainSplitsAtBlock
<1>4. Height[r] <= Height[x] => r \in ChainOf(x, S, B)
  BY <1>3 DEF ChainSplits
<1>5. Height[x] <= Height[r] => x \in ChainOf(r, S, B)
  BY <1>3 DEF ChainSplits
<1>6. ChainOf(r, S, B) = {r}
  BY <1>1, ChainUnfolds
<1>7. r \in ChainOf(x, S, B)
  <2>1. CASE Height[r] <= Height[x]
    BY <2>1, <1>4
  <2>2. CASE Height[x] <= Height[r]
    BY <2>2, <1>5, <1>6
  <2> QED
    BY <2>1, <2>2, <1>2
<1>8. Back(x, S, B) = None => ChainOf(x, S, B) = {x}
  BY <1>1, ChainUnfolds
<1> QED
  BY <1>7, <1>8

\* The walk from the tip ends at r, and so do all the walks that have a first
\* step; a block that has none is r, has no children or is a checkpoint.
Rooted(S, B, tip, r) ==
    /\ r \in ChainOf(tip, S, B)
    /\ Back(r, S, B) = None
    /\ \A x \in S : Back(x, S, B) # None => r \in ChainOf(x, S, B)
    /\ \A x \in S \ B, y \in Blocks : Back(x, S, B) = None /\ x # r => Prev[y] # x

\* The walk from the parent of a block ends at r as well, unless the parent is
\* a checkpoint beside the main chain.
LEMMA ParentRooted ==
    ASSUME NEW S \in SUBSET Blocks, NEW B, NEW tip \in Blocks, NEW r, Rooted(S, B, tip, r),
           NEW b \in Blocks, Prev[b] \in S, Prev[b] \in B => Prev[b] \in ChainOf(tip, S, B)
    PROVE  r \in ChainOf(Prev[b], S, B)
<1> DEFINE p == Prev[b]
<1>1. p \in Blocks /\ p \in ChainOf(p, S, B)
  BY WalkIsChain DEF IsChain
<1>2. CASE Back(p, S, B) # None
  BY <1>2 DEF Rooted
<1>3. CASE Back(p, S, B) = None /\ p \notin B
  BY <1>1, <1>3 DEF Rooted
<1>4. CASE Back(p, S, B) = None /\ p \in B
  <2>1. p \in ChainOf(tip, S, B) /\ r \in ChainOf(tip, S, B) /\ Back(r, S, B) = None
    BY <1>4 DEF Rooted
  <2> QED
    BY <2>1, OneBottom
<1> QED
  BY <1>2, <1>3, <1>4

\* A block on a parent whose walk ends at r leaves the tree rooted there.
LEMMA AddRooted ==
    ASSUME NEW S \in SUBSET Blocks, NEW B, NEW tip \in S, NEW r, Rooted(S, B, tip, r),
           NEW b \in Blocks, Prev[b] \in S, r \in ChainOf(Prev[b], S, B)
    PROVE  /\ Rooted(S \cup {b}, B \ {b}, tip, r)
           /\ Rooted(S \cup {b}, B \ {b}, b, r)
<1> DEFINE S2 == S \cup {b}
           B2 == B \ {b}
<1>1. S2 \in SUBSET Blocks /\ S \subseteq S2 /\ B2 \subseteq B
  OBVIOUS
<1>2. \A x \in Blocks : ChainOf(x, S, B) \subseteq ChainOf(x, S2, B2)
  <2> HIDE DEF S2, B2
  <2> QED BY <1>1, ChainGrows
<1>3. Prev[b] \in Blocks /\ Prev[b] # None
  BY BlockAssumption
<1>4. Back(b, S2, B2) = Prev[b]
  BY DEF Back
<1>5. ChainOf(b, S2, B2) = {b} \cup ChainOf(Prev[b], S2, B2)
  <2> HIDE DEF S2, B2
  <2> QED BY <1>1, <1>3, <1>4, ChainUnfolds
<1>6. r \in ChainOf(tip, S2, B2) /\ r \in ChainOf(b, S2, B2)
  BY <1>2, <1>3, <1>5 DEF Rooted
<1>7. r \in Blocks /\ r \in S
  BY WalkIsChain DEF Rooted, IsChain
<1>8. Height[r] < Height[b] /\ Height[r] \in Nat /\ Height[b] \in Nat
  <2>1. r = Prev[b] \/ Height[r] < Height[Prev[b]]
    BY <1>3, WalkIsChain DEF IsChain
  <2>2. Height[b] = Height[Prev[b]] + 1 /\ Height[Prev[b]] \in Nat /\ Height[r] \in Nat
    BY <1>3, <1>7, BlockAssumption
  <2> QED
    BY <2>1, <2>2
<1>9. Back(r, S2, B2) = None
  <2>1. r # b /\ Prev[r] # b
    <3>1. Prev[r] = b => Height[r] = Height[b] + 1
      BY <1>7, ChildHeight
    <3> QED
      BY <1>8, <3>1
  <2>2. Back(r, S, B) = None
    BY DEF Rooted
  <2> QED
    BY <2>1, <2>2, <1>7 DEF Back
<1>10. ASSUME NEW x \in S2, Back(x, S2, B2) # None
       PROVE  r \in ChainOf(x, S2, B2)
  <2>1. CASE x = b
    BY <2>1, <1>6
  <2>2. CASE x # b /\ Back(x, S, B) # None
    BY <2>2, <1>2 DEF Rooted
  <2>3. CASE x # b /\ Back(x, S, B) = None
    <3>1. Back(x, S2, B2) = b
      BY <2>3, <1>10 DEF Back
    <3>2. ChainOf(x, S2, B2) = {x} \cup ChainOf(b, S2, B2)
      <4> HIDE DEF S2, B2
      <4> QED BY <1>1, <1>10, <3>1, ChainUnfolds
    <3> QED
      BY <3>2, <1>6
  <2> QED
    BY <2>1, <2>2, <2>3
<1>11. ASSUME NEW x \in S2 \ B2, NEW y \in Blocks, Back(x, S2, B2) = None, x # r
       PROVE  Prev[y] # x
  <2>1. x # b
    BY <1>3, <1>4, <1>11
  <2>2. x \in S \ B /\ Back(x, S, B) = None
    BY <2>1, <1>11 DEF Back
  <2> QED
    BY <2>2, <1>11 DEF Rooted
<1> QED
  BY <1>6, <1>9, <1>10, <1>11 DEF Rooted

\* Walks down to a block go on doing so when what is below it is freed.
LEMMA CutKeepsWalks ==
    ASSUME NEW S \in SUBSET Blocks, NEW B, NEW d \in Blocks, NEW b \in Blocks,
           d \in ChainOf(b, S, B)
    PROVE  d \in ChainOf(b, S \ (ChainOf(d, S, B) \ {d}), B \ (ChainOf(d, S, B) \ {d}))
<1> DEFINE gone == ChainOf(d, S, B) \ {d}
           S2 == S \ gone
           B2 == B \ gone
           Keeps(x) == d \in ChainOf(x, S, B) => d \in ChainOf(x, S2, B2)
           bad == {x \in Blocks : ~Keeps(x)}
<1>0. S2 \in SUBSET Blocks
  OBVIOUS
<1>1. \A x \in gone : x \in Blocks /\ Height[x] \in Nat /\ Height[x] < Height[d]
  BY WalkIsChain, BlockAssumption DEF IsChain
<1> HIDE DEF gone
<1>2. ASSUME NEW x \in Blocks, \A y \in bad : ~(Height[y] < Height[x])
      PROVE  Keeps(x)
  <2> SUFFICES ASSUME d \in ChainOf(x, S, B) PROVE d \in ChainOf(x, S2, B2)
    OBVIOUS
  <2>1. CASE x = d
    <3> HIDE DEF S2, B2
    <3> QED BY <2>1, <1>0, WalkIsChain DEF IsChain
  <2>2. CASE x # d
    <3> DEFINE q == Prev[x]
    <3>1. Back(x, S, B) # None
      BY <2>2, ChainUnfolds
    <3>2. /\ Back(x, S, B) = q /\ q \in S /\ q \in Blocks /\ x \notin B
          /\ Height[x] = Height[q] + 1 /\ Height[q] \in Nat
      BY <3>1, BackIsBlock, BlockAssumption
    <3>3. d \in ChainOf(q, S, B)
      BY <2>2, <3>1, <3>2, ChainUnfolds
    <3>4. d = q \/ Height[d] < Height[q]
      BY <3>2, <3>3, WalkIsChain DEF IsChain
    <3>5. q \notin gone
      BY <1>1, <3>2, <3>4, BlockAssumption
    <3>6. Back(x, S2, B2) = q /\ q # None
      BY <3>2, <3>5, BlockAssumption DEF Back
    <3>7. ChainOf(x, S2, B2) = {x} \cup ChainOf(q, S2, B2)
      <4> HIDE DEF S2, B2
      <4> QED BY <1>0, <3>6, ChainUnfolds
    <3>8. Keeps(q)
      <4> HIDE DEF q, Keeps
      <4> QED BY <1>2, <3>2
    <3> QED
      BY <3>3, <3>7, <3>8
  <2> QED
    BY <2>1, <2>2
<1>3. bad \in SUBSET Blocks /\ \A x \in bad : \E y \in bad : Height[y] < Height[x]
  BY <1>2
<1>4. bad = {}
  <2> HIDE DEF bad
  <2> QED
    BY <1>3, NoneIsLowest
<1>5. Keeps(b)
  BY <1>4
<1> QED
  BY <1>5 DEF gone

\* A fork that is cut off is a single block.
CutOffAlone(S2, B2, tip, gone) ==
    \A x \in S2 \ B2, y \in Blocks :
        Prev[x] \in gone /\ Prev[y] = x => x \in ChainOf(tip, S2, B2)

\* Freeing what is before a block of the main chain leaves the tree rooted at
\* that block, unless it cuts off a fork of several blocks: the first of them,
\* relayed again with its children, would be a second root.
LEMMA CutRooted ==
    ASSUME NEW S \in SUBSET Blocks, NEW B, NEW tip \in Blocks, NEW r, Rooted(S, B, tip, r),
           NEW d \in ChainOf(tip, S, B), NEW gone, gone = ChainOf(d, S, B) \ {d},
           CutOffAlone(S \ gone, B \ gone, tip, gone)
    PROVE  Rooted(S \ gone, B \ gone, tip, d)
<1> DEFINE S2 == S \ gone
           B2 == B \ gone
<1>1. S2 \in SUBSET Blocks /\ S2 \subseteq S /\ d \in Blocks
  BY WalkIsChain DEF IsChain
<1>2. \A x \in gone : x \in Blocks /\ Height[x] \in Nat /\ Height[x] < Height[d]
  BY <1>1, WalkIsChain, BlockAssumption DEF IsChain
<1>3. \A x \in Blocks : d \in ChainOf(x, S, B) => d \in ChainOf(x, S2, B2)
  BY <1>1, CutKeepsWalks
<1>4. d \in ChainOf(tip, S2, B2)
  BY <1>3
<1>5. r \in gone \cup {d}
  <2>1. r \in ChainOf(tip, S, B) /\ Back(r, S, B) = None
    BY DEF Rooted
  <2> QED
    BY <2>1, OneBottom
<1>6. Back(d, S2, B2) = None
  <2>1. CASE Back(d, S, B) = None
    BY <2>1 DEF Back
  <2>2. CASE Back(d, S, B) # None
    <3>1. Back(d, S, B) = Prev[d] /\ Prev[d] \in Blocks /\ Prev[d] # d
      BY <1>1, <2>2, BackIsBlock, BlockAssumption
    <3>2. Prev[d] \in ChainOf(d, S, B)
      <4>1. ChainOf(d, S, B) = {d} \cup ChainOf(Prev[d], S, B)
        BY <1>1, <2>2, <3>1, ChainUnfolds
      <4>2. Prev[d] \in ChainOf(Prev[d], S, B)
        BY <3>1, WalkIsChain DEF IsChain
      <4> QED
        BY <4>1, <4>2
    <3> QED
      BY <3>1, <3>2 DEF Back
  <2> QED
    BY <2>1, <2>2
<1>7. \A x \in ChainOf(tip, S2, B2) : Back(x, S2, B2) = None => x = d
  <2> HIDE DEF S2, B2
  <2> QED BY <1>1, <1>4, <1>6, OneBottom
<1>8. ASSUME NEW x \in S2 \ B2, NEW y \in Blocks, Back(x, S2, B2) = None, x # d
      PROVE  Prev[y] # x
  <2> SUFFICES ASSUME Prev[y] = x PROVE FALSE
    OBVIOUS
  <2>1. x \in S \ B /\ x \notin gone /\ x # r
    BY <1>5, <1>8
  <2>2. Back(x, S, B) # None
    BY <2>1 DEF Rooted
  <2>3. Prev[x] \in gone
    BY <1>8, <2>1, <2>2 DEF Back
  <2>4. x \in ChainOf(tip, S2, B2)
    BY <1>8, <2>3 DEF CutOffAlone
  <2> QED
    BY <1>7, <1>8, <2>4
<1> DEFINE bad == {x \in S2 : Back(x, S2, B2) # None /\ d \notin ChainOf(x, S2, B2)}
<1>9. ASSUME NEW x \in bad PROVE \E y \in bad : Height[y] < Height[x]
  <2> DEFINE q == Prev[x]
  <2> HIDE DEF S2, B2
  <2>1. x \in Blocks /\ x \in S2 /\ Back(x, S2, B2) # None /\ d \notin ChainOf(x, S2, B2)
    BY <1>1, <1>9
  <2>2. /\ Back(x, S2, B2) = q /\ q \in S2 /\ q \in Blocks /\ x \notin B2
        /\ Height[x] = Height[q] + 1 /\ Height[q] \in Nat /\ q # None
    BY <1>1, <2>1, BackIsBlock, BlockAssumption
  <2>3. ChainOf(x, S2, B2) = {x} \cup ChainOf(q, S2, B2)
    BY <1>1, <2>1, <2>2, ChainUnfolds
  <2>4. d \notin ChainOf(q, S2, B2) /\ x # d
    BY <2>1, <2>3
  <2>5. CASE Back(q, S2, B2) # None
    <3>1. q \in bad
      BY <2>2, <2>4, <2>5
    <3>2. Height[q] < Height[x]
      <4> HIDE DEF q
      <4> QED BY <2>2
    <3> QED
      BY <3>1, <3>2
  <2>6. CASE Back(q, S2, B2) = None
    <3>1. q \in B2
      BY <1>8, <2>1, <2>2, <2>4, <2>6, WalkIsChain, <1>1 DEF IsChain
    <3>2. x \in S /\ Back(x, S, B) = q /\ Back(q, S, B) = None
      BY <2>1, <2>2, <3>1 DEF S2, B2, Back
    <3>3. ChainOf(x, S, B) = {x, q}
      BY <2>1, <2>2, <3>2, ChainUnfolds
    <3>4. r \in ChainOf(x, S, B)
      BY <2>2, <3>2 DEF Rooted
    <3>5. r # x
      BY <2>2, <3>2 DEF Rooted
    <3>6. q = d
      BY <1>5, <2>2, <3>3, <3>4, <3>5 DEF S2
    <3> QED
      BY <1>1, <2>4, <3>6, WalkIsChain DEF IsChain
  <2> QED
    BY <2>5, <2>6
<1>10. bad = {}
  <2>1. bad \in SUBSET Blocks
    BY <1>1
  <2> HIDE DEF bad
  <2> QED
    BY <2>1, <1>9, NoneIsLowest
<1>11. \A x \in S2 : Back(x, S2, B2) # None => d \in ChainOf(x, S2, B2)
  BY <1>10
<1> QED
  BY <1>4, <1>6, <1>8, <1>11 DEF Rooted

\* Two walks that end at the same block meet, if the first one starts at least
\* as high.
JoinIsFound(x, y, S, B) ==
    /\ Join(x, y, S, B)[1] # None
    /\ Join(x, y, S, B)[2] # None

\* Two walks that end at one block have a place where they join.
LEMMA CommonJoins ==
    ASSUME NEW S \in SUBSET Blocks, NEW B, NEW r, NEW b \in Blocks, NEW tip \in Blocks,
           r \in ChainOf(b, S, B), r \in ChainOf(tip, S, B), Height[tip] <= Height[b]
    PROVE  JoinIsFound(b, tip, S, B)
<1> DEFINE Common(x, y) == /\ r \in ChainOf(x, S, B)
                           /\ r \in ChainOf(y, S, B)
                           /\ Height[y] <= Height[x]
           bad == {x \in Blocks : \E y \in Blocks : Common(x, y) /\ ~JoinIsFound(x, y, S, B)}
<1>0. r \in Blocks /\ Height[r] \in Nat
  BY WalkIsChain, BlockAssumption DEF IsChain
<1>1. ASSUME NEW x \in Blocks, r \in ChainOf(x, S, B), x # r
      PROVE  /\ Back(x, S, B) = Prev[x] /\ Prev[x] \in Blocks /\ Prev[x] # None
             /\ r \in ChainOf(Prev[x], S, B)
             /\ Height[x] = Height[Prev[x]] + 1 /\ Height[Prev[x]] \in Nat
             /\ Height[r] <= Height[Prev[x]]
  <2>1. Back(x, S, B) # None
    BY <1>1, ChainUnfolds
  <2>2. /\ Back(x, S, B) = Prev[x] /\ Prev[x] \in Blocks /\ Prev[x] # None
        /\ Height[x] = Height[Prev[x]] + 1 /\ Height[Prev[x]] \in Nat
    BY <2>1, BackIsBlock, BlockAssumption
  <2>3. r \in ChainOf(Prev[x], S, B)
    BY <1>1, <2>1, <2>2, ChainUnfolds
  <2>4. r = Prev[x] \/ Height[r] < Height[Prev[x]]
    BY <2>2, <2>3, WalkIsChain DEF IsChain
  <2> QED
    BY <1>0, <2>2, <2>3, <2>4
<1>2. ASSUME NEW x \in Blocks, NEW y \in Blocks, Common(x, y), \A z \in bad : ~(Height[z] < Height[x])
      PROVE  JoinIsFound(x, y, S, B)
  <2>0. x # None /\ y # None /\ Height[x] \in Nat /\ Height[y] \in Nat
    BY BlockAssumption
  <2>1. CASE x = y
    <3>0. Stops(<<x, y>>)
      BY <2>1 DEF Stops
    <3>1. Join(x, y, S, B) = <<x, y>>
      BY <3>0, JoinUnfolds
    <3> QED
      BY <2>0, <3>1 DEF JoinIsFound
  <2>2. CASE x # y
    <3>1. x # r
      <4> SUFFICES ASSUME x = r PROVE FALSE
        OBVIOUS
      <4>1. y = r \/ Height[r] < Height[y]
        BY <1>2, WalkIsChain DEF IsChain
      <4> QED
        BY <1>2, <2>0, <2>2, <4>1
    <3> DEFINE x2 == Prev[x]
               y2 == IF Height[x2] < Height[y] THEN Back(y, S, B) ELSE y
    <3>2. /\ Back(x, S, B) = x2 /\ x2 \in Blocks /\ x2 # None
          /\ r \in ChainOf(x2, S, B)
          /\ Height[x] = Height[x2] + 1 /\ Height[x2] \in Nat
          /\ Height[r] <= Height[x2]
      BY <1>1, <1>2, <3>1
    <3>3. StepBack(<<x, y>>, S, B) = <<x2, y2>>
      BY <3>2 DEF StepBack
    <3>4. ~Stops(<<x, y>>)
      BY <2>0, <2>2 DEF Stops
    <3> HIDE DEF x2
    <3>5. y2 \in Blocks /\ r \in ChainOf(y2, S, B) /\ Height[y2] <= Height[x2]
      <4>1. CASE Height[x2] < Height[y]
        <5>1. y # r
          BY <1>0, <2>0, <3>2, <4>1
        <5>2. /\ y2 = Prev[y] /\ Prev[y] \in Blocks /\ r \in ChainOf(Prev[y], S, B)
              /\ Height[y] = Height[Prev[y]] + 1 /\ Height[Prev[y]] \in Nat
          BY <1>1, <1>2, <4>1, <5>1
        <5>3. Height[Prev[y]] <= Height[x2]
          BY <1>2, <2>0, <3>2, <5>2
        <5> QED
          BY <5>2, <5>3
      <4>2. CASE ~(Height[x2] < Height[y])
        BY <1>2, <2>0, <3>2, <4>2
      <4> QED
        BY <4>1, <4>2
    <3> HIDE DEF y2
    <3>6. Height[x2] < Height[x]
      BY <3>2
    <3>7. JoinIsFound(x2, y2, S, B)
      BY <1>2, <3>2, <3>5, <3>6
    <3>8. Join(x, y, S, B) = Join(x2, y2, S, B)
      BY <3>3, <3>4, JoinUnfolds
    <3> QED
      BY <3>7, <3>8 DEF JoinIsFound
  <2> QED
    BY <2>1, <2>2
<1>3. bad \in SUBSET Blocks /\ \A x \in bad : \E y \in bad : Height[y] < Height[x]
  <2>1. ASSUME NEW x \in bad, ~\E y \in bad : Height[y] < Height[x] PROVE FALSE
    <3>1. PICK y \in Blocks : Common(x, y) /\ ~JoinIsFound(x, y, S, B)
      OBVIOUS
    <3>2. x \in Blocks
      OBVIOUS
    <3> HIDE DEF bad, Common
    <3> QED
      BY <1>2, <2>1, <3>1, <3>2
  <2> QED
    BY <2>1
<1>4. bad = {}
  <2> HIDE DEF bad
  <2> QED
    BY <1>3, NoneIsLowest
<1> QED
  BY <1>4

-----------------------------------------------------------------------------
(* Every walk finds what it looks for *)

\* No fork grows from a checkpoint beside the main chain.
ForksFromChain ==
    \A p \in Peers, b \in Relayed :
        AddFork(p, b) \/ Reorganise(p, b) => (Prev[b] \in bare => Prev[b] \in MainChain)

\* Clearing the memory cuts off forks of one block only.
ForksCutAlone ==
    \A x \in blocks' \ bare', y \in Blocks :
        Prev[x] \in blocks \ blocks' /\ Prev[y] = x => x \in MainChain'

\* The user does not rescan while the checkpoint is stored but not reached.
RescanOnChain == Rescan => Start \in MainChain \/ Start \notin blocks

\* No walk has failed, and the tree is rooted.
RootedAt(r) == broken # "null" /\ r \in blocks /\ Rooted(blocks, bare, lastBlock, r)

\* Some stored block is the root.
RootInv == \E r \in Blocks : RootedAt(r)

\* A step from a tree rooted at r fails nowhere and moves the root only if it
\* frees it.
KeepsRoot(r) == \E d \in Blocks : RootedAt(d)' /\ (r \in blocks' => d = r)

\* At the start each stored block is a checkpoint, and the tip is its own root.
LEMMA RootInitially == Init => RootInv
<1> SUFFICES ASSUME Init PROVE RootInv
  OBVIOUS
<1>1. Start \in blocks /\ lastBlock = Start /\ blocks = bare /\ blocks \in SUBSET Blocks /\ Start \in Blocks
  BY CheckpointAssumption DEF Init
<1>2. \A x \in blocks : Back(x, blocks, bare) = None
  BY <1>1 DEF Back
<1>3. Start \in ChainOf(Start, blocks, bare)
  BY <1>1, WalkIsChain DEF IsChain
<1>4. Rooted(blocks, bare, lastBlock, Start)
  BY <1>1, <1>2, <1>3 DEF Rooted
<1>5. broken # "null"
  BY DEF Init
<1> QED
  BY <1>1, <1>4, <1>5 DEF RootInv, RootedAt

\* "new block extends main chain": the root goes where the memory is cleared to.
LEMMA ExtendRooted ==
    ASSUME Places, Stored, NEW r \in Blocks, RootedAt(r),
           NEW p \in Peers, NEW b \in Relayed, Extend(p, b), ForksCutAlone
    PROVE  KeepsRoot(r)
<1> DEFINE stored == blocks \cup {b}
           bareOnes == bare \ {b}
           gone == Tail(b, stored, bareOnes)
<1>1. /\ b \in Blocks /\ blocks \in SUBSET Blocks /\ stored \in SUBSET Blocks
      /\ lastBlock \in blocks /\ lastBlock \in Blocks
      /\ Prev[b] = lastBlock /\ lastBlock' = b
      /\ broken' = broken
  BY DEF Extend, Relayed, Places, Stored
<1>2. blocks' = stored \ gone /\ bare' = bareOnes \ gone
  BY DEF Extend
<1>3. r \in blocks /\ Rooted(blocks, bare, lastBlock, r)
  BY DEF RootedAt
<1>4. r \in ChainOf(Prev[b], blocks, bare)
  BY <1>1, <1>3 DEF Rooted
<1>5. Rooted(stored, bareOnes, b, r)
  BY <1>1, <1>3, <1>4, AddRooted
<1>6. \E d \in blocks' : Rooted(blocks', bare', lastBlock', d) /\ (r \in blocks' => d = r)
  <2> DEFINE last == Before(b, Walk + 1, stored, bareOnes)
  <2>1. CASE gone = {}
    <3>1. blocks' = stored /\ bare' = bareOnes
      BY <1>2, <2>1
    <3> HIDE DEF stored, bareOnes, gone
    <3>2. r \in stored
      BY <1>3 DEF stored
    <3> QED
      BY <1>1, <1>5, <3>1, <3>2
  <2>2. CASE gone # {}
    <3>1. last # None /\ gone = ChainOf(last, stored, bareOnes) \ {last}
      BY <2>2 DEF Tail
    <3>2. last \in ChainOf(b, stored, bareOnes)
      BY <3>1 DEF Before
    <3> HIDE DEF stored, bareOnes, last, gone
    <3>3. \A x \in gone : x \in Blocks /\ Height[x] < Height[b]
      BY <1>1, TailIsBelow DEF gone
    <3>4. b \notin gone /\ last \notin gone /\ last \in Blocks
      <4>1. Height[b] \in Nat
        BY <1>1, BlockAssumption
      <4>2. last \in Blocks
        BY <1>1, <3>2, WalkIsChain DEF IsChain
      <4> QED
        BY <3>1, <3>3, <4>1, <4>2
    <3>5. last \in stored
      <4>1. last = b \/ last \in stored
        BY <1>1, <3>2, WalkIsChain DEF IsChain
      <4> QED
        BY <4>1 DEF stored
    <3>6. gone \subseteq stored
      BY <1>1, <3>1, <3>4, WalkIsChain DEF IsChain
    <3>7. gone \subseteq blocks \ blocks'
      BY <1>2, <3>4, <3>6 DEF stored
    <3>8. MainChain' = ChainOf(b, stored \ gone, bareOnes \ gone)
      BY <1>1, <1>2 DEF MainChain
    <3>9. CutOffAlone(stored \ gone, bareOnes \ gone, b, gone)
      BY <1>2, <3>7, <3>8 DEF ForksCutAlone, CutOffAlone
    <3>10. Rooted(stored \ gone, bareOnes \ gone, b, last)
      BY <1>1, <1>5, <3>1, <3>2, <3>9, CutRooted
    <3>11. r \in gone \cup {last}
      <4>1. r \in ChainOf(b, stored, bareOnes) /\ Back(r, stored, bareOnes) = None
        BY <1>5 DEF Rooted
      <4> QED
        BY <1>1, <3>1, <3>2, <4>1, OneBottom
    <3> QED
      BY <1>1, <1>2, <3>4, <3>5, <3>10, <3>11
  <2> QED
    BY <2>1, <2>2
<1>7. blocks' \subseteq Blocks /\ broken' # "null"
  BY <1>1, <1>2 DEF RootedAt
<1> QED
  BY <1>6, <1>7 DEF KeepsRoot, RootedAt

\* "we already have the block": a checkpoint becomes a block, and the walk to
\* its height ends at the root at the latest.
LEMMA ReplaceRooted ==
    ASSUME Places, Stored, NEW r \in Blocks, RootedAt(r),
           NEW p \in Peers, NEW b \in Relayed, Replace(p, b)
    PROVE  KeepsRoot(r)
<1>1. /\ b \in Blocks /\ b \in blocks /\ Prev[b] \in blocks /\ Prev[b] \in Blocks
      /\ blocks \in SUBSET Blocks /\ bare \subseteq Checkpoints
      /\ lastBlock \in blocks /\ lastBlock \in Blocks
      /\ blocks' = blocks /\ lastBlock' = lastBlock /\ bare' = bare \ {b}
  BY DEF Replace, Linked, Relayed, Places, Stored
<1>2. r \in blocks /\ Rooted(blocks, bare, lastBlock, r)
  BY DEF RootedAt
<1>3. Prev[b] # None /\ Height[b] \in Nat /\ Height[Prev[b]] \in Nat /\ Height[b] = Height[Prev[b]] + 1
  BY <1>1, BlockAssumption
<1>4. r \in ChainOf(b, blocks, bare) \/ r \in ChainOf(Prev[b], blocks, bare)
  <2>1. CASE b \in bare
    <3>1. Prev[b] \notin bare
      BY <1>1, <2>1, CheckpointAssumption
    <3> QED
      BY <1>1, <1>2, <2>1, <3>1, ParentRooted
  <2>2. CASE b \notin bare
    <3>1. Back(b, blocks, bare) # None
      BY <1>1, <1>3, <2>2 DEF Back
    <3> QED
      BY <1>1, <1>2, <3>1 DEF Rooted
  <2> QED
    BY <2>1, <2>2
<1>5. r \in MainChain /\ ~(Height[r] > Height[b])
  <2>1. r \in MainChain
    BY <1>2 DEF Rooted, MainChain
  <2>2. r \in Blocks /\ Height[r] \in Nat
    BY <1>1, <1>2, BlockAssumption
  <2>3. CASE r \in ChainOf(b, blocks, bare)
    <3>1. r = b \/ Height[r] < Height[b]
      BY <1>1, <2>3, WalkIsChain DEF IsChain
    <3> QED
      BY <1>3, <2>1, <2>2, <3>1
  <2>4. CASE r \in ChainOf(Prev[b], blocks, bare)
    <3>1. r = Prev[b] \/ Height[r] < Height[Prev[b]]
      BY <1>1, <2>4, WalkIsChain DEF IsChain
    <3> QED
      BY <1>3, <2>1, <2>2, <3>1
  <2> QED
    BY <1>4, <2>3, <2>4
<1>6. broken' # "null"
  BY <1>5 DEF Replace, RootedAt
<1>7. Rooted(blocks', bare', lastBlock', r)
  <2>1. CASE b \in bare
    <3>1. Prev[b] \notin bare
      BY <1>1, <2>1, CheckpointAssumption
    <3>2. r \in ChainOf(Prev[b], blocks, bare)
      BY <1>1, <1>2, <3>1, ParentRooted
    <3>3. Rooted(blocks \cup {b}, bare \ {b}, lastBlock, r)
      BY <1>1, <1>2, <3>2, AddRooted
    <3>4. blocks \cup {b} = blocks
      BY <1>1
    <3> QED
      BY <1>1, <3>3, <3>4
  <2>2. CASE b \notin bare
    <3>1. bare \ {b} = bare
      BY <2>2
    <3> QED
      BY <1>1, <1>2, <3>1
  <2> QED
    BY <2>1, <2>2
<1> QED
  BY <1>1, <1>2, <1>6, <1>7 DEF KeepsRoot, RootedAt

\* A new block on a fork leaves the tree rooted, for the old tip and for the block.
LEMMA ForkRooted ==
    ASSUME Places, Stored, NEW r \in blocks, Rooted(blocks, bare, lastBlock, r),
           NEW p \in Peers, NEW b \in Relayed, OnFork(p, b),
           Prev[b] \in bare => Prev[b] \in MainChain
    PROVE  /\ Rooted(blocks \cup {b}, bare, lastBlock, r)
           /\ Rooted(blocks \cup {b}, bare, b, r)
<1>1. /\ b \in Blocks /\ b \notin blocks /\ Prev[b] \in blocks /\ Prev[b] \in Blocks
      /\ blocks \in SUBSET Blocks /\ lastBlock \in blocks /\ lastBlock \in Blocks
      /\ bare \ {b} = bare
  BY DEF OnFork, Linked, Relayed, Places, Stored
<1>2. Prev[b] \in bare => Prev[b] \in ChainOf(lastBlock, blocks, bare)
  BY DEF MainChain
<1>3. r \in ChainOf(Prev[b], blocks, bare)
  BY <1>1, <1>2, ParentRooted
<1> QED
  BY <1>1, <1>3, AddRooted

\* A reorganisation finds where the branches join: both walks end at the root.
LEMMA ReorganiseMeets ==
    ASSUME Places, Stored, NEW r \in Blocks, RootedAt(r),
           NEW p \in Peers, NEW b \in Relayed, Reorganise(p, b),
           Prev[b] \in bare => Prev[b] \in MainChain
    PROVE  Meets(b)
<1> DEFINE stored == blocks \cup {b}
<1>1. /\ OnFork(p, b) /\ b \in Blocks /\ lastBlock \in Blocks /\ stored \in SUBSET Blocks
      /\ Height[b] > Height[lastBlock]
  BY DEF Reorganise, Longer, Relayed, Places
<1>2. r \in blocks /\ Rooted(blocks, bare, lastBlock, r)
  BY DEF RootedAt
<1>3. r \in ChainOf(b, stored, bare) /\ r \in ChainOf(lastBlock, stored, bare)
  BY <1>1, <1>2, ForkRooted DEF Rooted
<1>4. Height[lastBlock] <= Height[b]
  BY <1>1, BlockAssumption
<1> HIDE DEF stored
<1>5. JoinIsFound(b, lastBlock, stored, bare)
  BY <1>1, <1>3, <1>4, CommonJoins
<1> QED
  BY <1>5 DEF JoinIsFound, Meets, stored

\* "fork is now longer than main chain": the root stays.
LEMMA ReorganiseRooted ==
    ASSUME Places, Stored, NEW r \in Blocks, RootedAt(r),
           NEW p \in Peers, NEW b \in Relayed, Reorganise(p, b),
           Prev[b] \in bare => Prev[b] \in MainChain
    PROVE  KeepsRoot(r)
<1>1. /\ OnFork(p, b) /\ blocks' = blocks \cup {b} /\ bare' = bare /\ lastBlock' = b
      /\ Join(b, lastBlock, blocks \cup {b}, bare)[1] # None => broken' = broken
  BY DEF Reorganise
<1>2. Join(b, lastBlock, blocks \cup {b}, bare)[1] # None
  BY ReorganiseMeets DEF Meets
<1>3. r \in blocks /\ Rooted(blocks, bare, lastBlock, r)
  BY DEF RootedAt
<1>4. Rooted(blocks \cup {b}, bare, b, r)
  BY <1>1, <1>3, ForkRooted
<1> QED
  BY <1>1, <1>2, <1>3, <1>4 DEF KeepsRoot, RootedAt

\* "new block is on a fork": the root stays.
LEMMA AddForkRooted ==
    ASSUME Places, Stored, NEW r \in Blocks, RootedAt(r),
           NEW p \in Peers, NEW b \in Relayed, AddFork(p, b),
           Prev[b] \in bare => Prev[b] \in MainChain
    PROVE  KeepsRoot(r)
<1>1. OnFork(p, b) /\ blocks' = blocks \cup {b} /\ UNCHANGED <<bare, lastBlock, broken>>
  BY DEF AddFork
<1>2. r \in blocks /\ Rooted(blocks, bare, lastBlock, r)
  BY DEF RootedAt
<1>3. Rooted(blocks \cup {b}, bare, lastBlock, r)
  BY <1>1, <1>2, ForkRooted
<1> QED
  BY <1>1, <1>2, <1>3 DEF KeepsRoot, RootedAt

\* A rescan: the checkpoint's walk ends where that of the old tip does.
LEMMA RescanRooted ==
    ASSUME Places, Stored, NEW r \in Blocks, RootedAt(r), Rescan, RescanOnChain
    PROVE  KeepsRoot(r)
<1>1. UNCHANGED <<blocks, bare, broken>> /\ lastBlock' = RescanFrom
  BY DEF Rescan
<1>2. r \in blocks /\ Rooted(blocks, bare, lastBlock, r)
  BY DEF RootedAt
<1>3. CASE Start \notin blocks
  BY <1>1, <1>2, <1>3 DEF RescanFrom, KeepsRoot, RootedAt
<1>4. CASE Start \in blocks
  <2>1. Start \in ChainOf(lastBlock, blocks, bare)
    BY <1>4 DEF RescanOnChain, MainChain
  <2>2. lastBlock \in Blocks /\ blocks \in SUBSET Blocks
    BY DEF Places
  <2>3. r \in ChainOf(Start, blocks, bare)
    BY <1>2, <2>1, <2>2, OneBottom DEF Rooted
  <2>4. Rooted(blocks, bare, Start, r)
    BY <1>2, <2>3 DEF Rooted
  <2> QED
    BY <1>1, <1>2, <1>4, <2>4 DEF RescanFrom, KeepsRoot, RootedAt
<1> QED
  BY <1>3, <1>4

\* A step of the running process keeps the root.
LEMMA StepKeepsRoot ==
    ASSUME Places, Stored, NEW r \in Blocks, RootedAt(r), Next, ~Restart,
           ForksFromChain, ForksCutAlone, RescanOnChain
    PROVE  KeepsRoot(r)
<1>0. ASSUME UNCHANGED <<blocks, bare, lastBlock>>, broken' # "null" PROVE KeepsRoot(r)
  BY <1>0 DEF KeepsRoot, RootedAt
<1>a. broken # "null"
  BY DEF RootedAt
<1>1. ASSUME NEW p \in Peers, NEW b \in Relayed, Relay(p, b) PROVE KeepsRoot(r)
  <2>1. CASE Ignore(p, b)
    BY <1>0, <1>a, <2>1 DEF Ignore
  <2>2. CASE AddOrphan(p, b)
    BY <1>0, <1>a, <2>2 DEF AddOrphan
  <2>3. CASE Extend(p, b)
    BY <2>3, ExtendRooted
  <2>4. CASE Replace(p, b)
    BY <2>4, ReplaceRooted
  <2>5. CASE AddAhead(p, b)
    BY <1>0, <1>a, <2>5 DEF AddAhead
  <2>6. CASE AddFork(p, b)
    BY <2>6, AddForkRooted DEF ForksFromChain
  <2>7. CASE Reorganise(p, b)
    BY <2>7, ReorganiseRooted DEF ForksFromChain
  <2> QED
    BY <1>1, <2>1, <2>2, <2>3, <2>4, <2>5, <2>6, <2>7 DEF Relay
<1>2. ASSUME NEW p \in Peers, SaveBlocks(p) PROVE KeepsRoot(r)
  BY <1>0, <1>a, <1>2 DEF SaveBlocks
<1>3. ASSUME NEW h \in PeerHeights, PeerConnected(h) PROVE KeepsRoot(r)
  BY <1>0, <1>a, <1>3 DEF PeerConnected, LoadFilter
<1>4. ASSUME UpdateFilter PROVE KeepsRoot(r)
  BY <1>0, <1>a, <1>4 DEF UpdateFilter, LoadFilter
<1>5. ASSUME Rescan PROVE KeepsRoot(r)
  BY <1>5, RescanRooted
<1> QED
  BY <1>1, <1>2, <1>3, <1>4, <1>5 DEF Next

-----------------------------------------------------------------------------
(* Chains whose forks are single blocks *)

\* Of the blocks that have the same parent one at most has children.
SingleBlockForks ==
    \A x, y, u, v \in Blocks :
        Prev[x] = Prev[y] /\ Prev[x] # None /\ Prev[u] = x /\ Prev[v] = y => x = y

\* The wallet's first key is newer than every checkpoint.
StartIsLast == \A c \in Checkpoints : Height[c] <= Height[Start]

\* Until the process restarts the root is the checkpoint, while it is stored,
\* and the tip is not below it.
StartIsRoot ==
    restarts = 0 =>
        /\ Height[Start] <= Height[lastBlock]
        /\ \E r \in Blocks : RootedAt(r) /\ (Start \in blocks => r = Start)

\* Where forks are single blocks, what the clearing cuts off has no children.
LEMMA StubsCutAlone ==
    ASSUME SingleBlockForks, Places, Stored, NEW p \in Peers, NEW b \in Relayed, Extend(p, b)
    PROVE  ForksCutAlone
<1> DEFINE stored == blocks \cup {b}
           bareOnes == bare \ {b}
           gone == Tail(b, stored, bareOnes)
           last == Before(b, Walk + 1, stored, bareOnes)
           S2 == stored \ gone
           B2 == bareOnes \ gone
<1>1. /\ b \in Blocks /\ stored \in SUBSET Blocks
      /\ lastBlock' = b /\ blocks' = S2 /\ bare' = B2
  BY DEF Extend, Relayed, Places
<1> SUFFICES ASSUME NEW x \in blocks' \ bare', NEW y \in Blocks,
                    Prev[x] \in blocks \ blocks', Prev[y] = x
             PROVE  x \in MainChain'
  BY DEF ForksCutAlone
<1>2. Prev[x] \in gone /\ x \in stored /\ x \notin gone /\ x \in Blocks
  BY <1>1
<1>3. last # None /\ gone = ChainOf(last, stored, bareOnes) \ {last}
  BY <1>2 DEF Tail
<1>4. last \in ChainOf(b, stored, bareOnes) /\ Height[last] = Height[b] - (Walk + 1)
  BY <1>3 DEF Before
<1> HIDE DEF stored, bareOnes, gone, last
<1> DEFINE g == Prev[x]
<1>5. last \in Blocks /\ IsChain(ChainOf(b, stored, bareOnes), b, stored)
  BY <1>1, <1>4, WalkIsChain DEF IsChain
<1>6. IsChain(ChainOf(last, stored, bareOnes), last, stored)
  BY <1>1, <1>5, WalkIsChain
<1>7. ChainOf(last, stored, bareOnes) \subseteq ChainOf(b, stored, bareOnes)
  BY <1>1, <1>4, ChainSplitsAtBlock DEF ChainSplits
<1>8. PICK c \in ChainOf(last, stored, bareOnes) : Prev[c] = g
  BY <1>2, <1>3, <1>6 DEF IsChain
<1>9. c \in Blocks /\ c # b /\ c \in ChainOf(b, stored, bareOnes)
  <2>1. c \in Blocks /\ (c = last \/ Height[c] < Height[last])
    BY <1>6, <1>8 DEF IsChain
  <2>2. Height[c] \in Nat /\ Height[last] \in Nat /\ Height[b] \in Nat /\ Walk \in Nat
    BY <1>1, <1>5, <2>1, BlockAssumption, BoundAssumption
  <2>3. Height[c] < Height[b]
    BY <1>4, <2>1, <2>2
  <2> QED
    BY <1>7, <1>8, <2>1, <2>2, <2>3
<1>10. PICK z \in ChainOf(b, stored, bareOnes) : Prev[z] = c
  BY <1>5, <1>9 DEF IsChain
<1>11. z \in Blocks
  BY <1>5, <1>10 DEF IsChain
<1>12. g # None
  BY <1>2, <1>3, <1>6, BlockAssumption DEF IsChain
<1>13. x = c
  BY <1>2, <1>8, <1>9, <1>10, <1>11, <1>12 DEF SingleBlockForks
<1>14. x = last
  BY <1>2, <1>3, <1>8, <1>13
<1>15. last \in ChainOf(b, S2, B2)
  BY <1>1, <1>3, <1>4, <1>5, CutKeepsWalks
<1> QED
  BY <1>1, <1>14, <1>15 DEF MainChain

\* A fork that grows from a checkpoint object grows from the last one.
LEMMA ForkFromLast ==
    ASSUME StartIsLast, Places, NEW p, NEW b \in Relayed, OnFork(p, b), Prev[b] \in bare
    PROVE  Prev[b] = Start
<1>1. b \in Blocks /\ Prev[b] \in Checkpoints /\ Start \in Checkpoints /\ Checkpoints \subseteq Blocks
  BY CheckpointAssumption DEF Relayed, Places
<1>2. Height[b] > Height[Start] /\ Height[Prev[b]] <= Height[Start]
  BY <1>1 DEF OnFork, StartIsLast
<1>3. Height[b] = Height[Prev[b]] + 1 /\ Height[Prev[b]] \in Nat /\ Height[Start] \in Nat
  BY <1>1, BlockAssumption
<1>4. Height[Prev[b]] = Height[Start]
  BY <1>2, <1>3
<1> QED
  BY <1>1, <1>4, CheckpointAssumption

\* While the root is the last checkpoint, no fork grows beside the main chain,
\* and a rescan starts on it.
LEMMA StubsStay ==
    ASSUME StartIsLast, SingleBlockForks, Places, Stored,
           NEW r \in Blocks, RootedAt(r), Start \in blocks => r = Start,
           Next, ~Restart
    PROVE  ForksFromChain /\ ForksCutAlone /\ RescanOnChain
<1>1. Start \in blocks => Start \in MainChain
  BY DEF RootedAt, Rooted, MainChain
<1>2. ForksFromChain
  <2> SUFFICES ASSUME NEW p \in Peers, NEW b \in Relayed, OnFork(p, b), Prev[b] \in bare
               PROVE  Prev[b] \in MainChain
    BY DEF ForksFromChain, AddFork, Reorganise
  <2>1. Prev[b] = Start
    BY ForkFromLast
  <2> QED
    BY <1>1, <2>1 DEF Stored
<1>3. RescanOnChain
  BY <1>1 DEF RescanOnChain
<1>4. ForksCutAlone
  <2>1. CASE \E p \in Peers, b \in Relayed : Extend(p, b)
    BY <2>1, StubsCutAlone
  <2>2. CASE blocks \subseteq blocks'
    BY <2>2 DEF ForksCutAlone
  <2>3. ASSUME NEW p \in Peers, NEW b \in Relayed, Relay(p, b), ~Extend(p, b)
        PROVE  blocks \subseteq blocks'
    BY <2>3 DEF Relay, Ignore, AddOrphan, Replace, AddAhead, AddFork, Reorganise
  <2> QED
    BY <2>1, <2>2, <2>3 DEF Next, SaveBlocks, PeerConnected, UpdateFilter, LoadFilter, Rescan
<1> QED
  BY <1>2, <1>3, <1>4

\* The blocks that a step of the running process adds are above the checkpoint,
\* and so the tip stays.
LEMMA AddsAbove ==
    ASSUME Places, Next, ~Restart, Height[Start] <= Height[lastBlock]
    PROVE  Height[Start] <= Height[lastBlock'] /\ (Start \in blocks' => Start \in blocks)
<1>1. Start \in Checkpoints /\ Height[Start] \in Nat /\ Height[lastBlock] \in Nat
  BY CheckpointAssumption, BlockAssumption DEF Places
<1>2. ASSUME NEW p \in Peers, NEW b \in Relayed, Relay(p, b)
      PROVE  Height[Start] <= Height[lastBlock'] /\ (Start \in blocks' => Start \in blocks)
  <2>1. b \in Blocks /\ Height[b] \in Nat
    BY BlockAssumption DEF Relayed
  <2>2. CASE Extend(p, b)
    <3>1. Prev[b] = lastBlock /\ lastBlock' = b /\ blocks' \subseteq blocks \cup {b}
      BY <2>2 DEF Extend
    <3>2. Height[b] = Height[lastBlock] + 1
      BY <2>1, <3>1, ChildHeight DEF Places
    <3> QED
      BY <1>1, <2>1, <3>1, <3>2
  <2>3. CASE OnFork(p, b) /\ blocks' = blocks \cup {b} /\ lastBlock' \in {lastBlock, b}
    <3>1. Height[b] > Height[Start]
      BY <1>1, <2>3 DEF OnFork
    <3> QED
      BY <1>1, <2>1, <2>3, <3>1
  <2>4. CASE blocks' = blocks /\ lastBlock' = lastBlock
    BY <2>4
  <2> QED
    BY <1>2, <2>2, <2>3, <2>4 DEF Relay, Ignore, AddOrphan, Replace, AddAhead, AddFork, Reorganise
<1>3. CASE Rescan
  BY <1>1, <1>3 DEF Rescan, RescanFrom
<1> QED
  BY <1>2, <1>3 DEF Next, SaveBlocks, PeerConnected, UpdateFilter, LoadFilter

\* Restarts are counted.
LEMMA RestartsStay ==
    ASSUME Places, [Next]_vars, restarts # 0 \/ Restart
    PROVE  restarts' # 0
<1>1. CASE Restart
  BY <1>1 DEF Restart, Places
<1>2. ASSUME NEW p \in Peers, NEW b \in Relayed, Relay(p, b) PROVE restarts' = restarts
  BY <1>2 DEF Relay, Ignore, AddOrphan, Extend, Replace, AddAhead, AddFork, Reorganise
<1>3. CASE ~Restart
  <2>1. restarts' = restarts
    BY <1>2, <1>3 DEF Next, SaveBlocks, PeerConnected, UpdateFilter, LoadFilter, Rescan, vars
  <2> QED
    BY <1>3, <2>1
<1> QED
  BY <1>1, <1>3

\* Every step keeps the checkpoint at the root.
LEMMA StepStartIsRoot ==
    ASSUME StartIsLast, SingleBlockForks, Places, Stored, StartIsRoot, [Next]_vars
    PROVE  StartIsRoot'
<1>1. CASE UNCHANGED vars
  BY <1>1 DEF vars, StartIsRoot, RootedAt
<1>2. CASE restarts # 0 \/ Restart
  <2>1. restarts' # 0
    BY <1>2, RestartsStay
  <2> QED
    BY <2>1 DEF StartIsRoot
<1>3. CASE restarts = 0 /\ Next /\ ~Restart
  <2>1. Height[Start] <= Height[lastBlock'] /\ (Start \in blocks' => Start \in blocks)
    BY <1>3, AddsAbove DEF StartIsRoot
  <2>2. PICK r \in Blocks : RootedAt(r) /\ (Start \in blocks => r = Start)
    BY <1>3 DEF StartIsRoot
  <2>3. KeepsRoot(r)
    BY <1>3, <2>2, StubsStay, StepKeepsRoot
  <2>4. PICK d \in Blocks : RootedAt(d)' /\ (r \in blocks' => d = r)
    BY <2>3 DEF KeepsRoot
  <2>5. Start \in blocks' => d = Start
    BY <2>1, <2>2, <2>4
  <2> QED
    BY <2>1, <2>4, <2>5 DEF StartIsRoot
<1> QED
  BY <1>1, <1>2, <1>3

\* At the start it is the tip.
LEMMA StartIsRootInitially == Init => StartIsRoot
<1> SUFFICES ASSUME Init PROVE StartIsRoot
  OBVIOUS
<1>1. /\ lastBlock = Start /\ blocks \in SUBSET Blocks /\ Start \in Blocks
      /\ Height[Start] \in Nat
      /\ Back(Start, blocks, bare) = None
  BY CheckpointAssumption, BlockAssumption DEF Init, Back
<1>2. PICK r \in Blocks : RootedAt(r)
  BY RootInitially DEF RootInv
<1>3. r \in ChainOf(Start, blocks, bare)
  BY <1>1, <1>2 DEF RootedAt, Rooted
<1>4. r = Start
  BY <1>1, <1>3, ChainUnfolds
<1> QED
  BY <1>1, <1>2, <1>4 DEF StartIsRoot

\* Above the last checkpoint, with forks of single blocks, it is always the root.
LEMMA StartIsRootAlways ==
    ASSUME StartIsLast, SingleBlockForks
    PROVE  Spec => []StartIsRoot
<1>1. IInv /\ TreeInv => Places /\ Stored
  BY DEF IInv, TreeInv
<1>2. []IInv /\ []TreeInv => [](Places /\ Stored)
  BY <1>1, PTL
<1>3. Places /\ Stored /\ StartIsRoot /\ [Next]_vars => StartIsRoot'
  BY StepStartIsRoot
<1>4. Init => StartIsRoot
  BY StartIsRootInitially
<1>5. Init /\ [][Next]_vars /\ [](Places /\ Stored) => []StartIsRoot
  BY <1>3, <1>4, PTL
<1> QED
  BY <1>2, <1>5, IInvAlways, TreeInvAlways, PTL DEF Spec

\* Where forks are single blocks and no checkpoint is above Start, the walks
\* find their blocks whatever peers relay and the user rescans, until a restart.
THEOREM StubsMeet ==
    ASSUME StartIsLast, SingleBlockForks
    PROVE  Spec => [](restarts = 0 => broken # "null")
<1>1. StartIsRoot => (restarts = 0 => broken # "null")
  BY DEF StartIsRoot, RootedAt
<1> QED
  BY <1>1, StartIsRootAlways, PTL

-----------------------------------------------------------------------------
(* Chains whose forks are shallower than the memory that is kept *)

\* Where two branches leave each other is kept behind the top of the lower one.
ShallowForks ==
    \A x, y \in Blocks :
        Height[x] > Height[y] /\ Start \in Line(x) \cap Line(y) =>
            \E j \in Line(x) \cap Line(y) : Height[y] <= Height[j] + Walk + 1

\* No fork grows from a checkpoint that the chain has not reached.
ForksFromReached ==
    \A p \in Peers, b \in Relayed :
        AddFork(p, b) \/ Reorganise(p, b) => (Prev[b] \in bare => Prev[b] = Start)

\* It is what peers do until a rescan or a restart.
ReachedFirst == [][rescans = 0 /\ restarts = 0 => ForksFromReached]_vars

\* The stored blocks come after Start, and their walks stop there or as far
\* below the tip as the memory is cleared.
Deep(S, B, tip) ==
    \A x \in S \ B :
        /\ Start \in Line(x)
        /\ Prev[x] \in B => Prev[x] = Start
        /\ Prev[x] \in S \/ Height[x] + Walk + 1 <= Height[tip]

\* That is how it is until a rescan or a restart.
DeepInv ==
    rescans = 0 /\ restarts = 0 =>
        /\ lastBlock \in bare => lastBlock = Start
        /\ Deep(blocks, bare, lastBlock)

\* Each walk ends.
LEMMA BottomExists ==
    ASSUME NEW S \in SUBSET Blocks, NEW B, NEW b \in Blocks
    PROVE  \E u \in ChainOf(b, S, B) : Back(u, S, B) = None
<1> DEFINE chain == ChainOf(b, S, B)
<1>1. chain \in SUBSET Blocks /\ chain # {}
  BY WalkIsChain DEF IsChain
<1>2. PICK u \in chain : \A c \in chain : ~(Height[c] < Height[u])
  <2> HIDE DEF chain
  <2> QED BY <1>1, LowestExists
<1>3. Back(u, S, B) = None
  <2> SUFFICES ASSUME Back(u, S, B) # None PROVE FALSE
    OBVIOUS
  <2> DEFINE q == Prev[u]
  <2>1. /\ Back(u, S, B) = q /\ q \in Blocks
        /\ Height[u] = Height[q] + 1 /\ Height[q] \in Nat
    BY <1>1, BackIsBlock, BlockAssumption
  <2>2. q \in ChainOf(u, S, B)
    <3>1. q \in ChainOf(q, S, B)
      BY <2>1, WalkIsChain DEF IsChain
    <3> QED
      BY <1>1, <2>1, <3>1, ChainUnfolds
  <2>3. q \in chain
    BY <2>2, ChainSplitsAtBlock DEF ChainSplits
  <2> HIDE DEF q, chain
  <2> QED
    BY <1>2, <2>1, <2>3
<1> QED
  BY <1>3

\* The walk from a block meets each block of its line that is after Start and
\* not too far below the tip.
LEMMA WalkIsDeep ==
    ASSUME NEW S \in SUBSET Blocks, NEW B, NEW tip \in Blocks, Deep(S, B, tip),
           NEW x \in S, x \in B => x = Start,
           NEW j \in Line(x), Height[Start] <= Height[j], Height[tip] <= Height[j] + Walk + 1
    PROVE  j \in ChainOf(x, S, B)
<1>1. PICK u \in ChainOf(x, S, B) : Back(u, S, B) = None
  BY BottomExists
<1>2. IsChain(ChainOf(x, S, B), x, S)
  BY WalkIsChain
<1>3. u \in S /\ u \in Blocks /\ Height[u] \in Nat
  BY <1>1, <1>2, BlockAssumption DEF IsChain
<1>4. j \in Blocks /\ Height[j] \in Nat /\ Height[tip] \in Nat /\ Walk \in Nat
  BY LineIsChain, BlockAssumption, BoundAssumption DEF IsChain
<1>5. Height[u] <= Height[j]
  <2>1. CASE u \in B
    <3>1. u = Start
      <4>1. CASE u = x
        BY <2>1, <4>1
      <4>2. CASE u # x
        <5>1. PICK c \in ChainOf(x, S, B) : Prev[c] = u /\ Height[c] = Height[u] + 1
          BY <1>1, <1>2, <4>2 DEF IsChain
        <5>2. c \in S /\ c # u
          BY <1>2, <1>3, <5>1 DEF IsChain
        <5>3. c \notin B
          <6>1. Back(c, S, B) # None
            BY <1>1, <5>2, OneBottom
          <6> QED
            BY <6>1 DEF Back
        <5> QED
          BY <2>1, <5>1, <5>2, <5>3 DEF Deep
      <4> QED
        BY <4>1, <4>2
    <3> QED
      BY <3>1
  <2>2. CASE u \notin B
    <3>1. Prev[u] \notin S
      BY <1>1, <1>3, <2>2, BlockAssumption DEF Back
    <3>2. Height[u] + Walk + 1 <= Height[tip]
      BY <1>3, <2>2, <3>1 DEF Deep
    <3> QED
      BY <1>3, <1>4, <3>2
  <2> QED
    BY <2>1, <2>2
<1>6. Height[j] >= Height[u]
  BY <1>3, <1>4, <1>5
<1> QED
  BY <1>1, <1>6, WalkLeavesNoneOut DEF WalkIsWhole

\* A block that is added comes after Start, and leaves the others as they are
\* below a tip that is not lower.
LEMMA AddDeep ==
    ASSUME NEW S \in SUBSET Blocks, NEW B, NEW tip \in Blocks, Deep(S, B, tip),
           NEW b \in Blocks, Prev[b] \in S, Prev[b] \in B => Prev[b] = Start,
           NEW top \in Blocks, Height[tip] <= Height[top]
    PROVE  /\ Start \in Line(b)
           /\ Deep(S \cup {b}, B \ {b}, top)
<1>1. Prev[b] \in Blocks /\ Prev[b] # None
  BY BlockAssumption
<1>2. Start \in Line(b)
  <2>1. Start \in Line(Prev[b])
    <3>1. CASE Prev[b] \in B
      BY <1>1, <3>1, LineIsChain DEF IsChain
    <3>2. CASE Prev[b] \notin B
      BY <3>2 DEF Deep
    <3> QED
      BY <3>1, <3>2
  <2> QED
    BY <1>1, <2>1, LineUnfolds
<1>3. ASSUME NEW x \in (S \cup {b}) \ (B \ {b})
      PROVE  /\ Start \in Line(x)
             /\ Prev[x] \in B \ {b} => Prev[x] = Start
             /\ Prev[x] \in S \cup {b} \/ Height[x] + Walk + 1 <= Height[top]
  <2>1. CASE x = b
    BY <1>2, <2>1
  <2>2. CASE x # b
    <3>1. x \in S \ B /\ x \in Blocks
      BY <1>3, <2>2
    <3>2. /\ Start \in Line(x)
          /\ Prev[x] \in B => Prev[x] = Start
          /\ Prev[x] \in S \/ Height[x] + Walk + 1 <= Height[tip]
      BY <3>1 DEF Deep
    <3>3. Height[x] \in Nat /\ Height[tip] \in Nat /\ Height[top] \in Nat /\ Walk \in Nat
      BY <3>1, BlockAssumption, BoundAssumption
    <3>4. Height[x] + Walk + 1 <= Height[tip] => Height[x] + Walk + 1 <= Height[top]
      BY <3>3
    <3> QED
      BY <3>2, <3>4
  <2> QED
    BY <2>1, <2>2
<1> QED
  BY <1>2, <1>3 DEF Deep

\* What is cleared is so far below the tip.
LEMMA CutDeep ==
    ASSUME NEW S \in SUBSET Blocks, NEW B, NEW tip \in Blocks, Deep(S, B, tip),
           NEW gone, \A x \in gone : x \in Blocks /\ Height[x] + Walk + 2 <= Height[tip]
    PROVE  Deep(S \ gone, B \ gone, tip)
<1> SUFFICES ASSUME NEW x \in S \ B, x \notin gone
             PROVE  /\ Start \in Line(x)
                    /\ Prev[x] \in B => Prev[x] = Start
                    /\ Prev[x] \in S \ gone \/ Height[x] + Walk + 1 <= Height[tip]
  BY DEF Deep
<1>1. /\ Start \in Line(x)
      /\ Prev[x] \in B => Prev[x] = Start
      /\ Prev[x] \in S \/ Height[x] + Walk + 1 <= Height[tip]
  BY DEF Deep
<1>2. CASE Prev[x] \in gone
  <2>1. Height[x] = Height[Prev[x]] + 1 /\ Height[Prev[x]] \in Nat /\ Height[tip] \in Nat /\ Walk \in Nat
    BY <1>2, BlockAssumption, BoundAssumption
  <2>2. Height[Prev[x]] + Walk + 2 <= Height[tip]
    BY <1>2
  <2>3. Height[x] + Walk + 1 <= Height[tip]
    BY <2>1, <2>2
  <2> QED
    BY <1>1, <2>3
<1> QED
  BY <1>1, <1>2

\* "new block extends main chain".
LEMMA ExtendDeep ==
    ASSUME Places, Stored, Deep(blocks, bare, lastBlock), lastBlock \in bare => lastBlock = Start,
           NEW p \in Peers, NEW b \in Relayed, Extend(p, b)
    PROVE  Deep(blocks', bare', lastBlock') /\ lastBlock' \notin bare'
<1> DEFINE stored == blocks \cup {b}
           bareOnes == bare \ {b}
           gone == Tail(b, stored, bareOnes)
           last == Before(b, Walk + 1, stored, bareOnes)
<1>1. /\ b \in Blocks /\ stored \in SUBSET Blocks /\ lastBlock \in Blocks /\ blocks \in SUBSET Blocks
      /\ Prev[b] = lastBlock /\ Prev[b] \in blocks
      /\ lastBlock' = b /\ blocks' = stored \ gone /\ bare' = bareOnes \ gone
  BY DEF Extend, Relayed, Places, Stored
<1>2. Height[lastBlock] <= Height[b] /\ Height[b] \in Nat
  <2>1. Height[b] = Height[lastBlock] + 1 /\ Height[lastBlock] \in Nat
    BY <1>1, ChildHeight
  <2> QED
    BY <2>1
<1>3. Deep(stored, bareOnes, b)
  BY <1>1, <1>2, AddDeep
<1>4. \A x \in gone : x \in Blocks /\ Height[x] + Walk + 2 <= Height[b]
  <2> SUFFICES ASSUME NEW x \in gone PROVE x \in Blocks /\ Height[x] + Walk + 2 <= Height[b]
    OBVIOUS
  <2>1. last # None /\ x \in ChainOf(last, stored, bareOnes) \ {last}
    BY DEF Tail
  <2>2. last \in ChainOf(b, stored, bareOnes) /\ Height[last] = Height[b] - (Walk + 1)
    BY <2>1 DEF Before
  <2> HIDE DEF stored, bareOnes, gone, last
  <2>3. last \in Blocks
    BY <1>1, <2>2, WalkIsChain DEF IsChain
  <2>4. x \in Blocks /\ Height[x] < Height[last]
    BY <1>1, <2>1, <2>3, WalkIsChain DEF IsChain
  <2>5. Height[x] \in Nat /\ Height[last] \in Nat /\ Walk \in Nat
    BY <2>3, <2>4, BlockAssumption, BoundAssumption
  <2>6. Height[x] + Walk + 2 <= Height[b]
    BY <1>2, <2>2, <2>4, <2>5
  <2> QED
    BY <2>4, <2>6
<1> HIDE DEF stored, gone
<1>5. Deep(stored \ gone, bareOnes \ gone, b)
  BY <1>1, <1>3, <1>4, CutDeep
<1> QED
  BY <1>1, <1>5

\* A block whose parent is stored comes after Start.
LEMMA LinkedAfterStart ==
    ASSUME Places, Stored, Deep(blocks, bare, lastBlock), NEW b \in Blocks,
           Prev[b] \in blocks, Prev[b] \in bare => Prev[b] = Start
    PROVE  Start \in Line(b) /\ Height[Start] <= Height[b]
<1>1. Prev[b] \in Blocks /\ Prev[b] # None /\ Start \in Blocks
  BY BlockAssumption, CheckpointAssumption DEF Places
<1>2. Start \in Line(Prev[b])
  <2>1. CASE Prev[b] \in bare
    BY <1>1, <2>1, LineIsChain DEF IsChain
  <2>2. CASE Prev[b] \notin bare
    BY <2>2 DEF Deep
  <2> QED
    BY <2>1, <2>2
<1>3. Start \in Line(b)
  BY <1>1, <1>2, LineUnfolds
<1>4. Start = b \/ Height[Start] < Height[b]
  BY <1>3, LineIsChain DEF IsChain
<1>5. Height[Start] \in Nat /\ Height[b] \in Nat
  BY <1>1, BlockAssumption
<1> QED
  BY <1>3, <1>4, <1>5

\* So does the tip.
LEMMA TipAfterStart ==
    ASSUME Places, Stored, Deep(blocks, bare, lastBlock), lastBlock \in bare => lastBlock = Start
    PROVE  Start \in Line(lastBlock)
<1>1. CASE lastBlock \in bare
  BY <1>1, LineIsChain DEF IsChain, Places
<1>2. CASE lastBlock \notin bare
  BY <1>2 DEF Deep, Stored
<1> QED
  BY <1>1, <1>2

\* A block that leaves the chain within the kept memory leaves it at a block
\* that is not before Start either.
LEMMA KeptAfterStart ==
    ASSUME Places, NEW b \in Blocks, Kept(b), Start \in Line(b), Start \in Line(lastBlock)
    PROVE  \E k \in Line(b) \cap Line(lastBlock) :
                Height[lastBlock] <= Height[k] + Walk + 1 /\ Height[Start] <= Height[k]
<1>1. PICK j \in Line(b) \cap Line(lastBlock) : Height[lastBlock] <= Height[j] + Walk + 1
  BY DEF Kept, Ancestry
<1>2. j \in Blocks /\ Start \in Blocks /\ lastBlock \in Blocks
  BY <1>1, LineIsChain, CheckpointAssumption DEF IsChain, Places
<1>3. /\ Height[j] \in Nat /\ Height[Start] \in Nat /\ Height[lastBlock] \in Nat
      /\ Walk \in Nat
  BY <1>2, BlockAssumption, BoundAssumption
<1>4. CASE Height[Start] <= Height[j]
  BY <1>1, <1>4
<1>5. CASE Height[j] <= Height[Start]
  <2>1. Height[lastBlock] <= Height[Start] + Walk + 1 /\ Height[Start] <= Height[Start]
    BY <1>1, <1>3, <1>5
  <2> QED
    BY <2>1
<1> QED
  BY <1>3, <1>4, <1>5

\* A reorganisation to such a block finds where the branches join.
LEMMA KeptMeets ==
    ASSUME Places, Stored, Deep(blocks, bare, lastBlock),
           lastBlock \in bare => lastBlock = Start,
           NEW p \in Peers, NEW b \in Relayed, Reorganise(p, b), Kept(b),
           Prev[b] \in bare => Prev[b] = Start
    PROVE  Meets(b)
<1> DEFINE stored == blocks \cup {b}
           tip == lastBlock
<1>1. /\ b \in Blocks /\ b \notin blocks /\ Prev[b] \in blocks /\ blocks \in SUBSET Blocks
      /\ stored \in SUBSET Blocks /\ b \in stored /\ tip \in stored /\ tip \in Blocks
      /\ Height[b] > Height[tip] /\ bare \ {b} = bare /\ b \notin bare
  BY DEF Reorganise, OnFork, Linked, Longer, Relayed, Places, Stored
<1>2. Height[tip] <= Height[b] /\ Height[tip] <= Height[tip]
  BY <1>1, BlockAssumption
<1>3. Start \in Line(b) /\ Start \in Line(tip)
  BY <1>1, LinkedAfterStart, TipAfterStart
<1>4. Deep(stored, bare, tip)
  <2>1. Deep(stored, bare \ {b}, tip)
    BY <1>1, <1>2, AddDeep
  <2> QED
    BY <1>1, <2>1
<1>5. PICK k \in Line(b) \cap Line(tip) :
          Height[tip] <= Height[k] + Walk + 1 /\ Height[Start] <= Height[k]
  BY <1>1, <1>3, KeptAfterStart
<1>6. tip \in bare => tip = Start
  OBVIOUS
<1> HIDE DEF stored, tip
<1>7. k \in ChainOf(b, stored, bare)
  BY <1>1, <1>4, <1>5, WalkIsDeep
<1>8. k \in ChainOf(tip, stored, bare)
  BY <1>1, <1>4, <1>5, <1>6, WalkIsDeep
<1>9. JoinIsFound(b, tip, stored, bare)
  BY <1>1, <1>2, <1>7, <1>8, CommonJoins
<1> QED
  BY <1>9 DEF JoinIsFound, Meets, stored, tip

\* The walk from the tip to the height of such a block, relayed again, does not
\* run out.
LEMMA KeptIsReached ==
    ASSUME Places, Stored, Deep(blocks, bare, lastBlock),
           lastBlock \in bare => lastBlock = Start,
           NEW p \in Peers, NEW b \in Relayed, Replace(p, b), Kept(b)
    PROVE  \E x \in MainChain : ~(Height[x] > Height[b])
<1>1. /\ b \in Blocks /\ b \in blocks /\ Prev[b] \in blocks /\ blocks \in SUBSET Blocks
      /\ lastBlock \in blocks /\ lastBlock \in Blocks
  BY DEF Replace, Linked, Relayed, Places, Stored
<1>2. Prev[b] \in bare => Prev[b] = Start
  <2>1. CASE b \in bare
    BY <2>1, CheckpointAssumption DEF Places
  <2>2. CASE b \notin bare
    BY <1>1, <2>2 DEF Deep
  <2> QED
    BY <2>1, <2>2
<1>3. Start \in Line(b) /\ Start \in Line(lastBlock)
  BY <1>1, <1>2, LinkedAfterStart, TipAfterStart
<1>4. PICK k \in Line(b) \cap Line(lastBlock) :
          Height[lastBlock] <= Height[k] + Walk + 1 /\ Height[Start] <= Height[k]
  BY <1>1, <1>3, KeptAfterStart
<1>5. k \in MainChain
  BY <1>1, <1>4, WalkIsDeep DEF MainChain
<1>6. k = b \/ Height[k] < Height[b]
  BY <1>1, <1>4, LineIsChain DEF IsChain
<1>7. Height[b] \in Nat /\ k \in Blocks /\ Height[k] \in Nat
  BY <1>1, <1>4, LineIsChain, BlockAssumption DEF IsChain
<1> QED
  BY <1>5, <1>6, <1>7

\* In shallow forks every longer block leaves the chain within the kept memory.
LEMMA ShallowIsKept ==
    ASSUME ShallowForks, Places, Stored, Deep(blocks, bare, lastBlock),
           lastBlock \in bare => lastBlock = Start,
           NEW p \in Peers, NEW b \in Relayed, Reorganise(p, b),
           Prev[b] \in bare => Prev[b] = Start
    PROVE  Kept(b)
<1>1. b \in Blocks /\ Prev[b] \in blocks /\ lastBlock \in Blocks /\ Height[b] > Height[lastBlock]
  BY DEF Reorganise, OnFork, Linked, Longer, Relayed, Places
<1>2. Start \in Line(b) \cap Line(lastBlock)
  BY <1>1, LinkedAfterStart, TipAfterStart
<1> QED
  BY <1>1, <1>2 DEF ShallowForks, Kept, Ancestry

\* Every step keeps the walks deep.
LEMMA StepDeep ==
    ASSUME Places, Stored, DeepInv, [Next]_vars, [rescans = 0 /\ restarts = 0 => ForksFromReached]_vars
    PROVE  DeepInv'
<1> DEFINE D == Deep(blocks, bare, lastBlock) /\ (lastBlock \in bare => lastBlock = Start)
<1>0. CASE UNCHANGED <<blocks, bare, lastBlock, rescans, restarts>>
  BY <1>0 DEF DeepInv
<1>1. ASSUME NEW p \in Peers, NEW b \in Relayed, Relay(p, b), rescans = 0, restarts = 0,
             ~UNCHANGED <<blocks, bare, lastBlock, rescans, restarts>>
      PROVE  D'
  <2>0. D /\ ForksFromReached
    BY <1>1 DEF DeepInv, vars
  <2>1. CASE Extend(p, b)
    BY <2>0, <2>1, ExtendDeep
  <2>2. CASE Replace(p, b)
    <3>1. /\ b \in Blocks /\ b \in blocks /\ Prev[b] \in blocks /\ blocks \in SUBSET Blocks
          /\ lastBlock \in Blocks /\ Height[lastBlock] <= Height[lastBlock]
          /\ blocks' = blocks /\ lastBlock' = lastBlock /\ bare' = bare \ {b}
      BY <2>2, BlockAssumption DEF Replace, Linked, Relayed, Places
    <3>2. CASE b \in bare
      <4>1. Prev[b] \notin bare
        BY <3>2, CheckpointAssumption DEF Places
      <4>2. Deep(blocks \cup {b}, bare \ {b}, lastBlock)
        BY <2>0, <3>1, <4>1, AddDeep
      <4>3. blocks \cup {b} = blocks
        BY <3>1
      <4> QED
        BY <2>0, <3>1, <4>2, <4>3
    <3>3. CASE b \notin bare
      <4>1. bare' = bare
        BY <3>1, <3>3
      <4> QED
        BY <2>0, <3>1, <4>1
    <3> QED
      BY <3>2, <3>3
  <2>3. CASE AddFork(p, b) \/ Reorganise(p, b)
    <3>1. /\ b \in Blocks /\ b \notin blocks /\ Prev[b] \in blocks /\ blocks \in SUBSET Blocks
          /\ lastBlock \in Blocks /\ bare \ {b} = bare /\ b \notin bare
          /\ blocks' = blocks \cup {b} /\ bare' = bare
      BY <2>3 DEF AddFork, Reorganise, OnFork, Linked, Relayed, Places, Stored
    <3>2. lastBlock' = lastBlock \/ (lastBlock' = b /\ Height[b] > Height[lastBlock])
      BY <2>3 DEF AddFork, Reorganise, Longer
    <3>3. lastBlock' \in Blocks /\ Height[lastBlock] <= Height[lastBlock']
      BY <3>1, <3>2, BlockAssumption
    <3>4. Prev[b] \in bare => Prev[b] = Start
      BY <2>0, <2>3 DEF ForksFromReached
    <3>5. Deep(blocks \cup {b}, bare \ {b}, lastBlock')
      BY <2>0, <3>1, <3>3, <3>4, AddDeep
    <3> QED
      BY <2>0, <3>1, <3>2, <3>5
  <2> QED
    BY <1>1, <2>1, <2>2, <2>3 DEF Relay, Ignore, AddOrphan, AddAhead
<1>2. ASSUME NEW p \in Peers, NEW b \in Relayed, Relay(p, b)
      PROVE  UNCHANGED <<rescans, restarts>>
  BY <1>2 DEF Relay, Ignore, AddOrphan, Extend, Replace, AddAhead, AddFork, Reorganise
<1>3. CASE \E p \in Peers, b \in Relayed : Relay(p, b)
  <2> SUFFICES ASSUME ~UNCHANGED <<blocks, bare, lastBlock, rescans, restarts>> PROVE DeepInv'
    BY <1>0
  <2> HIDE DEF D
  <2>1. rescans = 0 /\ restarts = 0 => D'
    BY <1>1, <1>3
  <2> QED
    BY <1>2, <1>3, <2>1 DEF DeepInv, D
<1>4. CASE Rescan \/ Restart
  BY <1>4 DEF Rescan, Restart, DeepInv, Places
<1> QED
  BY <1>0, <1>3, <1>4 DEF Next, SaveBlocks, PeerConnected, UpdateFilter, LoadFilter, vars

\* The first state.
LEMMA DeepInitially == Init => DeepInv
  BY DEF Init, DeepInv, Deep

\* The walks stay deep as long as no fork grows from an unreached checkpoint.
LEMMA DeepInvAlways == Spec /\ ReachedFirst => []DeepInv
<1> DEFINE A == rescans = 0 /\ restarts = 0 => ForksFromReached
<1>1. IInv /\ TreeInv => Places /\ Stored
  BY DEF IInv, TreeInv
<1>2. []IInv /\ []TreeInv => [](Places /\ Stored)
  BY <1>1, PTL
<1>3. Places /\ Stored /\ DeepInv /\ [Next]_vars /\ [A]_vars => DeepInv'
  BY StepDeep
<1> HIDE DEF A
<1>4. Init /\ [][Next]_vars /\ [][A]_vars /\ [](Places /\ Stored) => []DeepInv
  BY <1>3, DeepInitially, PTL
<1> QED
  BY <1>2, <1>4, IInvAlways, TreeInvAlways, PTL DEF Spec, ReachedFirst, A

\* Until a rescan or a restart the walks find their blocks for whatever leaves the
\* chain within the memory that is kept, if no fork grows from a checkpoint before
\* the chain has reached it.
THEOREM KeptForksFound == Spec /\ ReachedFirst => WalksFindBlocks
<1> DEFINE R == rescans = 0 /\ restarts = 0 => ForksFromReached
           A == rescans = 0 /\ restarts = 0 /\ broken # "null" /\ broken' = "null" =>
                    \A p \in Peers, b \in Relayed : Relay(p, b) => ~Kept(b)
<1>1. IInv /\ TreeInv => Places /\ Stored
  BY DEF IInv, TreeInv
<1>2. []IInv /\ []TreeInv => [](Places /\ Stored)
  BY <1>1, PTL
<1>3. ASSUME Places, Stored, DeepInv, [R]_vars PROVE [A]_vars
  <2> SUFFICES ASSUME R, rescans = 0, restarts = 0, broken # "null", broken' = "null",
                      NEW p \in Peers, NEW b \in Relayed, Relay(p, b), Kept(b)
               PROVE  FALSE
    BY <1>3 DEF vars
  <2>1. ForksFromReached /\ Deep(blocks, bare, lastBlock) /\ (lastBlock \in bare => lastBlock = Start)
    BY <1>3 DEF DeepInv
  <2>2. CASE Replace(p, b)
    <3>1. \E x \in MainChain : ~(Height[x] > Height[b])
      BY <1>3, <2>1, <2>2, KeptIsReached
    <3> QED
      BY <2>2, <3>1 DEF Replace
  <2>3. CASE Reorganise(p, b)
    <3>1. Meets(b)
      BY <1>3, <2>1, <2>3, KeptMeets DEF ForksFromReached
    <3> QED
      BY <2>3, <3>1 DEF Reorganise, Meets
  <2> QED
    BY <2>2, <2>3 DEF Relay, Ignore, AddOrphan, Extend, AddAhead, AddFork
<1> HIDE DEF R, A
<1>4. [](Places /\ Stored) /\ []DeepInv /\ [][R]_vars => [][A]_vars
  BY <1>3, PTL
<1> QED
  BY <1>2, <1>4, IInvAlways, TreeInvAlways, DeepInvAlways, PTL
     DEF ReachedFirst, WalksFindBlocks, R, A

\* A step from heights that are right leaves them right.
LEMMA StepConfirmsShallow ==
    ASSUME ShallowForks, Places, Stored, DeepInv, ConfirmedOnChain, [Next]_vars,
           [rescans = 0 /\ restarts = 0 => ForksFromReached]_vars
    PROVE  ConfirmedOnChain'
<1> DEFINE A == \A p \in Peers, b \in Relayed : Reorganise(p, b) => Meets(b)
<1>1. CASE rescans = 0 /\ restarts = 0
  <2>1. ASSUME ForksFromReached PROVE A
    BY <1>1, <2>1, ShallowIsKept, KeptMeets DEF DeepInv, ForksFromReached
  <2>2. [A]_vars
    BY <1>1, <2>1
  <2> QED
    BY <2>2, StepConfirms
<1>2. CASE rescans # 0 \/ restarts # 0
  <2>1. ASSUME NEW p \in Peers, NEW b \in Relayed, Relay(p, b)
        PROVE  UNCHANGED <<rescans, restarts>>
    BY <2>1 DEF Relay, Ignore, AddOrphan, Extend, Replace, AddAhead, AddFork, Reorganise
  <2>2. CASE Rescan
    <3>1. rescans' # 0
      BY <2>2 DEF Rescan, Places
    <3> QED
      BY <3>1 DEF ConfirmedOnChain
  <2>3. CASE Restart
    <3>1. restarts' # 0
      BY <2>3 DEF Restart, Places
    <3> QED
      BY <3>1 DEF ConfirmedOnChain
  <2>4. CASE ~Rescan /\ ~Restart
    <3>1. UNCHANGED <<rescans, restarts>>
      BY <2>1, <2>4 DEF Next, SaveBlocks, PeerConnected, UpdateFilter, LoadFilter, vars
    <3> QED
      BY <1>2, <3>1 DEF ConfirmedOnChain
  <2> QED
    BY <2>2, <2>3, <2>4
<1> QED
  BY <1>1, <1>2

\* Through forks that are no deeper than the memory that is kept, the wallet's
\* transactions have the heights of the chain that leads to the tip, if no fork
\* grows from a checkpoint before the chain has reached it.
THEOREM ShallowForksConfirm ==
    ASSUME ShallowForks
    PROVE  Spec /\ ReachedFirst => []ConfirmedOnChain
<1> DEFINE A == rescans = 0 /\ restarts = 0 => ForksFromReached
<1>1. IInv /\ TreeInv => Places /\ Stored
  BY DEF IInv, TreeInv
<1>2. []IInv /\ []TreeInv => [](Places /\ Stored)
  BY <1>1, PTL
<1>3. Places /\ Stored /\ DeepInv /\ ConfirmedOnChain /\ [Next]_vars /\ [A]_vars => ConfirmedOnChain'
  BY StepConfirmsShallow
<1> HIDE DEF A
<1>4. Init /\ [][Next]_vars /\ [][A]_vars /\ [](Places /\ Stored) /\ []DeepInv => []ConfirmedOnChain
  BY <1>3, ConfirmedInitially, PTL
<1> QED
  BY <1>2, <1>4, IInvAlways, TreeInvAlways, DeepInvAlways, PTL DEF Spec, ReachedFirst, A

\* Above the last checkpoint peers cannot do otherwise.
LEMMA StartLastReached ==
    ASSUME StartIsLast
    PROVE  Spec => ReachedFirst
<1> DEFINE A == rescans = 0 /\ restarts = 0 => ForksFromReached
<1>1. IInv => A
  BY ForkFromLast DEF ForksFromReached, AddFork, Reorganise, IInv
<1> HIDE DEF A
<1>2. []IInv => [][A]_vars
  BY <1>1, PTL
<1> QED
  BY <1>2, IInvAlways, PTL DEF ReachedFirst, A

\* A wallet whose first key is newer than the checkpoints has the right heights
\* whatever peers relay, through forks no deeper than the memory that is kept.
THEOREM NewWalletConfirmed ==
    ASSUME ShallowForks, StartIsLast
    PROVE  Spec => []ConfirmedOnChain
<1>1. Spec /\ ReachedFirst => []ConfirmedOnChain
  BY ShallowForksConfirm
<1>2. Spec => ReachedFirst
  BY StartLastReached
<1> QED
  BY <1>1, <1>2, PTL

\* Nor does it meet NULL for a block that leaves the chain within that memory.
THEOREM NewWalletForksFound ==
    ASSUME StartIsLast
    PROVE  Spec => WalksFindBlocks
  BY StartLastReached, KeptForksFound, PTL
=============================================================================
