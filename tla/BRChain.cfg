SPECIFICATION Spec
CONSTANTS
  Peers = {"p", "q"}
  Blocks <- MCBlocks
  Prev <- MCPrev
  Height <- MCHeight
  Checkpoints = {"c0", "c2"}
  Start = "c0"
  Old = {"a3"}
  Txs <- MCTxs
  Matched <- MCMatched
  Trigger = 5
  Walk = 1
  SaveInterval = 2
  SaveCount = 2
  Unconfirmed = 9
  PeerHeights = {4}
  MaxRescans = 0
  MaxRestarts = 1
INVARIANTS TypeOK ConfirmedOnChain HighestTip OrphansDetached
PROPERTIES WalksFindBlocks
CHECK_DEADLOCK FALSE
