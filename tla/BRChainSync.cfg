SPECIFICATION Spec
CONSTANTS
  Peers = {"p"}
  Blocks <- LineBlocks
  Prev <- LinePrev
  Height <- LineHeight
  Checkpoints = {"c0"}
  Start = "c0"
  Old = {}
  Txs = {"early", "late"}
  Matched <- LineMatched
  Trigger = 6
  Walk = 1
  SaveInterval = 2
  SaveCount = 2
  Unconfirmed = 9
  PeerHeights = {4, 5}
  MaxRescans = 1
  MaxRestarts = 0
PROPERTIES EventuallySynced
CHECK_DEADLOCK FALSE
