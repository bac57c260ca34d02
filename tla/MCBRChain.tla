----------------------------- MODULE MCBRChain ------------------------------
(* The first checkpoint, a chain of three blocks after it of which the second *)
(* is a checkpoint too, a fork after that one that grows longer, and a fork   *)
(* before it that is rejected; of the transactions one is in both branches, in *)
(* blocks of other heights.                                                    *)
EXTENDS BRChain

MCBlocks == {"c0", "a1", "c2", "a3", "a4", "b3", "b4", "b5", "d1", "d2"}
MCPrev == [b \in MCBlocks |->
    CASE b = "c0" -> None  [] b = "a1" -> "c0"  [] b = "c2" -> "a1"
      [] b = "a3" -> "c2"  [] b = "a4" -> "a3"
      [] b = "b3" -> "c2"  [] b = "b4" -> "b3"  [] b = "b5" -> "b4"
      [] b = "d1" -> "c0"  [] b = "d2" -> "d1"]
MCHeight == [b \in MCBlocks |->
    CASE b = "c0" -> 0
      [] b \in {"a1", "d1"} -> 1
      [] b \in {"c2", "d2"} -> 2
      [] b \in {"a3", "b3"} -> 3
      [] b \in {"a4", "b4"} -> 4
      [] b = "b5" -> 5]
MCMatched == [b \in MCBlocks |->
    CASE b = "a1" -> {"early"}
      [] b = "a3" -> {"both", "lost"}
      [] b = "b4" -> {"both", "late"}
      [] OTHER -> {}]
MCTxs == {"early", "both", "lost", "late"}

\* A chain of which only the last block has another beside it: forks are single
\* blocks there, and whichever of the two is the tip the chain is reached.
LineBlocks == {"c0", "a1", "a2", "a3", "a4", "a5", "b5"}
LineHeight == [b \in LineBlocks |->
    CASE b = "c0" -> 0  [] b = "a1" -> 1  [] b = "a2" -> 2
      [] b = "a3" -> 3  [] b = "a4" -> 4  [] b \in {"a5", "b5"} -> 5]
LinePrev == [b \in LineBlocks |->
    IF b = "c0" THEN None ELSE CHOOSE a \in LineBlocks : LineHeight[a] = LineHeight[b] - 1]
LineMatched == [b \in LineBlocks |->
    CASE b = "a1" -> {"early"}  [] b = "a5" -> {"late"}  [] OTHER -> {}]
=============================================================================
