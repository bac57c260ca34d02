----------------------------- MODULE MCBRWallet -----------------------------
(* A received transaction, two that spend its first output, and one that   *)
(* spends its second output and the change of the first spend without       *)
(* paying the wallet.                                                       *)
EXTENDS BRWallet

MCTxs == {"fund", "spend", "double", "child"}
MCInputs == [t \in MCTxs |->
    CASE t = "fund"   -> {<<"coin", 1>>}
      [] t = "spend"  -> {<<"fund", 1>>}
      [] t = "double" -> {<<"fund", 1>>}
      [] t = "child"  -> {<<"spend", 2>>, <<"fund", 2>>}]
Out(chain, k, amount) == [addr |-> <<chain, k>>, amount |-> amount]
MCOutputs == [t \in MCTxs |->
    CASE t = "fund"   -> <<Out("ext", 0, 5), Out("ext", 0, 1)>>
      [] t = "spend"  -> <<Out("other", 0, 2), Out("int", 0, 3)>>
      [] t = "double" -> <<Out("ext", 1, 4)>>
      [] t = "child"  -> <<Out("other", 1, 3)>>]
MCHeld == {}
MCLockHeight == [t \in MCTxs |-> IF t = "double" THEN 3 ELSE 0]

=============================================================================
