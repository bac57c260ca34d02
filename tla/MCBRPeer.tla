------------------------------ MODULE MCBRPeer ------------------------------
(* A node with two blocks, the first with two transactions of the wallet and *)
(* the second with one of them; two completion callbacks.                    *)
EXTENDS BRPeer

CONSTANTS b1, b2, t1, t2

MCMatched == b1 :> {t1, t2} @@ b2 :> {t2}
MCInvs == {<<>>, <<b1>>, <<b2>>, <<b1, b2>>}

=============================================================================
