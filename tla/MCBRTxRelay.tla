---------------------------- MODULE MCBRTxRelay ----------------------------
(* A transaction, and one that spends from it and is published.              *)
EXTENDS BRTxRelay, TLC

CONSTANTS s1, s2, k

MCInputs == (s1 :> {}) @@ (s2 :> {s1})
MCTxOf == k :> s2

Symmetry == Permutations(Peers)

=============================================================================
