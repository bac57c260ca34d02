---------------------------- MODULE MCBRPeerPool ----------------------------
EXTENDS BRPeerPool, TLC

Symmetry == Permutations(Peers)

=============================================================================
