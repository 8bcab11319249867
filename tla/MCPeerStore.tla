---------------------------- MODULE MCPeerStore ----------------------------
EXTENDS PeerStore, TLC
Symmetry == Permutations(Workers) \cup Permutations(PeerIds)
=============================================================================
