--------------------------- MODULE MCPeerServer ----------------------------
(* Three sockets: two that form a pair, one that replaces or is refused.    *)
EXTENDS PeerServer, TLC

CONSTANTS w1, w2, w3

SocketSymmetry == Permutations(Sockets)
=============================================================================
