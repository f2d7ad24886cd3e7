--------------------------- MODULE MCSubscription ---------------------------
(* Instances of Subscription for TLC: one or two peers and a small scale   *)
(* of healthy values with the order of the real ones.                      *)
EXTENDS Subscription, TLC

CONSTANTS p1, p2

OnePeer == {p1}
TwoPeers == {p1, p2}
NoPeer == {}
Nobody == <<>>
ZeroByte == {0}
PeerSymmetry == Permutations(TwoPeers)
=============================================================================
