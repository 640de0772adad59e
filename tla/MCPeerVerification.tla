-------------------------- MODULE MCPeerVerification --------------------------
(* Model checking of PeerVerification: keys and calls are interchangeable.  *)
EXTENDS PeerVerification, TLC

Symmetry == Permutations(Key) \cup Permutations(RefreshCall)
=============================================================================
