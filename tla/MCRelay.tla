------------------------------- MODULE MCRelay -------------------------------
(* Model checking of Relay: users and sockets are interchangeable.          *)
EXTENDS Relay, TLC

Symmetry == Permutations(Conn) \cup Permutations(User)
=============================================================================
