--------------------------- MODULE MCDoubleRatchet ---------------------------
(* Model checking of DoubleRatchet: the participants are interchangeable.   *)
EXTENDS DoubleRatchet, TLC

PartySymmetry == Permutations(Party)
=============================================================================
